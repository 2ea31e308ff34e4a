--------------------------- MODULE SafeModeProofs ---------------------------
(***************************************************************************)
(* The Safe Mode hand-off for every range of thresholds: whatever resets   *)
(* tear of the page and whenever, only what the operator confirmed is ever *)
(* in force, under an audit entry, and no staged change is lost.           *)
(***************************************************************************)
EXTENDS SafeModeHandoff, TLAPS

(***************************************************************************)
(* The inductive invariant.  A page may hold any mixture of two stores,    *)
(* but its checksum, if it is one at all, is the digest of a payload that  *)
(* was sealed whole; of this build's version only confirmed sets are.      *)
(***************************************************************************)
Confirmed(t) == t \in confirmed /\ validate_config(t)

Genuine(b) == \A p \in b.checksum : p.version = MIGRATION_VERSION => Confirmed(p.config)

Typed ==
  /\ phase \in Phase /\ page \in Page /\ storing \in Page
  /\ original \in Thresholds /\ working \in Thresholds /\ monitor \in Thresholds
  /\ pending \in {"None", "SaveConfirm", "ExitConfirm"} /\ committed \in BOOLEAN
  /\ monotonic \in Stamp /\ confirmed \subseteq Thresholds

Session ==
  /\ pending # "None" => phase = "console"
  /\ pending = "SaveConfirm" => is_dirty
  /\ phase = "saving" => decide(storing) = "Apply" /\ storing.config = original

(* Before the migration the thresholds are the compiled-in ones.           *)
Before ==
  phase \in {"off", "console", "saving", "exited", "booting"} =>
    monitor = default_config /\ audit = <<>>

(* Between set_thresholds and the end of the store of the cleared page.    *)
During ==
  phase \in {"applied", "clearing"} =>
    /\ decide(page) = "Apply" /\ monitor = page.config /\ storing = cleared(page)
    /\ audit = IF phase = "applied" THEN <<>> ELSE <<<<"apply", page.checksum>>>>

AtMostOne(s) == s = <<>> \/ s = <<s[1]>>

After ==
  /\ phase = "halted" => AtMostOne(audit)
  /\ phase \in {"migrated", "running"} =>
       /\ decide(page) \in {"NoBuffer", "NoChange"}
       /\ \/ monitor = default_config /\ AtMostOne(audit)
          \/ /\ Confirmed(monitor)
             /\ \E p \in Payload : audit = <<<<"apply", {p}>>>> /\ p.config = monitor /\ p.dirty

IInv == Typed /\ Genuine(page) /\ Genuine(storing) /\ Session /\ Before /\ During /\ After

USE MaxLevelAssumption, MaxStampAssumption
-----------------------------------------------------------------------------
(* The pure functions.  A sealed buffer carries the digest of itself.      *)
Sealable(p) ==
  /\ p.magic \in BOOLEAN /\ p.version \in {MIGRATION_VERSION, MIGRATION_VERSION + 1}
  /\ p.dirty \in BOOLEAN /\ p.config \in Thresholds /\ p.timestamp \in Stamp

(* Sealing gives the page the checksum of its own payload and changes       *)
(* nothing else of it.                                                      *)
LEMMA SealedPage ==
  ASSUME NEW p, Sealable(p)
  PROVE  /\ seal(p) \in Page
         /\ seal(p).magic = p.magic /\ seal(p).version = p.version
         /\ seal(p).dirty = p.dirty /\ seal(p).config = p.config
         /\ seal(p).checksum = {payload(seal(p))}
         /\ payload(seal(p)).version = p.version /\ payload(seal(p)).config = p.config
<1> DEFINE b == seal(p)
<1>1. payload(p) \in Payload /\ payload(p).version = p.version /\ payload(p).config = p.config
  BY DEF payload, Payload, Sealable
<1>2. /\ b.magic = p.magic /\ b.version = p.version /\ b.dirty = p.dirty /\ b.config = p.config
      /\ b.timestamp = p.timestamp /\ b.checksum = {payload(p)}
  BY DEF seal
<1>3. payload(b) = payload(p)
  BY <1>2 DEF payload
<1>4. b \in Page
  BY <1>1 DEF seal, Page, Sealable
<1> QED BY <1>1, <1>2, <1>3, <1>4

(* Half a store leaves a page whose digest is one of the two, or none.     *)
LEMMA TornPage ==
  ASSUME NEW old \in Page, NEW new \in Page, NEW done
  PROVE  /\ torn(old, new, done) \in Page
         /\ torn(old, new, done).checksum \subseteq old.checksum \cup new.checksum
<1> DEFINE b == torn(old, new, done)
<1>1. b.checksum \in {old.checksum, new.checksum, old.checksum \cap new.checksum}
  BY DEF torn
<1>2. b.checksum \in {{}} \cup {{p} : p \in Payload}
  <2>1. /\ old.checksum \in {{}} \cup {{p} : p \in Payload}
        /\ new.checksum \in {{}} \cup {{p} : p \in Payload}
    BY DEF Page
  <2>2. old.checksum \cap new.checksum \in {{}} \cup {{p} : p \in Payload}
    BY <2>1
  <2> QED BY <1>1, <2>1, <2>2
<1>3. b.config \in Thresholds
  <2>1. old.config \in Thresholds /\ new.config \in Thresholds
    BY DEF Page
  <2>2. b.config = [k \in Key |-> IF k \in done THEN new.config[k] ELSE old.config[k]]
    BY DEF torn
  <2> QED BY <2>1, <2>2 DEF Thresholds
<1>4. /\ b.magic \in BOOLEAN /\ b.version \in {MIGRATION_VERSION, MIGRATION_VERSION + 1}
      /\ b.dirty \in BOOLEAN /\ b.timestamp \in Stamp
  BY DEF Page, torn
<1>5. b = [magic |-> b.magic, version |-> b.version, dirty |-> b.dirty, config |-> b.config,
           timestamp |-> b.timestamp, checksum |-> b.checksum]
  BY DEF torn
<1> HIDE DEF b
<1>6. b \in Page
  BY <1>2, <1>3, <1>4, <1>5 DEF Page
<1> QED BY <1>1, <1>6 DEF b

(* A page that migration::run accepts holds a set the operator confirmed.  *)
LEMMA AcceptedIsConfirmed ==
  ASSUME NEW b \in Page, Genuine(b), decide(b) \in {"Apply", "NoChange"}
  PROVE  /\ Confirmed(b.config) /\ b.checksum = {payload(b)} /\ b.magic /\ b.version = MIGRATION_VERSION
         /\ payload(b) \in Payload /\ payload(b).config = b.config /\ payload(b).dirty = b.dirty
         /\ b.dirty <=> decide(b) = "Apply"
<1>1. b.checksum = {payload(b)} /\ b.version = MIGRATION_VERSION /\ b.magic /\ (b.dirty <=> decide(b) = "Apply")
  BY DEF decide
<1>2. payload(b) \in Payload
  BY DEF Page, Payload, payload
<1>3. payload(b).config = b.config /\ payload(b).dirty = b.dirty /\ payload(b).version = b.version
  BY DEF payload
<1> QED BY <1>1, <1>2, <1>3 DEF Genuine

(* The cleared page is a page with nothing left to apply.                  *)
LEMMA ClearedPage ==
  ASSUME NEW b \in Page, Genuine(b), decide(b) = "Apply"
  PROVE  cleared(b) \in Page /\ Genuine(cleared(b)) /\ decide(cleared(b)) = "NoChange"
<1> DEFINE p == [b EXCEPT !.dirty = FALSE]
           c == seal(p)
<1>1. Confirmed(b.config) /\ b.magic /\ b.version = MIGRATION_VERSION
  BY AcceptedIsConfirmed
<1>2. b.magic \in BOOLEAN /\ b.config \in Thresholds /\ b.timestamp \in Stamp
  BY DEF Page
<1>3. p.magic = TRUE /\ p.version = MIGRATION_VERSION /\ p.dirty = FALSE /\ p.config = b.config /\ p.timestamp = b.timestamp
  BY <1>1, <1>2 DEF Page
<1> HIDE DEF p
<1>4. Sealable(p)
  BY <1>2, <1>3 DEF Sealable
<1>5. /\ c \in Page /\ c.magic = TRUE /\ c.version = MIGRATION_VERSION /\ c.dirty = FALSE
      /\ c.checksum = {payload(c)} /\ payload(c).config = b.config
  BY <1>3, <1>4, SealedPage
<1> HIDE DEF c
<1>6. Genuine(c)
  BY <1>1, <1>5 DEF Genuine
<1>7. decide(c) = "NoChange"
  BY <1>5 DEF decide
<1> QED BY <1>5, <1>6, <1>7 DEF cleared, c, p

(* The invariant holds at power-on.                                         *)
LEMMA InitIInv == Init => IInv
<1> SUFFICES ASSUME Init PROVE IInv
  OBVIOUS
<1>1. default_config \in Thresholds /\ 0 \in Stamp /\ 1 \in Stamp
  BY DEF default_config, Thresholds, Key, Level, Stamp
<1>2. ColdPage \in Page /\ Genuine(ColdPage)
  BY <1>1 DEF ColdPage, Page, Genuine
<1>3. ForeignPage \in Page /\ Genuine(ForeignPage)
  <2> DEFINE p == [magic |-> TRUE, version |-> MIGRATION_VERSION + 1, dirty |-> TRUE,
                   config |-> default_config, timestamp |-> 1]
  <2>1. p.magic = TRUE /\ p.version = MIGRATION_VERSION + 1 /\ p.dirty = TRUE /\ p.config = default_config /\ p.timestamp = 1
    OBVIOUS
  <2>2. ForeignPage = seal(p)
    BY DEF ForeignPage
  <2> HIDE DEF p
  <2>3. ForeignPage \in Page /\ ForeignPage.checksum = {payload(ForeignPage)}
          /\ payload(ForeignPage).version = MIGRATION_VERSION + 1
    <3>1. Sealable(p)
      BY <1>1, <2>1 DEF Sealable
    <3> QED BY <2>1, <2>2, <3>1, SealedPage
  <2>4. MIGRATION_VERSION + 1 # MIGRATION_VERSION
    BY DEF MIGRATION_VERSION
  <2> QED BY <2>3, <2>4 DEF Genuine
<1>4. Typed
  BY <1>1, <1>2, <1>3 DEF Init, Typed, Phase
<1> QED BY <1>2, <1>3, <1>4 DEF Init, IInv, Session, Before, During, After
-----------------------------------------------------------------------------
(* The steps.  A reset or a power cycle, at any point.                     *)
LEMMA PowerStep == IInv /\ (Reset \/ PowerCycle) => IInv'
<1> SUFFICES ASSUME IInv, Reset \/ PowerCycle PROVE IInv'
  OBVIOUS
<1>1. default_config \in Thresholds /\ 0 \in Stamp /\ 1 \in Stamp
  BY DEF default_config, Thresholds, Key, Level, Stamp
<1>2. ColdPage \in Page /\ ColdPage.checksum = {}
  BY <1>1 DEF ColdPage, Page
<1>3. /\ phase' = "off" /\ storing' = page' /\ confirmed' = confirmed
      /\ monotonic' = 1 /\ monitor' = default_config /\ audit' = <<>>
      /\ original' = default_config /\ working' = default_config
      /\ pending' = "None" /\ committed' = FALSE
  BY DEF Reset, PowerCycle, Statics
<1>4. page' \in Page /\ page'.checksum \subseteq page.checksum \cup storing.checksum
  <2>1. page \in Page /\ storing \in Page
    BY DEF IInv, Typed
  <2>2. CASE page' = ColdPage
    BY <1>2, <2>2
  <2>3. CASE page' = page
    BY <2>1, <2>3
  <2>4. ASSUME NEW done \in SUBSET Word, page' = torn(page, storing, done)
        PROVE  page' \in Page /\ page'.checksum \subseteq page.checksum \cup storing.checksum
    BY <2>1, <2>4, TornPage
  <2> QED BY <2>2, <2>3, <2>4 DEF Reset, PowerCycle
<1>5. Genuine(page)' /\ Genuine(storing)'
  BY <1>3, <1>4 DEF IInv, Genuine, Confirmed
<1>6. Typed'
  BY <1>1, <1>3, <1>4 DEF IInv, Typed, Phase
<1> QED BY <1>3, <1>5, <1>6 DEF IInv, Session, Before, During, After

(* A boot starts, of Safe Mode or of the main OS, or halts early.          *)
LEMMA StartStep == IInv /\ (StartSafeMode \/ StartMain \/ memory_init_fails) => IInv'
<1> SUFFICES ASSUME IInv, StartSafeMode \/ StartMain \/ memory_init_fails PROVE IInv'
  OBVIOUS
<1>1. /\ UNCHANGED <<page, storing, pending, committed, monotonic, monitor, audit, confirmed>>
      /\ phase' \in {"console", "booting", "halted"} /\ phase \in {"off", "booting"}
      /\ pending = "None" /\ monitor = default_config /\ audit = <<>>
  BY DEF IInv, Typed, Session, Before, StartSafeMode, StartMain, memory_init_fails, session
<1>2. original' \in Thresholds /\ working' \in Thresholds
  BY DEF IInv, Typed, StartSafeMode, StartMain, memory_init_fails, session
<1>3. Typed'
  BY <1>1, <1>2 DEF IInv, Typed, Phase
<1>4. Genuine(page)' /\ Genuine(storing)'
  BY <1>1 DEF IInv, Genuine, Confirmed
<1>5. Session' /\ Before' /\ During' /\ After'
  BY <1>1 DEF Session, Before, During, After, AtMostOne
<1> QED BY <1>3, <1>4, <1>5 DEF IInv

(* A line typed at the console, a confirmed save apart.                    *)
LEMMA LineStep ==
  ASSUME IInv, Line, working' \in Thresholds, pending' \in {"None", "SaveConfirm", "ExitConfirm"},
         phase' \in {"console", "exited"}, pending' # "None" => phase' = "console",
         pending' = "SaveConfirm" => thresholds_differ(working', original),
         UNCHANGED <<storing, original, committed, confirmed>>
  PROVE  IInv'
<1>1. /\ UNCHANGED <<page, monitor, audit>> /\ phase = "console" /\ monotonic' \in Stamp
      /\ monitor = default_config /\ audit = <<>>
  BY DEF IInv, Typed, Before, Line, monotonic_now, Stamp
<1>2. Typed'
  BY <1>1 DEF IInv, Typed, Phase
<1>3. Genuine(page)' /\ Genuine(storing)'
  BY <1>1 DEF IInv, Genuine, Confirmed
<1>4. Session' /\ Before' /\ During' /\ After'
  BY <1>1 DEF Session, Before, During, After, is_dirty
<1> QED BY <1>2, <1>3, <1>4 DEF IInv

(* Lines of the console that store nothing.                                 *)
LEMMA ConsoleStep == IInv /\ (cmd_set \/ cmd_save \/ other_line \/ cmd_exit \/ resolve_exit_confirm) => IInv'
<1> SUFFICES ASSUME IInv, cmd_set \/ cmd_save \/ other_line \/ cmd_exit \/ resolve_exit_confirm PROVE IInv'
  OBVIOUS
<1>1. Line /\ phase = "console" /\ UNCHANGED <<storing, original, committed, confirmed>>
  BY DEF Line, cmd_set, cmd_save, other_line, cmd_exit, resolve_exit_confirm, session
<1>2. working' \in Thresholds
  <2>1. working \in Thresholds
    BY DEF IInv, Typed
  <2>2. ASSUME NEW k \in Key, NEW v PROVE apply_set(working, k, v) \in Thresholds
    BY <2>1 DEF apply_set, Thresholds
  <2> QED BY <2>1, <2>2 DEF cmd_set, cmd_save, other_line, cmd_exit, resolve_exit_confirm, session
<1>3. /\ pending' \in {"None", "SaveConfirm", "ExitConfirm"} /\ phase' \in {"console", "exited"}
      /\ pending' # "None" => phase' = "console"
      /\ pending' = "SaveConfirm" => thresholds_differ(working', original)
  BY <1>1 DEF IInv, Typed, cmd_set, cmd_save, other_line, cmd_exit, resolve_exit_confirm, session, is_dirty
<1> QED BY <1>1, <1>2, <1>3, LineStep

(* The confirmation of a save.                                              *)
LEMMA ConfirmStep == IInv /\ resolve_save_confirm => IInv'
<1> SUFFICES ASSUME IInv, resolve_save_confirm PROVE IInv'
  OBVIOUS
<1>1. Line /\ working' = working /\ pending' = "None" /\ working \in Thresholds /\ phase = "console" /\ is_dirty
  BY DEF IInv, Typed, Session, resolve_save_confirm, Line
<1>2. CASE UNCHANGED <<phase, storing, original, committed, confirmed>>
  BY <1>1, <1>2, LineStep
<1>3. CASE /\ validate_config(working)
           /\ storing' = sealed_from_thresholds(working, is_dirty, monotonic)
           /\ original' = working /\ committed' = TRUE /\ phase' = "saving"
           /\ confirmed' = confirmed \cup {working}
  <2>1. /\ UNCHANGED <<page, monitor, audit>> /\ monotonic' \in Stamp /\ monotonic \in Stamp
        /\ monitor = default_config /\ audit = <<>>
    BY <1>1 DEF IInv, Typed, Before, Line, monotonic_now, Stamp
  <2> DEFINE p == [magic |-> TRUE, version |-> MIGRATION_VERSION, dirty |-> is_dirty,
                   config |-> working, timestamp |-> monotonic]
  <2>2. /\ p.magic = TRUE /\ p.version = MIGRATION_VERSION /\ p.dirty = is_dirty /\ p.config = working
        /\ p.timestamp = monotonic /\ storing' = seal(p)
    BY <1>3 DEF sealed_from_thresholds
  <2> HIDE DEF p
  <2>3. p.dirty = TRUE
    BY <1>1, <2>2 DEF is_dirty, thresholds_differ
  <2>4. Sealable(p)
    BY <1>1, <2>1, <2>2, <2>3 DEF Sealable
  <2>5. /\ storing' \in Page /\ storing'.magic = TRUE /\ storing'.version = MIGRATION_VERSION
        /\ storing'.dirty = TRUE /\ storing'.config = working
        /\ storing'.checksum = {payload(storing')} /\ payload(storing').config = working
    BY <2>2, <2>3, <2>4, SealedPage
  <2>6. Genuine(storing)' /\ Genuine(page)'
    BY <1>1, <1>3, <2>1, <2>5 DEF IInv, Genuine, Confirmed
  <2>7. Typed'
    BY <1>1, <1>3, <2>1, <2>5 DEF IInv, Typed, Phase
  <2>8. Session'
    BY <1>1, <1>3, <2>5 DEF Session, decide
  <2>9. Before' /\ During' /\ After'
    BY <1>3, <2>1 DEF Before, During, After
  <2> QED BY <2>6, <2>7, <2>8, <2>9 DEF IInv
<1> QED BY <1>2, <1>3 DEF resolve_save_confirm

(* A save whose stores all reached the page.                                *)
LEMMA SaveStoredStep == IInv /\ SaveStored => IInv'
<1> SUFFICES ASSUME IInv, SaveStored PROVE IInv'
  OBVIOUS
<1>1. /\ page' = storing /\ phase = "saving" /\ phase' = "console"
      /\ UNCHANGED <<storing, original, working, pending, committed, monotonic, monitor, audit, confirmed>>
  BY DEF SaveStored, session
<1>2. Typed'
  BY <1>1 DEF IInv, Typed, Phase
<1>3. Genuine(page)' /\ Genuine(storing)'
  BY <1>1 DEF IInv, Genuine, Confirmed
<1>4. Session' /\ Before' /\ During' /\ After'
  BY <1>1 DEF IInv, Session, Before, During, After
<1> QED BY <1>2, <1>3, <1>4 DEF IInv

(* migration::run: it classifies the page and, if it applies it, sets the  *)
(* thresholds; reads them back and audits; and clears the page.            *)
LEMMA RunStep == IInv /\ run => IInv'
<1> SUFFICES ASSUME IInv, run PROVE IInv'
  OBVIOUS
<1>1. /\ phase = "booting" /\ UNCHANGED <<page, original, working, pending, committed, monotonic, confirmed>>
      /\ monitor = default_config /\ audit = <<>> /\ page \in Page /\ Genuine(page)
      /\ pending = "None" /\ default_config \in Thresholds
  BY DEF IInv, Typed, Session, Before, run, session
<1>2. CASE decide(page) = "Apply"
  <2>1. phase' = "applied" /\ monitor' = page.config /\ audit' = audit /\ storing' = cleared(page)
    BY <1>2 DEF run, set_thresholds, Rejects
  <2>2. cleared(page) \in Page /\ Genuine(cleared(page)) /\ page.config \in Thresholds
    BY <1>1, <1>2, ClearedPage DEF Page
  <2>3. Typed'
    BY <1>1, <2>1, <2>2 DEF IInv, Typed, Phase
  <2>4. Genuine(page)' /\ Genuine(storing)'
    BY <1>1, <2>1, <2>2 DEF Genuine, Confirmed
  <2>5. Session' /\ Before' /\ After'
    BY <1>1, <2>1 DEF Session, Before, After
  <2>6. During'
    BY <1>1, <1>2, <2>1 DEF During, cleared
  <2> QED BY <2>3, <2>4, <2>5, <2>6 DEF IInv
<1>3. CASE decide(page) # "Apply"
  <2>1. /\ storing' = storing /\ monitor' = monitor
        /\ \/ phase' = "migrated" /\ decide(page) \in {"NoBuffer", "NoChange"}
           \/ phase' = "halted"
        /\ audit' = audit \/ \E e : audit' = <<e>>
    <3>1. \A e : Append(<<>>, e) = <<e>>
      OBVIOUS
    <3>2. decide(page) \in {"NoBuffer", "NoChange", "version", "checksum"}
      BY <1>3 DEF decide
    <3> QED BY <1>1, <1>3, <3>1, <3>2 DEF run, record, Rejects
  <2>2. AtMostOne(audit')
    BY <1>1, <2>1 DEF AtMostOne
  <2>3. Typed'
    BY <1>1, <2>1 DEF IInv, Typed, Phase
  <2>4. Genuine(page)' /\ Genuine(storing)'
    BY <1>1, <2>1 DEF IInv, Genuine, Confirmed
  <2>5. Session' /\ Before' /\ During' /\ After'
    BY <1>1, <2>1, <2>2 DEF Session, Before, During, After, AtMostOne
  <2> QED BY <2>3, <2>4, <2>5 DEF IInv
<1> QED BY <1>2, <1>3

(* migration::run records what it has applied.                              *)
LEMMA RunAuditStep == IInv /\ run_audit => IInv'
<1> SUFFICES ASSUME IInv, run_audit PROVE IInv'
  OBVIOUS
<1>1. /\ phase = "applied" /\ monitor = page.config /\ audit = <<>>
      /\ decide(page) = "Apply" /\ storing = cleared(page)
      /\ UNCHANGED <<page, storing, original, working, pending, committed, monotonic, monitor, confirmed>>
  BY DEF IInv, During, run_audit, session
<1>2. phase' = "clearing" /\ audit' = <<<<"apply", page.checksum>>>>
  <2>1. \A e : Append(<<>>, e) = <<e>>
    OBVIOUS
  <2> QED BY <1>1, <2>1 DEF run_audit, record, thresholds_differ
<1>3. Typed'
  BY <1>1, <1>2 DEF IInv, Typed, Phase
<1>4. Genuine(page)' /\ Genuine(storing)'
  BY <1>1 DEF IInv, Genuine, Confirmed
<1>5. Session' /\ Before' /\ After'
  BY <1>1, <1>2 DEF IInv, Session, Before, After
<1>6. During'
  BY <1>1, <1>2 DEF During, cleared
<1> QED BY <1>3, <1>4, <1>5, <1>6 DEF IInv

(* migration::run clears the page it has recorded.                          *)
LEMMA RunClearStep == IInv /\ run_clear => IInv'
<1> SUFFICES ASSUME IInv, run_clear PROVE IInv'
  OBVIOUS
<1>1. /\ phase = "clearing" /\ phase' = "migrated" /\ page' = storing /\ storing = cleared(page)
      /\ decide(page) = "Apply" /\ monitor = page.config /\ audit = <<<<"apply", page.checksum>>>>
      /\ UNCHANGED <<storing, original, working, pending, committed, monotonic, monitor, audit, confirmed>>
      /\ page \in Page /\ Genuine(page)
  BY DEF IInv, Typed, During, run_clear, session
<1>2. decide(page') = "NoChange"
  BY <1>1, ClearedPage
<1>3. /\ Confirmed(monitor) /\ page.checksum = {payload(page)} /\ payload(page) \in Payload
      /\ payload(page).config = monitor /\ payload(page).dirty
  BY <1>1, AcceptedIsConfirmed
<1>4. Typed'
  BY <1>1 DEF IInv, Typed, Phase
<1>5. Genuine(page)' /\ Genuine(storing)'
  BY <1>1 DEF IInv, Genuine, Confirmed
<1>6. Session' /\ Before' /\ During'
  BY <1>1 DEF IInv, Session, Before, During
<1>7. After'
  BY <1>1, <1>2, <1>3 DEF After, Confirmed
<1> QED BY <1>4, <1>5, <1>6, <1>7 DEF IInv

(* The rest of boot.                                                        *)
LEMMA InitRestStep == IInv /\ init_rest => IInv'
<1> SUFFICES ASSUME IInv, init_rest PROVE IInv'
  OBVIOUS
<1>1. /\ phase = "migrated" /\ phase' \in {"running", "halted"}
      /\ UNCHANGED <<page, storing, original, working, pending, committed, monotonic, monitor, audit, confirmed>>
  BY DEF init_rest, session
<1>2. Typed'
  BY <1>1 DEF IInv, Typed, Phase
<1>3. Genuine(page)' /\ Genuine(storing)'
  BY <1>1 DEF IInv, Genuine, Confirmed
<1>4. Session' /\ Before' /\ During'
  BY <1>1 DEF IInv, Session, Before, During
<1>5. After'
  BY <1>1 DEF IInv, After, Confirmed, AtMostOne
<1> QED BY <1>2, <1>3, <1>4, <1>5 DEF IInv

(* Every step keeps the invariant.                                          *)
LEMMA NextIInv == IInv /\ [Next]_vars => IInv'
<1>1. IInv /\ UNCHANGED vars => IInv'
  BY DEF vars, session, IInv, Typed, Genuine, Confirmed, Session, Before, During, After, AtMostOne,
         is_dirty, cleared
<1> QED BY <1>1, PowerStep, StartStep, ConsoleStep, ConfirmStep, SaveStoredStep, RunStep, RunAuditStep,
           RunClearStep, InitRestStep DEF Next, BootStep
-----------------------------------------------------------------------------
(***************************************************************************)
(* However often the machine is reset, and wherever in the store of the    *)
(* page, the main OS runs under the compiled-in thresholds or under one    *)
(* whole set the operator confirmed, and gets past migration::run only     *)
(* with a page that has nothing to apply or to reject.                     *)
(***************************************************************************)
THEOREM NoPartialApply == Spec => []OnlyConfirmedConfigsRun
<1>1. IInv => OnlyConfirmedConfigsRun
  BY DEF IInv, After, Confirmed, OnlyConfirmedConfigsRun
<1> QED BY <1>1, InitIInv, NextIInv, PTL DEF Spec

(***************************************************************************)
(* Whatever set is in force after migration::run and is not the default,   *)
(* this boot's audit trail has an apply entry with that set's digest.      *)
(***************************************************************************)
THEOREM ApplyIsAudited == Spec => []AppliedIsAudited
<1>1. IInv => AppliedIsAudited
  <2> SUFFICES ASSUME IInv, phase \in {"migrated", "running"}, monitor # default_config
               PROVE  \E i \in DOMAIN audit :
                        audit[i][1] = "apply" /\ \A p \in audit[i][2] : p.config = monitor /\ p.dirty
    BY DEF AppliedIsAudited
  <2>1. PICK p \in Payload : audit = <<<<"apply", {p}>>>> /\ p.config = monitor /\ p.dirty
    BY DEF IInv, After
  <2>2. 1 \in DOMAIN audit /\ audit[1][1] = "apply" /\ audit[1][2] = {p}
    BY <2>1
  <2> QED BY <2>1, <2>2
<1> QED BY <1>1, InitIInv, NextIInv, PTL DEF Spec

(***************************************************************************)
(* A staged change leaves the page only by being applied and audited, by a *)
(* later save, or with the machine's memory.                               *)
(***************************************************************************)
THEOREM StagedChangeIsKept == Spec => StagedChangeKept
<1> DEFINE A == decide(page) = "Apply" /\ page' # page =>
                  \/ phase = "saving"
                  \/ page' = ColdPage
                  \/ monitor = page.config /\ audit # <<>> /\ audit[1][1] = "apply"
<1>1. ASSUME IInv, Next PROVE A
  <2>1. CASE phase = "saving" \/ page' = page \/ page' = ColdPage
    BY <2>1
  <2>2. CASE phase = "clearing"
    <3>1. monitor = page.config /\ audit = <<<<"apply", page.checksum>>>>
      BY <1>1, <2>2 DEF IInv, During
    <3>2. audit # <<>> /\ audit[1][1] = "apply"
      BY <3>1
    <3> QED BY <3>1, <3>2
  <2>3. phase \in {"saving", "clearing"} \/ page' = page \/ page' = ColdPage
    BY <1>1 DEF Next, BootStep, StartSafeMode, StartMain, Reset, PowerCycle, Line, cmd_set, cmd_save,
       other_line, resolve_save_confirm, SaveStored, cmd_exit, resolve_exit_confirm,
       memory_init_fails, run, run_audit, run_clear, init_rest
  <2> QED BY <2>1, <2>2, <2>3
<1>2. IInv /\ [Next]_vars => [A]_vars
  BY <1>1
<1> QED BY <1>2, InitIInv, NextIInv, PTL DEF Spec, StagedChangeKept

(***************************************************************************)
(* A save that was stored whole is what the next boot will apply, whatever *)
(* the page held before.                                                   *)
(***************************************************************************)
THEOREM StoredSaveIsAccepted == Spec => SaveIsAccepted
<1> DEFINE A == phase = "saving" /\ phase' = "console" => decide(page') = "Apply" /\ page'.config = original
<1>1. ASSUME IInv, Next, phase = "saving", phase' = "console" PROVE A
  <2>1. page' = storing
    BY <1>1 DEF Next, BootStep, StartSafeMode, StartMain, Reset, PowerCycle, Line, cmd_set, cmd_save,
       other_line, resolve_save_confirm, SaveStored, cmd_exit, resolve_exit_confirm,
       memory_init_fails, run, run_audit, run_clear, init_rest
  <2> QED BY <1>1, <2>1 DEF IInv, Session
<1>2. IInv /\ [Next]_vars => [A]_vars
  BY <1>1
<1> QED BY <1>2, InitIInv, NextIInv, PTL DEF Spec, SaveIsAccepted
=============================================================================
