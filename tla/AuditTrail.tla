----------------------------- MODULE AuditTrail -----------------------------
(***************************************************************************)
(* The kernel audit log of sentinel/audit.rs: an append-only sequence of   *)
(* entries, each hashed together with its predecessor's hash, and the gate *)
(* of sentinel/invisible.rs, the one caller that appends on behalf of a    *)
(* task.  AuditInner is behind a SpinLock, so record, verify and snapshot  *)
(* are single steps.                                                       *)
(*                                                                         *)
(* A string is the sequence of its pieces between '|': an agent id may     *)
(* contain one, since the handshake does not forbid it.  SHA-256 is taken  *)
(* as injective: a digest is the text it was taken of, tagged.             *)
(***************************************************************************)
EXTENDS Naturals, Sequences, FiniteSets

CONSTANTS MaxEntries,   \* bound on the length of the chain
          Stamp,        \* timestamps callers pass
          Actor,        \* agent ids callers pass, as actor or target
          MaxAltered,   \* bound on the entries that are altered
          SAFE_MODE_ACTIVE   \* the build: gkern-safemode or gkern

ASSUME MaxEntriesAssumption == MaxEntries \in Nat
ASSUME BuildAssumption == SAFE_MODE_ACTIVE \in BOOLEAN

VARIABLES
    entries, last_hash, sequence,   \* AuditInner
    recorded,                       \* history: the entries as record wrote them
    denied                          \* history: Agent calls the gate denied

vars == <<entries, last_hash, sequence, recorded, denied>>

NoHash == <<>>
Zeros == <<"0">>
sha256_hex(payload) == <<"sha256", payload>>

\* The fields joined with '|'.  Numbers and digests have none, so the text
\* tells where they end; the three strings between them run together.
payload(e) == <<e.sequence, e.timestamp, e.actor \o e.action \o e.target, e.prev_hash>>

IsSeq(s) == s \in Seq({s[i] : i \in DOMAIN s})

\* A hash, and so every prev_hash, is 64 hex digits: never the empty string.
TypeOK ==
    /\ IsSeq(entries) /\ Len(entries) <= MaxEntries
    /\ \A i \in DOMAIN entries : NoHash \notin {entries[i].hash, entries[i].prev_hash}
    /\ sequence \in Nat
    /\ IsSeq(recorded) /\ Len(recorded) = Len(entries)
    /\ IsSeq(denied)

Init ==
    /\ entries = <<>>
    /\ last_hash = NoHash
    /\ sequence = 0
    /\ recorded = <<>>
    /\ denied = <<>>

-----------------------------------------------------------------------------
(* record: the entry is chained to the last hash handed out, not to what is *)
(* stored in the log.                                                       *)

prev == IF last_hash = NoHash THEN Zeros ELSE last_hash

entry(timestamp, actor, action, target) ==
    LET e == [sequence |-> sequence + 1, timestamp |-> timestamp, actor |-> actor,
              action |-> action, target |-> target, prev_hash |-> prev, hash |-> NoHash]
    IN  [e EXCEPT !.hash = sha256_hex(payload(e))]

\* Bug: last_hash is not advanced.
record_unchained(timestamp, actor, action, target) ==
    /\ sequence' = sequence + 1
    /\ entries' = Append(entries, entry(timestamp, actor, action, target))
    /\ recorded' = Append(recorded, entry(timestamp, actor, action, target))
    /\ UNCHANGED last_hash

record(timestamp, actor, action, target) ==
    /\ sequence' = sequence + 1
    /\ entries' = Append(entries, entry(timestamp, actor, action, target))
    /\ recorded' = Append(recorded, entry(timestamp, actor, action, target))
    /\ last_hash' = entries'[Len(entries')].hash

\* The migration and handshake paths: they record whatever they did.
RecordKernel ==
    /\ Len(entries) < MaxEntries
    /\ \E t \in Stamp, target \in Actor : record(t, <<"kernel">>, <<"handshake">>, target)
    /\ UNCHANGED denied

-----------------------------------------------------------------------------
(* verify *)

linked(i) == entries[i].prev_hash = IF i = 1 THEN Zeros ELSE entries[i - 1].hash

\* Bug: only the links are compared; the digests are not recomputed.
sound_links(i) == linked(i)

sound(i) == linked(i) /\ entries[i].hash = sha256_hex(payload(entries[i]))

Broken == {i \in DOMAIN entries : ~sound(i)}

Ok(n) == [ok |-> TRUE, verified |-> n]
Err(n) == [ok |-> FALSE, sequence |-> n]

First(S) == CHOOSE i \in S : \A j \in S : i <= j

\* The number of entries, or the sequence number stored in the first entry that
\* is not sound.
verify == IF Broken = {} THEN Ok(Len(entries)) ELSE Err(entries[First(Broken)].sequence)

-----------------------------------------------------------------------------
(* gate *)

CallerContext == {"Agent", "Operator", "SafeMode", "Kernel"}
Operation == {"Handshake", "Monitor", "ReadStatus", "ReadAudit", "Configure", "VerifyAudit"}

is_authorized(ctx, op) ==
    CASE op = "Handshake"   -> ctx # "SafeMode"
      [] op = "Monitor"     -> ctx = "Kernel"
      [] op = "ReadStatus"  -> ctx # "Agent"
      [] op \in {"ReadAudit", "Configure"} -> ctx = "SafeMode" /\ SAFE_MODE_ACTIVE
      [] op = "VerifyAudit" -> ctx \in {"Kernel", "SafeMode"}

\* Bug: every denial is recorded, not only an Agent's.
probe_any(ctx) == TRUE

probe(ctx) == ctx = "Agent"

\* A call from outside the kernel: the gate is given the audit trail.  Its
\* answer is 0, ENOSYS to an Agent, EPERM to anyone else.
gate(ctx, op, actor, timestamp) ==
    IF is_authorized(ctx, op) \/ ~probe(ctx)
    THEN UNCHANGED <<entries, last_hash, sequence, recorded>>
    ELSE record(timestamp, actor, <<"invisible_probe">>, <<op>>)

GateCall ==
    /\ Len(entries) < MaxEntries
    /\ Len(denied) < MaxEntries
    /\ \E ctx \in CallerContext, op \in Operation, actor \in Actor, t \in Stamp :
         /\ gate(ctx, op, actor, t)
         /\ denied' = IF ctx = "Agent" /\ ~is_authorized(ctx, op)
                      THEN Append(denied, <<t, actor, <<op>>>>) ELSE denied

-----------------------------------------------------------------------------
\* A stored entry is altered in memory, past the API, which has no mutator
\* but record: one field gets another value, or a '|' inside the actor becomes
\* the one that ends it.  An alteration does not come with a new digest.
Alterations(e) ==
    {[e EXCEPT !.sequence = n] : n \in 0 .. MaxEntries}
      \cup {[e EXCEPT !.timestamp = t] : t \in Stamp \cup {0}}
      \cup {[e EXCEPT ![f] = <<"altered">>] : f \in {"actor", "action", "target", "prev_hash", "hash"}}
      \cup {[e EXCEPT !.actor = SubSeq(@, 1, k), !.action = SubSeq(e.actor, k + 1, Len(e.actor)) \o @]
               : k \in 1 .. Len(e.actor) - 1}

Corrupt ==
    /\ Cardinality({i \in DOMAIN entries : entries[i] # recorded[i]}) < MaxAltered
    /\ \E i \in DOMAIN entries :
         /\ entries[i] = recorded[i]
         /\ \E e \in Alterations(entries[i]) : entries' = [entries EXCEPT ![i] = e]
    /\ UNCHANGED <<last_hash, sequence, recorded, denied>>

Next == RecordKernel \/ GateCall \/ Corrupt
Spec == Init /\ [][Next]_vars

-----------------------------------------------------------------------------
\* The entries of which the text under the digest, or the digest, is not what
\* record wrote.
Altered ==
    {i \in DOMAIN entries : payload(entries[i]) # payload(recorded[i]) \/ entries[i].hash # recorded[i].hash}

\* verify returns Ok exactly when no entry was altered, and otherwise an Err
\* with the number stored in the first altered one, also when the log went on
\* growing after the alteration; that number is the position unless it was
\* itself altered.  Without alteration last_hash is the hash of the last entry.
\* The text is all verify sees: an entry in which a '|' of an agent id is taken
\* for the one between two fields is not altered.
VerifyFindsFirstAltered ==
    /\ verify = IF Altered = {} THEN Ok(Len(entries)) ELSE Err(entries[First(Altered)].sequence)
    /\ sequence = Len(entries)
    /\ \A i \in DOMAIN entries : recorded[i].sequence = i
    /\ Altered = {} => prev = IF entries = <<>> THEN Zeros ELSE entries[Len(entries)].hash

\* Every denied Agent call, and no other call, left exactly one probe entry,
\* in the order of the calls: there are as many probes as denied calls, and
\* the k-th of them is about the k-th call.
ProbesLogged ==
    entries = recorded =>
        LET Probe == {i \in DOMAIN entries : entries[i].action = <<"invisible_probe">>}
            Rank(i) == Cardinality({j \in Probe : j <= i})
        IN  /\ Len(denied) = Cardinality(Probe)
            /\ \A i \in Probe :
                 denied[Rank(i)] = <<entries[i].timestamp, entries[i].actor, entries[i].target>>
=============================================================================
