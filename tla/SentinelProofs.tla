--------------------------- MODULE SentinelProofs ---------------------------
(***************************************************************************)
(* The Sentinel's tables for every set of agents, actors and thresholds    *)
(* and for chains of any length: verify finds the first altered entry, the *)
(* denied calls are in the trail, no call resets the record of a           *)
(* registered agent, and the monitor responds to nothing without a cause.  *)
(***************************************************************************)
EXTENDS MCSentinel, TLAPS, FiniteSetTheorems, WellFoundedInduction, NaturalsInduction

(***************************************************************************)
(* The audit trail.  What record wrote is a chain of digests, with         *)
(* last_hash its end, and nothing changes it afterwards.  A stored entry   *)
(* has its own digest and perhaps another text, or its own text and no     *)
(* digest.                                                                 *)
(***************************************************************************)
Digested(e) == e.hash = sha256_hex(payload(e))

Entry(e) ==
  e = [sequence |-> e.sequence, timestamp |-> e.timestamp, actor |-> e.actor, action |-> e.action,
       target |-> e.target, prev_hash |-> e.prev_hash, hash |-> e.hash]

Written(i) ==
  /\ Entry(recorded[i]) /\ Digested(recorded[i]) /\ recorded[i].sequence = i
  /\ recorded[i].prev_hash = IF i = 1 THEN Zeros ELSE recorded[i - 1].hash

Stored(i) ==
  \/ entries[i].hash = recorded[i].hash
  \/ payload(entries[i]) = payload(recorded[i]) /\ entries[i].hash = <<"altered">>

Chained ==
  /\ IsSeq(entries) /\ IsSeq(recorded) /\ Len(recorded) = Len(entries) /\ sequence = Len(entries)
  /\ \A i \in DOMAIN entries : Written(i) /\ Stored(i)
  /\ last_hash = IF entries = <<>> THEN NoHash ELSE recorded[Len(entries)].hash

USE MaxEntriesAssumption, BuildAssumption
-----------------------------------------------------------------------------
(* A nonempty set of natural numbers has a least element.                  *)
LEMMA LeastNat ==
  ASSUME NEW T \in SUBSET Nat, T # {}
  PROVE  \E n \in T : \A m \in T : n <= m
<1>1. PICK n \in T : \A m \in T : ~(<<m, n>> \in OpToRel(<, Nat))
  BY WFMin, NatLessThanWellFounded, Zenon
<1>2. \A m \in T : ~(m < n)
  <2> TAKE m \in T
  <2>1. m \in Nat /\ n \in Nat
    OBVIOUS
  <2>2. m < n => <<m, n>> \in OpToRel(<, Nat)
    BY <2>1, Zenon DEF OpToRel
  <2> QED BY <1>1, <2>2
<1> QED BY <1>2

(* A set of naturals with zero and the successor of each of its members    *)
(* has them all.                                                           *)
LEMMA NatClosed ==
  ASSUME NEW S, 0 \in S, \A n \in Nat : n \in S => n + 1 \in S
  PROVE  Nat \subseteq S
<1> DEFINE T == {n \in Nat : n \notin S}
<1> SUFFICES ASSUME T # {} PROVE FALSE
  OBVIOUS
<1>1. PICK n \in T : \A m \in T : n <= m
  BY LeastNat
<1>2. n # 0 /\ n - 1 \in Nat
  OBVIOUS
<1>3. n - 1 \in S
  BY <1>1, <1>2
<1> QED BY <1>2, <1>3

(* What record appends: the next number, the last digest handed out, and   *)
(* the digest of all of it.                                                *)
LEMMA NewEntry ==
  ASSUME NEW t, NEW a, NEW act, NEW target, NEW e, e = entry(t, a, act, target)
  PROVE  /\ Entry(e) /\ Digested(e)
         /\ e.sequence = sequence + 1 /\ e.timestamp = t /\ e.actor = a /\ e.action = act /\ e.target = target
         /\ e.prev_hash = prev
<1> DEFINE joined == a \o act \o target
<1>1. e = [sequence |-> sequence + 1, timestamp |-> t, actor |-> a, action |-> act, target |-> target,
           prev_hash |-> prev, hash |-> sha256_hex(<<sequence + 1, t, joined, prev>>)]
  BY DEF entry, payload
<1>2. payload(e) = <<e.sequence, e.timestamp, joined, e.prev_hash>>
  BY <1>1 DEF payload
<1> HIDE DEF joined
<1>3. /\ e.sequence = sequence + 1 /\ e.timestamp = t /\ e.actor = a /\ e.action = act /\ e.target = target
      /\ e.prev_hash = prev /\ e.hash = sha256_hex(<<sequence + 1, t, joined, prev>>)
  BY <1>1
<1>4. Digested(e)
  BY <1>2, <1>3 DEF Digested
<1>5. Entry(e)
  BY <1>1, <1>3 DEF Entry
<1> QED BY <1>3, <1>4, <1>5

(* A digest is not one of the other strings a hash field may hold.         *)
LEMMA DigestShape == ASSUME NEW p PROVE sha256_hex(p) \notin {NoHash, Zeros, <<"altered">>}
<1> DEFINE d == <<"sha256", p>>
<1>1. Len(d) = 2 /\ d # <<>>
  OBVIOUS
<1>2. d # <<"0">> /\ d # <<"altered">>
  BY <1>1
<1> QED BY <1>1, <1>2 DEF sha256_hex, NoHash, Zeros

(* Two texts with the same digest are the same, field by field as far as   *)
(* the text tells them apart.                                              *)
LEMMA SameText ==
  ASSUME NEW d, NEW e, payload(d) = payload(e)
  PROVE  d.sequence = e.sequence /\ d.prev_hash = e.prev_hash
BY DEF payload

(* record continues the chain from last_hash, whatever became of the       *)
(* stored entries.                                                         *)
LEMMA RecordStep ==
  ASSUME Chained, NEW t, NEW a, NEW act, NEW target, record(t, a, act, target)
  PROVE  Chained'
<1>0. PICK n \in Nat : n = Len(entries)
  BY DEF Chained, IsSeq
<1> DEFINE e == entry(t, a, act, target)
<1>1. /\ sequence' = sequence + 1 /\ entries' = Append(entries, e) /\ recorded' = Append(recorded, e)
      /\ last_hash' = entries'[Len(entries')].hash
  BY DEF record
<1>2. Entry(e) /\ Digested(e) /\ e.sequence = sequence + 1 /\ e.prev_hash = prev
  BY NewEntry
<1> HIDE DEF e
<1>3. /\ entries \in Seq({entries[i] : i \in DOMAIN entries}) /\ DOMAIN entries = 1 .. n /\ sequence = n
      /\ recorded \in Seq({recorded[i] : i \in DOMAIN recorded}) /\ Len(recorded) = n
      /\ entries = <<>> <=> n = 0
  BY <1>0 DEF Chained, IsSeq
<1>4. /\ entries' \in Seq({entries[i] : i \in DOMAIN entries} \cup {e})
      /\ Len(entries') = n + 1 /\ DOMAIN entries' = 1 .. n + 1 /\ entries'[n + 1] = e
      /\ \A i \in 1 .. n : entries'[i] = entries[i]
  BY <1>0, <1>1, <1>3
<1>5. /\ recorded' \in Seq({recorded[i] : i \in DOMAIN recorded} \cup {e})
      /\ Len(recorded') = n + 1 /\ recorded'[n + 1] = e
      /\ \A i \in 1 .. n : recorded'[i] = recorded[i]
  BY <1>1, <1>3
<1>6. IsSeq(entries)' /\ IsSeq(recorded)'
  BY <1>4, <1>5 DEF IsSeq
<1>7. prev = IF n = 0 THEN Zeros ELSE recorded[n].hash
  <2>1. CASE n = 0
    BY <1>3, <2>1 DEF Chained, prev
  <2>2. CASE n # 0
    <3>1. n \in DOMAIN entries
      BY <1>3, <2>2
    <3>2. last_hash = recorded[n].hash /\ Digested(recorded[n])
      BY <1>0, <1>3, <2>2, <3>1 DEF Chained, Written
    <3>3. last_hash # NoHash
      BY <3>2, DigestShape DEF Digested
    <3> QED BY <2>2, <3>2, <3>3 DEF prev
  <2> QED BY <2>1, <2>2
<1>8. Written(n + 1)' /\ Stored(n + 1)'
  <2>1. Entry(recorded[n + 1])' /\ Digested(recorded[n + 1])'
    BY <1>2, <1>5 DEF Entry, Digested, payload, sha256_hex
  <2>2. n + 1 # 1 => recorded'[(n + 1) - 1] = recorded[n]
    BY <1>5
  <2>3. recorded'[n + 1].prev_hash = IF n + 1 = 1 THEN Zeros ELSE recorded'[(n + 1) - 1].hash
    BY <1>2, <1>5, <1>7, <2>2
  <2>4. recorded'[n + 1].sequence = n + 1
    BY <1>2, <1>3, <1>5
  <2> QED BY <1>4, <1>5, <2>1, <2>3, <2>4 DEF Written, Stored
<1>9. ASSUME NEW i \in 1 .. n PROVE Written(i)' /\ Stored(i)'
  <2>1. Written(i) /\ Stored(i)
    BY <1>3 DEF Chained
  <2>2. entries'[i] = entries[i] /\ recorded'[i] = recorded[i] /\ (i # 1 => recorded'[i - 1] = recorded[i - 1])
    BY <1>4, <1>5
  <2> QED BY <2>1, <2>2 DEF Written, Stored, Entry, Digested, payload, sha256_hex
<1>10. \A i \in DOMAIN entries' : Written(i)' /\ Stored(i)'
  <2> SUFFICES ASSUME NEW i \in 1 .. n + 1 PROVE Written(i)' /\ Stored(i)'
    BY <1>4
  <2>1. i \in 1 .. n \/ i = n + 1
    OBVIOUS
  <2> QED BY <2>1, <1>8, <1>9
<1>11. last_hash' = IF entries' = <<>> THEN NoHash ELSE recorded'[Len(entries')].hash
  <2>1. entries' # <<>>
    BY <1>4
  <2> QED BY <1>1, <1>4, <1>5, <2>1
<1> QED BY <1>1, <1>3, <1>4, <1>5, <1>6, <1>10, <1>11 DEF Chained

(* An alteration leaves the digest alone, or alters nothing else.          *)
LEMMA AlteredEntry ==
  ASSUME NEW e, Entry(e), NEW d \in Alterations(e)
  PROVE  d.hash = e.hash \/ (payload(d) = payload(e) /\ d.hash = <<"altered">>)
<1> DEFINE R(s, t, a, b, c, p, h) ==
      [sequence |-> s, timestamp |-> t, actor |-> a, action |-> b, target |-> c, prev_hash |-> p, hash |-> h]
<1>1. e = R(e.sequence, e.timestamp, e.actor, e.action, e.target, e.prev_hash, e.hash)
  BY DEF Entry
<1>2. \/ \E n \in 0 .. MaxEntries : d = [e EXCEPT !.sequence = n]
      \/ \E t \in Stamp \cup {0} : d = [e EXCEPT !.timestamp = t]
      \/ \E f \in {"actor", "action", "target", "prev_hash"} : d = [e EXCEPT ![f] = <<"altered">>]
      \/ d = [e EXCEPT !.hash = <<"altered">>]
      \/ \E a, b : d = [e EXCEPT !.actor = a, !.action = b]
  BY Zenon DEF Alterations
<1>3. CASE d = [e EXCEPT !.hash = <<"altered">>]
  <2>1. d = R(e.sequence, e.timestamp, e.actor, e.action, e.target, e.prev_hash, <<"altered">>)
    BY <1>1, <1>3
  <2> QED BY <2>1 DEF payload
<1>4. CASE d # [e EXCEPT !.hash = <<"altered">>]
  BY <1>1, <1>2, <1>4
<1> QED BY <1>3, <1>4

(* Altering an entry changes no other, and not what was written.           *)
LEMMA CorruptStep == ASSUME Chained, Corrupt PROVE Chained'
<1>0. PICK i \in DOMAIN entries :
        entries[i] = recorded[i] /\ \E d \in Alterations(entries[i]) : entries' = [entries EXCEPT ![i] = d]
  BY DEF Corrupt
<1>1. PICK d \in Alterations(entries[i]) : entries' = [entries EXCEPT ![i] = d]
  BY <1>0
<1>2. UNCHANGED <<last_hash, sequence, recorded>>
  BY DEF Corrupt
<1>3. d.hash = recorded[i].hash \/ (payload(d) = payload(recorded[i]) /\ d.hash = <<"altered">>)
  BY <1>0, <1>1, AlteredEntry DEF Chained, Written
<1>4. PICK n \in Nat : n = Len(entries)
  BY DEF Chained, IsSeq
<1>5. entries \in Seq({entries[j] : j \in DOMAIN entries}) /\ DOMAIN entries = 1 .. n /\ i \in 1 .. n
  BY <1>4 DEF Chained, IsSeq
<1>6. /\ entries' \in Seq({entries[j] : j \in DOMAIN entries} \cup {d})
      /\ Len(entries') = n /\ DOMAIN entries' = 1 .. n
      /\ entries'[i] = d /\ \A j \in 1 .. n : j # i => entries'[j] = entries[j]
  BY <1>1, <1>4, <1>5
<1>7. IsSeq(entries)'
  BY <1>6 DEF IsSeq
<1>8. ASSUME NEW j \in DOMAIN entries' PROVE Written(j)' /\ Stored(j)'
  <2>1. Written(j) /\ Stored(j)
    BY <1>5, <1>6 DEF Chained
  <2>2. Written(j)'
    BY <1>2, <2>1 DEF Written, Entry, Digested, payload, sha256_hex
  <2>3. Stored(j)'
    BY <1>2, <1>3, <1>6, <2>1 DEF Stored, payload
  <2> QED BY <2>2, <2>3
<1>9. (entries = <<>> <=> n = 0) /\ (entries' = <<>> <=> n = 0)
  BY <1>4, <1>5, <1>6
<1> QED BY <1>2, <1>4, <1>6, <1>7, <1>8, <1>9 DEF Chained, IsSeq

(* The chain's invariant is inductive.                                     *)
LEMMA ChainedInvariant == Spec => []Chained
<1>1. Init => Chained
  <2> SUFFICES ASSUME Init PROVE Chained
    OBVIOUS
  <2>1. entries \in Seq({}) /\ DOMAIN entries = {} /\ Len(entries) = 0 /\ recorded = entries
    BY DEF Init
  <2> QED BY <2>1 DEF Init, Chained, IsSeq
<1>0. ASSUME Chained, UNCHANGED <<entries, last_hash, sequence, recorded>> PROVE Chained'
  <2>1. ASSUME NEW i \in DOMAIN entries PROVE Written(i)' /\ Stored(i)'
    BY <1>0, <2>1 DEF Chained, Written, Stored, Entry, Digested, payload, sha256_hex
  <2>2. IsSeq(entries)' /\ IsSeq(recorded)'
    BY <1>0 DEF Chained, IsSeq
  <2> QED BY <1>0, <2>1, <2>2 DEF Chained
<1>2. ASSUME Chained, RecordKernel PROVE Chained'
  BY <1>2, RecordStep DEF RecordKernel
<1>3. ASSUME Chained, GateCall PROVE Chained'
  <2>1. PICK ctx \in CallerContext, op \in Operation, actor \in Actor, t \in Stamp : gate(ctx, op, actor, t)
    BY <1>3 DEF GateCall
  <2>2. CASE record(t, actor, <<"invisible_probe">>, <<op>>)
    BY <1>3, <2>2, RecordStep
  <2>3. CASE UNCHANGED <<entries, last_hash, sequence, recorded>>
    BY <1>3, <2>3, <1>0
  <2> QED BY <2>1, <2>2, <2>3 DEF gate
<1>4. ASSUME Chained, UNCHANGED vars PROVE Chained'
  BY <1>0, <1>4 DEF vars
<1>5. Chained /\ [Next]_vars => Chained'
  BY <1>2, <1>3, <1>4, CorruptStep DEF Next
<1> QED BY <1>1, <1>5, PTL DEF Spec

(* verify recomputes every digest and compares every link: it returns Ok   *)
(* exactly when the text and the digest of every entry are the ones record *)
(* wrote, and otherwise the number stored in the first entry of which they *)
(* are not, whichever and however many were altered and however the trail  *)
(* grew afterwards (VerifyFindsFirstAltered).                              *)
THEOREM VerifyIsExact == Spec => []VerifyFindsFirstAltered
<1>1. Chained => VerifyFindsFirstAltered
  <2> SUFFICES ASSUME Chained PROVE VerifyFindsFirstAltered
    OBVIOUS
  <2>1. PICK n \in Nat : n = Len(entries) /\ DOMAIN entries = 1 .. n /\ (entries = <<>> <=> n = 0)
    BY DEF Chained, IsSeq
  <2>2. ASSUME NEW i \in DOMAIN entries PROVE i \in Altered <=> ~Digested(entries[i])
    <3>1. Digested(recorded[i]) /\ Stored(i)
      BY DEF Chained, Written
    <3>2. entries[i].hash = <<"altered">> => ~Digested(entries[i])
      BY DigestShape DEF Digested
    <3>3. <<"altered">> # recorded[i].hash
      BY <3>1, DigestShape DEF Digested
    <3>4. Digested(entries[i]) /\ entries[i].hash = recorded[i].hash => payload(entries[i]) = payload(recorded[i])
      BY <3>1 DEF Digested, sha256_hex
    <3>5. payload(entries[i]) = payload(recorded[i]) /\ entries[i].hash = recorded[i].hash => Digested(entries[i])
      BY <3>1, Zenon DEF Digested
    <3> QED BY <3>1, <3>2, <3>3, <3>4, <3>5 DEF Altered, Stored
  <2>3. ASSUME NEW j \in Broken, j \notin Altered PROVE j # 1 /\ j - 1 \in Altered
    <3>1. j \in 1 .. n /\ Digested(entries[j]) /\ Written(j)
      BY <2>1, <2>2, <2>3 DEF Broken, Chained
    <3>2. ~linked(j)
      BY <3>1 DEF Broken, sound, Digested
    <3>3. entries[j].prev_hash = recorded[j].prev_hash
      BY <2>1, <2>3, <3>1, SameText DEF Altered
    <3>4. j # 1 /\ entries[j - 1].hash # recorded[j - 1].hash
      BY <3>1, <3>2, <3>3 DEF linked, Written
    <3> QED BY <2>1, <3>1, <3>4 DEF Altered
  <2>4. Altered \subseteq Broken /\ Altered \subseteq 1 .. n /\ Broken \subseteq 1 .. n
    BY <2>1, <2>2 DEF Altered, Broken, sound, Digested
  <2>5. verify = IF Altered = {} THEN Ok(Len(entries)) ELSE Err(entries[First(Altered)].sequence)
    <3>1. CASE Altered = {}
      <4>1. Broken = {}
        BY <2>3, <3>1
      <4> QED BY <3>1, <4>1 DEF verify
    <3>2. CASE Altered # {}
      <4>1. PICK m \in Altered : \A j \in Altered : m <= j
        BY <2>4, <3>2, LeastNat
      <4>2. ASSUME NEW j \in Broken PROVE m <= j
        <5>1. j \in Nat /\ m \in Nat
          BY <2>4
        <5>2. j \in Altered \/ j - 1 \in Altered
          BY <2>3
        <5> QED BY <4>1, <5>1, <5>2
      <4>3. \A i \in Broken : (\A j \in Broken : i <= j) <=> i = m
        BY <2>4, <4>2
      <4>4. \A i \in Altered : (\A j \in Altered : i <= j) <=> i = m
        BY <2>4, <4>1
      <4>5. First(Broken) = m /\ First(Altered) = m
        BY <2>4, <4>3, <4>4 DEF First
      <4> QED BY <2>4, <3>2, <4>5 DEF verify
    <3> QED BY <3>1, <3>2
  <2>6. ASSUME Altered = {} PROVE prev = IF entries = <<>> THEN Zeros ELSE entries[Len(entries)].hash
    <3>1. CASE n = 0
      BY <2>1, <3>1 DEF Chained, prev
    <3>2. CASE n # 0
      <4>1. n \in DOMAIN entries /\ entries # <<>>
        BY <2>1, <3>2
      <4>2. entries[n].hash = recorded[n].hash /\ Digested(recorded[n]) /\ last_hash = recorded[n].hash
        BY <2>1, <2>6, <4>1 DEF Altered, Chained, Written
      <4>3. last_hash # NoHash
        BY <4>2, DigestShape DEF Digested
      <4> QED BY <2>1, <4>1, <4>2, <4>3 DEF prev
    <3> QED BY <3>1, <3>2
  <2>7. sequence = Len(entries) /\ \A i \in DOMAIN entries : recorded[i].sequence = i
    BY DEF Chained, Written
  <2> QED BY <2>5, <2>6, <2>7, Zenon DEF VerifyFindsFirstAltered
<1> QED BY <1>1, ChainedInvariant, PTL

-----------------------------------------------------------------------------
(* The agent registry.  Every record has the fields that register gives it *)
(* and was not heard from before it was made.                              *)
LEMMA RegistryTyped == Registry!Spec => []Registry!TypeOK
<1> USE RegistryParameters DEF Registry!AgentAssumption
<1>1. Registry!Init => Registry!TypeOK
  BY DEF Registry!Init, Registry!TypeOK, Registry!Registered, Registry!Now
<1>2. ASSUME Registry!TypeOK, [Registry!Next]_(Registry!vars) PROVE Registry!TypeOK'
  <2>1. now \in Nat /\ now \in Registry!Now /\ Registry!Registered \subseteq Agent
    BY <1>2 DEF Registry!TypeOK, Registry!Now
  <2>2. ASSUME NEW a \in Agent, NEW rec \in Registry!AgentRecord, Registry!Put(a, rec), now' = now,
               rec.heartbeat_interval_secs # 0, rec.registered_at <= rec.last_heartbeat, rec.last_heartbeat <= now
        PROVE  Registry!TypeOK'
    <3>1. /\ DOMAIN records' = Registry!Registered \cup {a}
          /\ \A b \in DOMAIN records' : records'[b] = IF b = a THEN rec ELSE records[b]
      BY <2>2 DEF Registry!Put
    <3> QED BY <1>2, <2>1, <2>2, <3>1 DEF Registry!TypeOK, Registry!Registered
  <2>3. ASSUME NEW id \in Agent \cup {BadAgent}, NEW tier \in Registry!PermissionTier, NEW interval \in Interval,
               Registry!register(id, tier, interval)
        PROVE  Registry!TypeOK'
    <3> DEFINE rec == [tier |-> tier, original_tier |-> tier, heartbeat_interval_secs |-> interval,
                       registered_at |-> now, last_heartbeat |-> now, locked |-> FALSE]
    <3>1. id \in Agent /\ interval # 0 /\ interval \in Nat /\ Registry!Put(id, rec) /\ now' = now
      BY <2>3 DEF Registry!register, Registry!validate
    <3>2. rec \in Registry!AgentRecord
      BY <2>1, <3>1 DEF Registry!AgentRecord
    <3>3. rec.heartbeat_interval_secs # 0 /\ rec.registered_at <= rec.last_heartbeat /\ rec.last_heartbeat <= now
      BY <2>1, <3>1
    <3> HIDE DEF rec
    <3> QED BY <2>2, <3>1, <3>2, <3>3
  <2>4. ASSUME NEW a \in Registry!Registered,
               Registry!heartbeat(a) \/ Registry!lock(a) \/ \E tier \in Registry!PermissionTier : Registry!set_tier(a, tier)
        PROVE  Registry!TypeOK'
    <3>1. PICK rec : /\ Registry!Put(a, rec) /\ now' = now
                     /\ \/ rec = [records[a] EXCEPT !.last_heartbeat = now]
                        \/ rec = [records[a] EXCEPT !.locked = TRUE, !.tier = "ReadOnly"]
                        \/ \E tier \in Registry!PermissionTier : rec = [records[a] EXCEPT !.tier = tier]
      BY <2>4 DEF Registry!heartbeat, Registry!lock, Registry!set_tier
    <3>2. /\ records[a] \in Registry!AgentRecord /\ records[a].heartbeat_interval_secs # 0
          /\ records[a].registered_at <= records[a].last_heartbeat /\ records[a].last_heartbeat <= now
      BY <1>2, <2>4 DEF Registry!TypeOK
    <3>3. rec \in Registry!AgentRecord
      BY <2>1, <3>1, <3>2 DEF Registry!AgentRecord, Registry!PermissionTier
    <3>4. records[a].registered_at \in Nat /\ records[a].last_heartbeat \in Nat
      BY <3>2 DEF Registry!AgentRecord, Registry!Now
    <3>5. records[a].registered_at <= now
      BY <2>1, <3>2, <3>4
    <3>6. /\ rec.heartbeat_interval_secs # 0 /\ rec.registered_at <= rec.last_heartbeat
          /\ rec.last_heartbeat <= now
      <4>1. /\ rec.heartbeat_interval_secs = records[a].heartbeat_interval_secs
            /\ rec.registered_at = records[a].registered_at
            /\ rec.last_heartbeat = records[a].last_heartbeat \/ rec.last_heartbeat = now
        BY <3>1, <3>2 DEF Registry!AgentRecord
      <4> QED BY <2>1, <3>2, <3>5, <4>1
    <3> QED BY <2>1, <2>2, <2>4, <3>1, <3>3, <3>6
  <2>5. ASSUME NEW a \in Registry!Registered, Registry!deregister(a) PROVE Registry!TypeOK'
    BY <1>2, <2>5 DEF Registry!deregister, Registry!TypeOK, Registry!Registered
  <2>6. CASE Registry!Clock
    <3>1. now' \in Registry!Now /\ now <= now' /\ records' = records
      BY <2>1, <2>6 DEF Registry!Clock, Registry!Now
    <3>2. ASSUME NEW a \in Registry!Registered PROVE records[a].last_heartbeat <= now'
      <4>1. records[a].last_heartbeat \in Nat /\ records[a].last_heartbeat <= now
        BY <1>2 DEF Registry!TypeOK, Registry!AgentRecord, Registry!Now
      <4> QED BY <2>1, <3>1, <4>1 DEF Registry!Now
    <3> QED BY <1>2, <3>1, <3>2 DEF Registry!TypeOK, Registry!Registered
  <2>7. CASE UNCHANGED Registry!vars
    BY <1>2, <2>7 DEF Registry!vars, Registry!TypeOK, Registry!Registered
  <2> QED BY <1>2, <2>3, <2>4, <2>5, <2>6, <2>7 DEF Registry!Next
<1> QED BY <1>1, <1>2, PTL DEF Registry!Spec

(* "Agents do not get to reset their record": of the registry's methods    *)
(* only register writes the original tier, the time of registration or an  *)
(* open lock, and it refuses an agent that is registered (NoReset).        *)
THEOREM RecordsAreKept == Registry!Spec => NoReset
<1> DEFINE Kept == \A a \in Registry!Registered \cap Registry!Registered' :
                     /\ records'[a].original_tier = records[a].original_tier
                     /\ records'[a].registered_at = records[a].registered_at
                     /\ records[a].locked => records'[a].locked
<1>1. ASSUME Registry!TypeOK, [Registry!Next]_(Registry!vars) PROVE Kept \/ UNCHANGED Registry!vars
  <2>1. ASSUME NEW a, NEW rec, Registry!Put(a, rec)
        PROVE  \A b \in Registry!Registered \cap Registry!Registered' :
                 records'[b] = IF b = a THEN rec ELSE records[b]
    BY <2>1 DEF Registry!Put, Registry!Registered
  <2>2. ASSUME NEW id \in Agent \cup {BadAgent}, NEW tier \in Registry!PermissionTier, NEW interval \in Interval,
               Registry!register(id, tier, interval)
        PROVE  Kept
    BY <2>1, <2>2 DEF Registry!register
  <2>3. ASSUME NEW a \in Registry!Registered,
               Registry!heartbeat(a) \/ Registry!lock(a) \/ \E tier \in Registry!PermissionTier : Registry!set_tier(a, tier)
        PROVE  Kept
    <3>1. PICK rec : /\ Registry!Put(a, rec)
                     /\ \/ rec = [records[a] EXCEPT !.last_heartbeat = now]
                        \/ rec = [records[a] EXCEPT !.locked = TRUE, !.tier = "ReadOnly"]
                        \/ \E tier \in Registry!PermissionTier : rec = [records[a] EXCEPT !.tier = tier]
      BY <2>3 DEF Registry!heartbeat, Registry!lock, Registry!set_tier
    <3>2. records[a] \in Registry!AgentRecord
      BY <1>1, <2>3 DEF Registry!TypeOK
    <3>3. /\ rec.original_tier = records[a].original_tier /\ rec.registered_at = records[a].registered_at
          /\ records[a].locked => rec.locked
      BY <3>1, <3>2 DEF Registry!AgentRecord
    <3> QED BY <2>1, <3>1, <3>3
  <2>4. ASSUME NEW a \in Registry!Registered, Registry!deregister(a) PROVE Kept
    BY <2>4 DEF Registry!deregister, Registry!Registered
  <2>5. CASE Registry!Clock
    BY <2>5 DEF Registry!Clock, Registry!Registered
  <2> HIDE DEF Kept
  <2> QED BY <1>1, <2>2, <2>3, <2>4, <2>5 DEF Registry!Next
<1>2. Registry!TypeOK /\ [Registry!Next]_(Registry!vars) => [Kept]_(Registry!vars)
  BY <1>1
<1>3. []Registry!TypeOK /\ [][Registry!Next]_(Registry!vars) => [][Kept]_(Registry!vars)
  BY <1>2, PTL
<1> QED BY <1>3, RegistryTyped, PTL DEF Registry!Spec, NoReset, Registry!NoReset

-----------------------------------------------------------------------------
(* The probes as record wrote them, and how many there are up to a         *)
(* position.                                                               *)
Probe == {i \in DOMAIN recorded : recorded[i].action = <<"invisible_probe">>}
Rank(i) == Cardinality({j \in Probe : j <= i})
Call(i) == <<recorded[i].timestamp, recorded[i].actor, recorded[i].target>>

Logged ==
  /\ IsSeq(denied)
  /\ Len(denied) = Cardinality(Probe) /\ \A i \in Probe : denied[Rank(i)] = Call(i)

(* The rank of a probe is a position in the list of denied calls.          *)
LEMMA Ranks ==
  ASSUME Chained
  PROVE  /\ IsFiniteSet(Probe) /\ Cardinality(Probe) \in Nat
         /\ \A i \in Probe : Rank(i) \in 1 .. Cardinality(Probe)
<1>1. PICK n \in Nat : DOMAIN recorded = 1 .. n
  BY DEF Chained, IsSeq
<1>2. IsFiniteSet(1 .. n)
  BY FS_Interval
<1>3. IsFiniteSet(Probe) /\ Cardinality(Probe) \in Nat
  BY <1>1, <1>2, FS_Subset, FS_CardinalityType DEF Probe
<1>4. ASSUME NEW i \in Probe PROVE Rank(i) \in 1 .. Cardinality(Probe)
  <2> DEFINE R == {j \in Probe : j <= i}
  <2>1. R \in SUBSET Probe /\ i \in R
    BY <1>1 DEF Probe
  <2> HIDE DEF R
  <2>2. IsFiniteSet(R) /\ Cardinality(R) <= Cardinality(Probe)
    BY <1>3, <2>1, FS_Subset
  <2>3. Cardinality(R) \in Nat /\ Cardinality(R) # 0
    BY <2>1, <2>2, FS_CardinalityType, FS_EmptySet
  <2>4. Cardinality(R) \in 1 .. Cardinality(Probe)
    BY <1>3, <2>2, <2>3
  <2> QED BY <2>4 DEF Rank, R
<1> QED BY <1>3, <1>4

(* record of an action: a probe is the last of them, another entry none.   *)
LEMMA RecordLogged ==
  ASSUME Chained, Logged, NEW t, NEW a, NEW act, NEW target, record(t, a, act, target),
         denied' = IF act = <<"invisible_probe">> THEN Append(denied, <<t, a, target>>) ELSE denied
  PROVE  Logged'
<1>0. PICK n \in Nat : n = Len(recorded)
  BY DEF Chained, IsSeq
<1> DEFINE e == entry(t, a, act, target)
<1>1. recorded' = Append(recorded, e) /\ e.timestamp = t /\ e.actor = a /\ e.action = act /\ e.target = target
  BY NewEntry DEF record
<1> HIDE DEF e
<1>2. recorded \in Seq({recorded[i] : i \in DOMAIN recorded}) /\ DOMAIN recorded = 1 .. n
  BY <1>0 DEF Chained, IsSeq
<1>3. /\ DOMAIN recorded' = 1 .. n + 1 /\ recorded'[n + 1] = e
      /\ \A i \in 1 .. n : recorded'[i] = recorded[i]
  BY <1>0, <1>1, <1>2
<1>4. IsFiniteSet(Probe) /\ Cardinality(Probe) \in Nat /\ \A i \in Probe : Rank(i) \in 1 .. Cardinality(Probe)
  BY Ranks
<1>5. denied \in Seq({denied[i] : i \in DOMAIN denied})
  BY DEF Logged, IsSeq
<1>6. n + 1 \notin Probe /\ Probe \subseteq 1 .. n
  BY <1>2 DEF Probe
<1>7. \A i \in Probe : Call(i)' = Call(i)
  BY <1>3, <1>6 DEF Call
<1>8. CASE act # <<"invisible_probe">>
  <2>0. recorded'[n + 1].action # <<"invisible_probe">>
    BY <1>1, <1>3, <1>8
  <2>1. Probe' = Probe
    BY <1>2, <1>3, <2>0 DEF Probe
  <2>2. \A i \in Probe : Rank(i)' = Rank(i)
    BY <2>1 DEF Rank
  <2>3. denied' = denied
    BY <1>8
  <2> QED BY <1>7, <2>1, <2>2, <2>3 DEF Logged, IsSeq
<1>9. CASE act = <<"invisible_probe">>
  <2>1. Probe' = Probe \cup {n + 1}
    BY <1>1, <1>2, <1>3, <1>9 DEF Probe
  <2>2. Cardinality(Probe') = Cardinality(Probe) + 1
    BY <1>4, <1>6, <2>1, FS_AddElement
  <2>3. \A i \in Probe : Rank(i)' = Rank(i)
    <3> TAKE i \in Probe
    <3>1. {j \in Probe' : j <= i} = {j \in Probe : j <= i}
      BY <1>6, <2>1
    <3> QED BY <3>1 DEF Rank
  <2>4. Rank(n + 1)' = Cardinality(Probe) + 1
    <3>0. \A j \in Probe' : j <= n + 1
      BY <1>6, <2>1
    <3>1. {j \in Probe' : j <= n + 1} = Probe'
      BY <3>0, Zenon
    <3> QED BY <2>2, <3>1 DEF Rank
  <2>5. Call(n + 1)' = <<t, a, target>>
    BY <1>1, <1>3 DEF Call
  <2> DEFINE c == <<t, a, target>>
  <2>6. denied' = Append(denied, c)
    BY <1>9
  <2> HIDE DEF c
  <2>7. /\ denied' \in Seq({denied[i] : i \in DOMAIN denied} \cup {c}) /\ Len(denied') = Len(denied) + 1
        /\ denied'[Len(denied) + 1] = c /\ \A i \in 1 .. Len(denied) : denied'[i] = denied[i]
    BY <1>5, <2>6
  <2>8. IsSeq(denied)'
    <3>0. denied' \in Seq({denied[i] : i \in DOMAIN denied} \cup {c})
      BY <2>7
    <3>1. denied' \in Seq({denied'[i] : i \in DOMAIN denied'})
      BY <3>0, SMTT(30)
    <3> QED BY <3>1, Zenon DEF IsSeq
  <2>9. Len(denied') = Cardinality(Probe') /\ \A i \in Probe' : denied'[Rank(i)'] = Call(i)'
    <3>1. Len(denied) = Cardinality(Probe) /\ \A i \in Probe : denied[Rank(i)] = Call(i)
      BY DEF Logged
    <3>2. \A i \in Probe : denied'[Rank(i)'] = Call(i)'
      BY <1>4, <1>7, <2>3, <2>7, <3>1
    <3>3. denied'[Rank(n + 1)'] = Call(n + 1)'
      BY <2>4, <2>5, <2>7, <3>1 DEF c
    <3> QED BY <2>1, <2>2, <2>7, <3>1, <3>2, <3>3
  <2> QED BY <2>8, <2>9 DEF Logged
<1> QED BY <1>8, <1>9

(* The gate of invisible.rs records an Agent's denied call and no other,   *)
(* once, in the order of the calls (ProbesLogged).                         *)
THEOREM DeniedCallsLogged == Spec => []ProbesLogged
<1>1. Init => Logged
  <2> SUFFICES ASSUME Init PROVE Logged
    OBVIOUS
  <2>1. denied \in Seq({}) /\ Len(denied) = 0 /\ DOMAIN recorded = {}
    BY DEF Init
  <2>2. Probe = {} /\ Cardinality(Probe) = 0
    BY <2>1, FS_EmptySet DEF Probe
  <2> QED BY <2>1, <2>2 DEF Init, Logged, IsSeq
<1>2. ASSUME Chained, Logged, RecordKernel PROVE Logged'
  BY <1>2, RecordLogged DEF RecordKernel
<1>3. Logged /\ UNCHANGED <<recorded, denied>> => Logged'
  BY DEF Logged, IsSeq, Probe, Rank, Call
<1>4. ASSUME Chained, Logged, GateCall PROVE Logged'
  <2>1. PICK ctx \in CallerContext, op \in Operation, actor \in Actor, t \in Stamp :
          /\ gate(ctx, op, actor, t)
          /\ denied' = IF ctx = "Agent" /\ ~is_authorized(ctx, op) THEN Append(denied, <<t, actor, <<op>>>>) ELSE denied
    BY <1>4 DEF GateCall
  <2>3. CASE ctx = "Agent" /\ ~is_authorized(ctx, op)
    BY <1>4, <2>1, <2>3, RecordLogged DEF gate, probe
  <2>4. CASE ~(ctx = "Agent" /\ ~is_authorized(ctx, op))
    BY <1>3, <1>4, <2>1, <2>4 DEF gate, probe
  <2> QED BY <2>3, <2>4
<1>5. ASSUME Chained, Logged, Corrupt PROVE Logged'
  BY <1>3, <1>5 DEF Corrupt
<1>6. Chained /\ Logged /\ [Next]_vars => Logged'
  BY <1>2, <1>3, <1>4, <1>5 DEF Next, vars
<1>7. Logged => ProbesLogged
  BY DEF Logged, ProbesLogged, Probe, Rank, Call
<1> QED BY <1>1, <1>6, <1>7, ChainedInvariant, PTL DEF Spec

-----------------------------------------------------------------------------
(* The monitor.  The sum over a window exists and is a natural number.     *)
LEMMA TokensNat ==
  ASSUME NEW obs \in Seq(Observations)
  PROVE  Degradation!total_tokens(obs) \in Nat
<1> DEFINE n == Len(obs)
           Step(f, i) == IF i = 0 THEN 0 ELSE f[i - 1] + obs[i].tokens
           IsSum(f, k) == f = [i \in 0 .. k |-> Step(f, i)]
<1>1. n \in Nat /\ \A i \in 1 .. n : obs[i].tokens \in Nat
  BY MonitorParameters DEF Degradation!ConfigAssumption
<1> HIDE DEF IsSum
<1> DEFINE S == {k \in Nat : k <= n => \E f \in [0 .. k -> Nat] : IsSum(f, k)}
<1>2. 0 \in S
  <2> DEFINE f == [i \in 0 .. 0 |-> 0]
  <2>1. f \in [0 .. 0 -> Nat] /\ IsSum(f, 0)
    BY <1>1 DEF IsSum
  <2> QED BY <2>1
<1>3. ASSUME NEW k \in Nat, k \in S PROVE k + 1 \in S
  <2> SUFFICES ASSUME k + 1 <= n PROVE \E g \in [0 .. k + 1 -> Nat] : IsSum(g, k + 1)
    OBVIOUS
  <2>1. PICK f \in [0 .. k -> Nat] : IsSum(f, k)
    BY <1>1, <1>3
  <2> DEFINE g == [i \in 0 .. k + 1 |-> IF i <= k THEN f[i] ELSE f[k] + obs[k + 1].tokens]
  <2>2. obs[k + 1].tokens \in Nat /\ f[k] \in Nat
    BY <1>1, <2>1
  <2>3. g \in [0 .. k + 1 -> Nat]
    BY <2>1, <2>2
  <2>4. ASSUME NEW i \in 0 .. k + 1 PROVE g[i] = Step(g, i)
    <3>1. CASE i = 0
      BY <2>1, <3>1 DEF IsSum
    <3>2. CASE i \in 1 .. k
      BY <2>1, <3>2 DEF IsSum
    <3>3. CASE i = k + 1
      BY <3>3
    <3> QED BY <3>1, <3>2, <3>3
  <2>5. IsSum(g, k + 1)
    BY <2>4 DEF IsSum
  <2> QED BY <2>3, <2>5
<1>4. n \in S
  <2> HIDE DEF S
  <2> QED BY <1>1, <1>2, <1>3, NatClosed
<1>5. PICK f \in [0 .. n -> Nat] : IsSum(f, n)
  BY <1>1, <1>4
<1> DEFINE s == CHOOSE g : IsSum(g, n)
<1>6. IsSum(s, n)
  BY <1>5
<1> HIDE DEF s
<1>a. \A i \in 0 .. n : s[i] = Step(s, i)
  BY <1>6 DEF IsSum
<1> DEFINE T == {k \in Nat : k <= n => s[k] \in Nat}
<1>7. 0 \in T
  BY <1>1, <1>a
<1>8. ASSUME NEW k \in Nat, k \in T PROVE k + 1 \in T
  <2> SUFFICES ASSUME k + 1 <= n PROVE s[k + 1] \in Nat
    OBVIOUS
  <2>1. s[k + 1] = s[k] + obs[k + 1].tokens
    <3>1. k + 1 \in 0 .. n /\ k + 1 # 0 /\ (k + 1) - 1 = k
      BY <1>1
    <3> QED BY <1>a, <3>1
  <2> QED BY <1>1, <1>8, <2>1
<1>9. n \in T
  <2> HIDE DEF T
  <2> QED BY <1>1, <1>7, <1>8, NatClosed
<1>10. s[n] \in Nat
  BY <1>1, <1>9
<1> QED BY <1>10 DEF Degradation!total_tokens, s, IsSum

(* The monitor's invariant.  The tier is always that of the last scores    *)
(* under some configuration; while observations have been unremarkable,    *)
(* the scores are those of the window, and that many of its last entries   *)
(* are unremarkable.                                                       *)
Plainly(obs, i) ==
  /\ obs[i].advanced /\ ~obs[i].announced /\ obs[i].tool = 0
  /\ \A j \in 1 .. i - 1 : obs[j].hash # obs[i].hash

PlainFrom(obs, n) == \A i \in 1 .. Len(obs) : i + n > Len(obs) => Plainly(obs, i)

Buffered(b, n) ==
  /\ b = [observations |-> b.observations, last |-> b.last, tier |-> b.tier]
  /\ b.observations \in Seq(Observations) /\ Len(b.observations) <= Degradation!WindowMax
  /\ PlainFrom(b.observations, n)
  /\ n > 0 => b.last = Degradation!scores(b.observations)

Judged(b) == \E c \in Configs : b.tier = Degradation!tier_for(Degradation!combine(b.last, c), c)

Pending(c) ==
  \/ c = Degradation!NoCall
  \/ /\ c = [op |-> c.op, agent |-> c.agent, arg |-> c.arg, cfg |-> c.cfg]
     /\ c.agent \in Watched /\ c.cfg \in Configs
     /\ (c.op = "observe" /\ c.arg \in Observations) \/ c.op = "record_signal"

Monitored ==
  /\ cfg \in Configs /\ DOMAIN state \subseteq Watched
  /\ clean \in [Watched -> Nat] /\ DOMAIN call = Thread
  /\ \A t \in Thread : Pending(call[t])
  /\ \A a \in DOMAIN state : Buffered(state[a], clean[a]) /\ Judged(state[a])

(* The widest window is at least one and no window is wider.               *)
LEMMA WidestWindow ==
  /\ Degradation!WindowMax \in Nat \ {0}
  /\ \A c \in Configs : c.window \in Nat \ {0} /\ c.window <= Degradation!WindowMax
<1> DEFINE W == {c.window : c \in Configs}
<1>1. \A c \in Configs : c.window \in Nat \ {0}
  BY MonitorParameters DEF Degradation!ConfigAssumption
<1>2. PICK c \in Configs : \A d \in Configs : d.window <= c.window
  BY MonitorParameters DEF Degradation!ConfigAssumption
<1>3. \E w \in W : \A d \in Configs : d.window <= w
  BY <1>2
<1>4. Degradation!WindowMax \in W /\ \A d \in Configs : d.window <= Degradation!WindowMax
  BY <1>3 DEF Degradation!WindowMax
<1> QED BY <1>1, <1>4

(* A zero score contributes nothing, whatever its gate.                    *)
IsZero(s) == s[1] = 0 /\ s[2] \in Nat \ {0} /\ s = <<s[1], s[2]>>

(* A score of zero contributes zero.                                        *)
LEMMA ZeroContrib ==
  ASSUME NEW s, IsZero(s), NEW g \in 0 .. 10
  PROVE  IsZero(Degradation!contrib(s, g))
<1>1. CASE g = 0
  <2>1. 10 * s[1] = 0 /\ g * s[2] = 0 /\ ~(10 * s[1] < g * s[2]) /\ ~(g >= 10)
    BY <1>1 DEF IsZero
  <2>2. Degradation!contrib(s, g) = <<10 * s[1] - g * s[2], s[2] * (10 - g)>>
    BY <2>1 DEF Degradation!contrib
  <2>3. 10 * s[1] - g * s[2] = 0 /\ s[2] * (10 - g) \in Nat \ {0}
    BY <1>1, <2>1 DEF IsZero
  <2> QED BY <2>2, <2>3 DEF IsZero
<1>2. CASE g # 0
  <2>1. 10 * s[1] = 0 /\ g * s[2] > 0
    BY <1>2 DEF IsZero
  <2>2. Degradation!contrib(s, g) = Degradation!Zero
    BY <2>1 DEF Degradation!contrib
  <2> QED BY <2>2 DEF IsZero, Degradation!Zero
<1> QED BY <1>1, <1>2

(* Zero and zero is zero.                                                   *)
LEMMA ZeroPlus ==
  ASSUME NEW x, NEW y, IsZero(x), IsZero(y)
  PROVE  IsZero(Degradation!Plus(x, y))
<1>1. x[1] * y[2] + y[1] * x[2] = 0
  BY DEF IsZero
<1>2. x[2] * y[2] \in Nat \ {0}
  BY DEF IsZero
<1> QED BY <1>1, <1>2 DEF IsZero, Degradation!Plus

(* Without an excess in any signal the score is zero.                      *)
LEMMA NoExcess ==
  ASSUME NEW last, NEW c \in Configs, \A k \in Degradation!SignalKind : IsZero(Degradation!contrib(last[k], c[k]))
  PROVE  Degradation!tier_for(Degradation!combine(last, c), c) = Degradation!tier_for(Degradation!Zero, c)
<1> DEFINE total == Degradation!Plus(Degradation!Plus(Degradation!contrib(last["repetition"], c.repetition),
                                                       Degradation!contrib(last["self_referential"], c.self_referential)),
                                     Degradation!Plus(Degradation!contrib(last["token_velocity"], c.token_velocity),
                                                       Degradation!contrib(last["tool_retry"], c.tool_retry)))
<1>1. /\ IsZero(Degradation!contrib(last["repetition"], c.repetition))
      /\ IsZero(Degradation!contrib(last["self_referential"], c.self_referential))
      /\ IsZero(Degradation!contrib(last["token_velocity"], c.token_velocity))
      /\ IsZero(Degradation!contrib(last["tool_retry"], c.tool_retry))
  BY DEF Degradation!SignalKind
<1>2. IsZero(total)
  BY <1>1, ZeroPlus
<1>3. Degradation!combine(last, c) = IF total[1] > total[2] THEN Degradation!One ELSE total
  BY DEF Degradation!combine
<1> HIDE DEF total
<1>4. Degradation!combine(last, c) = total
  BY <1>2, <1>3 DEF IsZero
<1>5. c.soft \in Nat /\ c.medium \in Nat /\ c.hard \in Nat
  BY MonitorParameters DEF Degradation!ConfigAssumption
<1>6. ASSUME NEW t \in Nat
      PROVE  10 * total[1] >= t * total[2] <=> 10 * Degradation!Zero[1] >= t * Degradation!Zero[2]
  BY <1>2 DEF IsZero, Degradation!Zero
<1> QED BY <1>4, <1>5, <1>6 DEF Degradation!tier_for

(* The count of the scores is that of FiniteSets.                          *)
LEMMA SameCardinality == \A S : Degradation!Cardinality(S) = Cardinality(S)
BY DEF Degradation!Cardinality, Cardinality

(* A window of unremarkable observations scores zero in every signal.      *)
LEMMA PlainScores ==
  ASSUME NEW obs \in Seq(Observations), \A i \in 1 .. Len(obs) : Plainly(obs, i)
  PROVE  \A k \in Degradation!SignalKind : IsZero(Degradation!scores(obs)[k])
<1> DEFINE n == Len(obs)
<1>1. n \in Nat /\ DOMAIN obs = 1 .. n /\ (obs = <<>> <=> n = 0)
  OBVIOUS
<1>2. Cardinality({}) = 0
  BY FS_EmptySet
<1>3. IsZero(Degradation!Zero) /\ \A d \in Nat \ {0} : IsZero(<<0, d>>)
  BY DEF IsZero, Degradation!Zero
<1>4. IsZero(Degradation!repetition_score(obs))
  <2>1. {i \in DOMAIN obs : \E j \in DOMAIN obs : j < i /\ obs[j].hash = obs[i].hash} = {}
    <3>1. \A i, j \in 1 .. n : j < i => obs[j].hash # obs[i].hash
      BY <1>1 DEF Plainly
    <3> QED BY <1>1, <3>1
  <2> DEFINE dups == {i \in DOMAIN obs : \E j \in DOMAIN obs : j < i /\ obs[j].hash = obs[i].hash}
  <2>2. Degradation!repetition_score(obs) = IF Len(obs) < 2 THEN Degradation!Zero ELSE <<Cardinality(dups), Len(obs)>>
    BY SameCardinality DEF Degradation!repetition_score
  <2>3. Cardinality(dups) = 0
    BY <1>2, <2>1
  <2> HIDE DEF dups
  <2> QED BY <1>1, <1>3, <2>2, <2>3
<1>5. IsZero(Degradation!self_referential_score(obs))
  <2>1. {i \in DOMAIN obs : obs[i].announced} = {}
    BY <1>1 DEF Plainly
  <2> DEFINE said == {i \in DOMAIN obs : obs[i].announced}
  <2>2. Degradation!self_referential_score(obs) = IF obs = <<>> THEN Degradation!Zero ELSE <<Cardinality(said), Len(obs)>>
    BY SameCardinality DEF Degradation!self_referential_score
  <2>3. Cardinality(said) = 0
    BY <1>2, <2>1
  <2> HIDE DEF said
  <2> QED BY <1>1, <1>3, <2>2, <2>3
<1>6. IsZero(Degradation!token_velocity_score(obs))
  <2>1. {i \in DOMAIN obs : ~obs[i].advanced} = {}
    BY <1>1 DEF Plainly
  <2> DEFINE tokens == Degradation!total_tokens(obs)
             least == IF tokens < Len(obs) THEN tokens ELSE Len(obs)
  <2>2. tokens \in Nat
    BY TokensNat
  <2> HIDE DEF tokens
  <2>3. least * 0 = 0
    BY <1>1, <2>2
  <2>4. n # 0 => Len(obs) * Len(obs) \in Nat \ {0}
    BY <1>1
  <2> DEFINE stalled == Cardinality({i \in DOMAIN obs : ~obs[i].advanced})
  <2>5. Degradation!token_velocity_score(obs) =
          IF obs = <<>> \/ tokens = 0 THEN Degradation!Zero ELSE <<least * stalled, Len(obs) * Len(obs)>>
    BY SameCardinality DEF Degradation!token_velocity_score, tokens
  <2>6. stalled = 0
    BY <1>2, <2>1
  <2> HIDE DEF least, stalled
  <2> QED BY <1>1, <1>3, <2>3, <2>4, <2>5, <2>6
<1>7. IsZero(Degradation!tool_retry_score(obs))
  <2>1. Degradation!ToolCalls(obs) = {}
    BY <1>1 DEF Plainly, Degradation!ToolCalls
  <2> DEFINE calls == Degradation!ToolCalls(obs)
             dups == {i \in calls : \E j \in calls : j < i /\ obs[j].tool = obs[i].tool}
  <2>2. Degradation!tool_retry_score(obs) = IF Len(obs) < 2 \/ Cardinality(calls) < 2 THEN Degradation!Zero
                                            ELSE <<Cardinality(dups), Cardinality(calls)>>
    BY SameCardinality DEF Degradation!tool_retry_score
  <2>3. Cardinality(calls) = 0
    BY <1>2, <2>1
  <2> HIDE DEF calls, dups
  <2> QED BY <1>3, <2>2, <2>3
<1> QED BY <1>4, <1>5, <1>6, <1>7 DEF Degradation!scores, Degradation!SignalKind

(* The window keeps the newest observation and drops from the front.       *)
Windowed(obs, o, w) == Degradation!window(Append(obs, o), w)

ShiftedBy(d, obs, o, r) ==
  /\ d + Len(r) = Len(obs) + 1 /\ r[Len(r)] = o
  /\ \A i \in 1 .. Len(r) - 1 : r[i] = obs[d + i] /\ d + i \in 1 .. Len(obs)

(* The window of observations after one more.                               *)
LEMMA WindowOf ==
  ASSUME NEW obs \in Seq(Observations), NEW o \in Observations, NEW w \in Nat \ {0}
  PROVE  /\ Windowed(obs, o, w) \in Seq(Observations)
         /\ Len(Windowed(obs, o, w)) <= w /\ Len(Windowed(obs, o, w)) \in Nat \ {0}
         /\ \E d \in Nat : ShiftedBy(d, obs, o, Windowed(obs, o, w))
<1> DEFINE s == Append(obs, o)
           r == Windowed(obs, o, w)
<1>0. PICK n \in Nat : n = Len(obs)
  OBVIOUS
<1>1. /\ s \in Seq(Observations) /\ Len(s) = n + 1 /\ s[n + 1] = o
      /\ \A i \in 1 .. n : s[i] = obs[i]
  BY <1>0
<1>a. r = IF Len(s) > w THEN SubSeq(s, Len(s) - w + 1, Len(s)) ELSE s
  BY DEF Windowed, Degradation!window
<1> HIDE DEF s, r
<1>2. CASE n + 1 > w
  <2>1. PICK d \in Nat : d + w = n + 1 /\ (n + 1) - w + 1 = d + 1
    <3>1. (n + 1) - w \in Nat /\ ((n + 1) - w) + w = n + 1
      BY <1>2
    <3> QED BY <3>1
  <2>3. r = SubSeq(s, d + 1, n + 1)
    BY <1>1, <1>2, <1>a, <2>1
  <2>4. r \in Seq(Observations) /\ Len(r) = w /\ \A i \in 1 .. w : r[i] = s[d + i]
    BY <1>1, <2>1, <2>3
  <2>5. r[w] = o
    <3>1. w \in 1 .. w /\ s[d + w] = o
      BY <1>1, <2>1
    <3> QED BY <2>4, <3>1
  <2>6. \A i \in 1 .. w - 1 : r[i] = obs[d + i] /\ d + i \in 1 .. n
    BY <1>1, <2>1, <2>4
  <2>7. ShiftedBy(d, obs, o, r)
    BY <1>0, <2>1, <2>4, <2>5, <2>6 DEF ShiftedBy
  <2> QED BY <2>4, <2>7 DEF r
<1>3. CASE ~(n + 1 > w)
  <2>1. r = s
    BY <1>1, <1>3, <1>a
  <2>2. 0 + Len(r) = n + 1 /\ Len(r) <= w
    BY <1>1, <1>3, <2>1
  <2>3. \A i \in 1 .. Len(r) - 1 : r[i] = obs[0 + i] /\ 0 + i \in 1 .. n
    BY <1>1, <2>1
  <2>4. ShiftedBy(0, obs, o, r)
    BY <1>0, <1>1, <2>1, <2>2, <2>3 DEF ShiftedBy
  <2>5. r \in Seq(Observations) /\ Len(r) \in Nat \ {0}
    BY <1>1, <2>1
  <2> QED BY <2>2, <2>4, <2>5 DEF r
<1> QED BY <1>2, <1>3

(* An unremarkable observation extends the unremarkable end of the window, *)
(* or fills it.                                                            *)
LEMMA ObservePlain ==
  ASSUME NEW obs \in Seq(Observations), NEW o \in Observations, NEW w \in Nat \ {0}, NEW n \in Nat,
         NEW k \in Nat, PlainFrom(obs, n),
         k = 0 \/ (Degradation!Unremarkable(o, obs) /\ (k = n + 1 \/ (k = n /\ Len(obs) <= n)))
  PROVE  PlainFrom(Windowed(obs, o, w), k)
<1> DEFINE r == Windowed(obs, o, w)
<1>0. r \in Seq(Observations) /\ Len(r) \in Nat \ {0}
  BY WindowOf
<1>1. PICK d \in Nat : ShiftedBy(d, obs, o, r)
  BY WindowOf
<1> HIDE DEF r
<1>2. PICK m \in Nat : m = Len(obs)
  OBVIOUS
<1>3. PICK l \in Nat \ {0} : l = Len(r)
  BY <1>0
<1>4. d + l = m + 1 /\ r[l] = o /\ \A i \in 1 .. l - 1 : r[i] = obs[d + i] /\ d + i \in 1 .. m
  BY <1>1, <1>2, <1>3 DEF ShiftedBy
<1> SUFFICES ASSUME NEW i \in 1 .. l, i + k > l PROVE Plainly(r, i)
  BY <1>3 DEF PlainFrom, r
<1>5. k # 0 /\ Degradation!Unremarkable(o, obs) /\ (k = n + 1 \/ (k = n /\ m <= n))
  BY <1>2
<1>6. CASE i = l
  <2>1. \A j \in 1 .. i - 1 : r[j] = obs[d + j] /\ d + j \in DOMAIN obs
    BY <1>2, <1>4, <1>6
  <2> QED BY <1>4, <1>5, <1>6, <2>1 DEF Plainly, Degradation!Unremarkable
<1>7. CASE i # l
  <2>1. i \in 1 .. l - 1
    BY <1>7
  <2>2. r[i] = obs[d + i] /\ d + i \in 1 .. m
    BY <1>4, <2>1
  <2>3. (d + i) + n > m
    BY <1>4, <1>5, <2>2
  <2>4. Plainly(obs, d + i)
    BY <1>2, <2>2, <2>3 DEF PlainFrom
  <2>5. ASSUME NEW j \in 1 .. i - 1 PROVE r[j] = obs[d + j] /\ d + j \in 1 .. (d + i) - 1
    <3>1. j \in 1 .. l - 1
      BY <2>1
    <3>2. d + j \in 1 .. (d + i) - 1
      BY <2>1
    <3> QED BY <1>4, <3>1, <3>2
  <2>6. /\ obs[d + i].advanced /\ ~obs[d + i].announced /\ obs[d + i].tool = 0
        /\ \A j \in 1 .. (d + i) - 1 : obs[j].hash # obs[d + i].hash
    BY <2>4 DEF Plainly
  <2>7. \A j \in 1 .. i - 1 : r[j].hash # r[i].hash
    BY <2>2, <2>5, <2>6
  <2>8. r[i].advanced /\ ~r[i].announced /\ r[i].tool = 0
    BY <2>2, <2>6
  <2> QED BY <2>7, <2>8 DEF Plainly
<1> QED BY <1>6, <1>7

(* The buffer a call works on, the agent's or a new one.                   *)
LEMMA CurrentBuffer ==
  ASSUME Monitored, NEW a \in Watched
  PROVE  LET b == Degradation!buffer(a)
         IN  /\ b = [observations |-> b.observations, last |-> b.last, tier |-> b.tier]
             /\ b.observations \in Seq(Observations) /\ Len(b.observations) <= Degradation!WindowMax
             /\ PlainFrom(b.observations, clean[a])
<1> DEFINE b == Degradation!buffer(a)
<1>1. CASE a \in DOMAIN state
  <2>1. b = state[a]
    BY <1>1 DEF Degradation!buffer
  <2> QED BY <1>1, <2>1 DEF Monitored, Buffered
<1>2. CASE a \notin DOMAIN state
  <2>1. b = Degradation!AgentBuffer_new
    BY <1>2 DEF Degradation!buffer
  <2>2. b.observations = <<>> /\ b = [observations |-> b.observations, last |-> b.last, tier |-> b.tier]
    BY <2>1 DEF Degradation!AgentBuffer_new
  <2>3. <<>> \in Seq(Observations) /\ Len(<<>>) = 0
    OBVIOUS
  <2>4. PlainFrom(<<>>, clean[a])
    BY DEF PlainFrom
  <2> HIDE DEF b
  <2>5. Len(b.observations) <= Degradation!WindowMax
    BY <2>2, <2>3, WidestWindow
  <2> QED BY <2>2, <2>3, <2>4, <2>5 DEF b
<1> QED BY <1>1, <1>2

(* A call that finishes on one agent's buffer and leaves the others.       *)
LEMMA FinishedCall ==
  ASSUME Monitored, NEW t \in Thread, NEW a \in Watched, NEW buf, NEW n \in Nat,
         Degradation!Update(a, buf), clean' = [clean EXCEPT ![a] = n],
         call' = [call EXCEPT ![t] = Degradation!NoCall], UNCHANGED cfg,
         Buffered(buf, n), Judged(buf)
  PROVE  Monitored'
<1>1. /\ cfg' \in Configs /\ DOMAIN state' \subseteq Watched
      /\ clean' \in [Watched -> Nat] /\ DOMAIN call' = Thread
  BY DEF Monitored, Degradation!Update
<1>2. ASSUME NEW u \in Thread PROVE Pending(call'[u])
  <2>1. CASE u = t
    BY <2>1 DEF Monitored, Pending
  <2>2. CASE u # t
    BY <2>2 DEF Monitored
  <2> QED BY <2>1, <2>2
<1>3. ASSUME NEW x \in DOMAIN state' PROVE Buffered(state'[x], clean'[x]) /\ Judged(state'[x])
  <2>1. CASE x = a
    <3>1. state'[x] = buf /\ clean'[x] = n
      BY <2>1 DEF Monitored, Degradation!Update
    <3> QED BY <3>1
  <2>2. CASE x # a
    <3>1. x \in DOMAIN state /\ state'[x] = state[x] /\ clean'[x] = clean[x]
      BY <2>2 DEF Monitored, Degradation!Update
    <3> QED BY <3>1 DEF Monitored
  <2> QED BY <2>1, <2>2
<1> QED BY <1>1, <1>2, <1>3 DEF Monitored, Pending, Buffered, Judged, PlainFrom, Plainly

(* observe, under the lock of the buffers.                                 *)
LEMMA ObserveStep ==
  ASSUME Monitored, NEW t \in Thread, Degradation!observe(t)
  PROVE  Monitored'
<1> DEFINE a == call[t].agent
           o == call[t].arg
           c == call[t].cfg
           old == Degradation!buffer(a).observations
           obs == Windowed(old, o, c.window)
           buf == [observations |-> obs, last |-> Degradation!scores(obs),
                   tier |-> Degradation!tier_for(Degradation!combine(Degradation!scores(obs), c), c)]
           n == IF ~Degradation!Unremarkable(o, old) THEN 0
                ELSE IF clean[a] < Degradation!WindowMax THEN clean[a] + 1 ELSE clean[a]
<1>1. a \in Watched /\ c \in Configs /\ o \in Observations
  <2>1. call[t] # Degradation!NoCall /\ call[t].op = "observe"
    BY DEF Degradation!observe, Degradation!NoCall
  <2> QED BY <2>1 DEF Monitored, Pending
<1>2. /\ Degradation!Update(a, buf) /\ clean' = [clean EXCEPT ![a] = n]
      /\ call' = [call EXCEPT ![t] = Degradation!NoCall] /\ UNCHANGED cfg
  BY DEF Degradation!observe, Windowed
<1>3. /\ old \in Seq(Observations) /\ Len(old) <= Degradation!WindowMax /\ PlainFrom(old, clean[a])
  BY <1>1, CurrentBuffer
<1>4. clean[a] \in Nat
  BY <1>1 DEF Monitored
<1>5. /\ c.window \in Nat \ {0} /\ c.window <= Degradation!WindowMax /\ Degradation!WindowMax \in Nat \ {0}
  BY <1>1, WidestWindow
<1>6. n \in Nat /\ (n = 0 \/ (Degradation!Unremarkable(o, old)
                              /\ (n = clean[a] + 1 \/ (n = clean[a] /\ Len(old) <= clean[a]))))
  <2>1. Len(old) \in Nat
    BY <1>3
  <2> HIDE DEF a, o, old
  <2>2. PICK w \in Nat : w = Degradation!WindowMax
    BY <1>5
  <2>3. PICK k \in Nat : k = clean[a]
    BY <1>4
  <2>4. PICK m \in Nat : m = Len(old) /\ m <= w
    BY <1>3, <2>1, <2>2
  <2>5. n = 0 \/ (Degradation!Unremarkable(o, old) /\ n = IF k < w THEN k + 1 ELSE k)
    BY <2>2, <2>3
  <2> HIDE DEF n
  <2>6. n = 0 \/ (Degradation!Unremarkable(o, old) /\ (n = k + 1 \/ (n = k /\ m <= k)))
    BY <2>4, <2>5
  <2> QED BY <2>3, <2>4, <2>6
<1> HIDE DEF a, o, c, old, n
<1>7. obs \in Seq(Observations) /\ Len(obs) <= c.window /\ Len(obs) \in Nat
  BY <1>1, <1>3, <1>5, WindowOf
<1>8. PlainFrom(obs, n)
  BY <1>1, <1>3, <1>4, <1>5, <1>6, ObservePlain
<1> HIDE DEF obs
<1>9. Len(obs) <= Degradation!WindowMax
  BY <1>5, <1>7
<1>10. Buffered(buf, n)
  BY <1>7, <1>8, <1>9 DEF Buffered
<1>11. Judged(buf)
  BY <1>1 DEF Judged
<1> HIDE DEF buf
<1> QED BY <1>1, <1>2, <1>6, <1>10, <1>11, FinishedCall

(* record_signal, under the lock of the buffers.                           *)
LEMMA SignalStep ==
  ASSUME Monitored, NEW t \in Thread, Degradation!record_signal(t)
  PROVE  Monitored'
<1> DEFINE a == call[t].agent
           c == call[t].cfg
           score == call[t].arg.score
           old == Degradation!buffer(a)
           last == [old.last EXCEPT ![call[t].arg.kind] = IF score[1] > score[2] THEN Degradation!One ELSE score]
           tier == Degradation!tier_for(Degradation!combine(last, c), c)
           buf == [observations |-> old.observations, last |-> last, tier |-> tier]
<1>1. a \in Watched /\ c \in Configs
  <2>1. call[t].op = "record_signal"
    BY DEF Degradation!record_signal
  <2>4. Degradation!NoCall.op # "record_signal"
    BY DEF Degradation!NoCall
  <2>2. call[t] # Degradation!NoCall
    BY <2>1, <2>4
  <2>3. Pending(call[t])
    BY DEF Monitored
  <2> QED BY <2>2, <2>3 DEF Pending
<1>2. /\ Degradation!Update(a, buf) /\ clean' = [clean EXCEPT ![a] = 0]
      /\ call' = [call EXCEPT ![t] = Degradation!NoCall] /\ UNCHANGED cfg
  BY DEF Degradation!record_signal
<1>3. /\ old = [observations |-> old.observations, last |-> old.last, tier |-> old.tier]
      /\ old.observations \in Seq(Observations) /\ Len(old.observations) <= Degradation!WindowMax
  BY <1>1, CurrentBuffer
<1> HIDE DEF a, c, old, last, tier
<1>4. buf = [observations |-> buf.observations, last |-> buf.last, tier |-> buf.tier]
  OBVIOUS
<1>5. buf.observations = old.observations /\ buf.last = last /\ buf.tier = tier
  OBVIOUS
<1> HIDE DEF buf
<1>6. PlainFrom(old.observations, 0)
  <2>1. Len(old.observations) \in Nat
    BY <1>3
  <2> QED BY <2>1 DEF PlainFrom
<1>7. Buffered(buf, 0)
  BY <1>3, <1>4, <1>5, <1>6 DEF Buffered
<1>8. Judged(buf)
  BY <1>1, <1>5 DEF Judged, tier
<1> QED BY <1>1, <1>2, <1>7, <1>8, FinishedCall

(* The invariant is about the monitor's variables,                         *)
LEMMA MonitoredOf ==
  \A f, s, n, c : f = cfg /\ s = state /\ n = clean /\ c = call =>
    (Monitored <=> /\ f \in Configs /\ DOMAIN s \subseteq Watched
                   /\ n \in [Watched -> Nat] /\ DOMAIN c = Thread
                   /\ \A t \in Thread : Pending(c[t])
                   /\ \A a \in DOMAIN s : Buffered(s[a], n[a]) /\ Judged(s[a]))
BY DEF Monitored

(* and so it is in the next state.                                         *)
LEMMA MonitoredOfNext ==
  (\A f, s, n, c : f = cfg /\ s = state /\ n = clean /\ c = call =>
     (Monitored <=> /\ f \in Configs /\ DOMAIN s \subseteq Watched
                    /\ n \in [Watched -> Nat] /\ DOMAIN c = Thread
                    /\ \A t \in Thread : Pending(c[t])
                    /\ \A a \in DOMAIN s : Buffered(s[a], n[a]) /\ Judged(s[a])))'
BY MonitoredOf, PTL

(* A step of the monitor that leaves the buffers it keeps alone.           *)
LEMMA KeptBuffers ==
  ASSUME Monitored, cfg' \in Configs, DOMAIN call' = Thread, \A t \in Thread : Pending(call'[t]),
         clean' \in [Watched -> Nat], DOMAIN state' \subseteq DOMAIN state,
         \A x \in DOMAIN state' : state'[x] = state[x] /\ clean'[x] = clean[x]
  PROVE  Monitored'
<1>1. DOMAIN state' \subseteq Watched
  BY DEF Monitored
<1>2. \A x \in DOMAIN state' : Buffered(state'[x], clean'[x]) /\ Judged(state'[x])
  BY DEF Monitored
<1> QED BY <1>1, <1>2, MonitoredOfNext

(* The monitor's invariant is inductive.                                   *)
LEMMA MonitorInvariant == Degradation!Spec => []Monitored
<1>1. Degradation!Init => Monitored
  BY DEF Degradation!Init, Monitored, Pending
<1>2. ASSUME Monitored, [Degradation!Next]_(Degradation!vars) PROVE Monitored'
  <2>1. ASSUME NEW c \in Configs, Degradation!set_thresholds(c) PROVE Monitored'
    <3>1. cfg' \in Configs /\ UNCHANGED <<state, call, clean>>
      BY <2>1 DEF Degradation!set_thresholds
    <3> QED BY <1>2, <3>1, KeptBuffers DEF Monitored
  <2>2. ASSUME NEW t \in Thread, NEW a \in Watched, NEW op, NEW arg, Degradation!read_cfg(t, op, a, arg),
               (op = "observe" /\ arg \in Observations) \/ op = "record_signal"
        PROVE  Monitored'
    <3> DEFINE new == [op |-> op, agent |-> a, arg |-> arg, cfg |-> cfg]
    <3>1. call' = [call EXCEPT ![t] = new] /\ UNCHANGED <<cfg, state, clean>>
      BY <2>2 DEF Degradation!read_cfg
    <3>2. Pending(new)
      BY <1>2, <2>2 DEF Pending, Monitored
    <3> HIDE DEF new
    <3>3. DOMAIN call' = Thread /\ \A u \in Thread : Pending(call'[u])
      BY <1>2, <3>1, <3>2 DEF Monitored
    <3> QED BY <1>2, <3>1, <3>3, KeptBuffers DEF Monitored
  <2>3. ASSUME NEW t \in Thread, Degradation!observe(t) PROVE Monitored'
    BY <1>2, <2>3, ObserveStep
  <2>4. ASSUME NEW t \in Thread, Degradation!record_signal(t) PROVE Monitored'
    BY <1>2, <2>4, SignalStep
  <2>5. ASSUME NEW a \in Watched, Degradation!forget(a) PROVE Monitored'
    <3>1. /\ UNCHANGED <<cfg, call>> /\ clean' \in [Watched -> Nat] /\ DOMAIN state' \subseteq DOMAIN state
          /\ \A x \in DOMAIN state' : state'[x] = state[x] /\ clean'[x] = clean[x]
      BY <1>2, <2>5 DEF Degradation!forget, Monitored
    <3> QED BY <1>2, <3>1, KeptBuffers DEF Monitored
  <2>6. CASE UNCHANGED Degradation!vars
    BY <1>2, <2>6, KeptBuffers DEF Degradation!vars, Monitored
  <2> QED BY <1>2, <2>1, <2>2, <2>3, <2>4, <2>5, <2>6 DEF Degradation!Next
<1> QED BY <1>1, <1>2, PTL DEF Degradation!Spec

(* The tier the monitor recommends: after a window of unremarkable         *)
(* observations, and while all signals stay under their gates, it is the   *)
(* tier of a score of zero, however observe and record_signal overlap with *)
(* a change of the thresholds between their two locks                      *)
(* (NoResponseWithoutCause), for every set of configurations that          *)
(* validate_config accepts and any number of agents and threads.           *)
THEOREM ResponsesHaveCause == Degradation!Spec => []NoResponseWithoutCause
<1>1. ASSUME Monitored, NEW a \in DOMAIN state, clean[a] >= Degradation!WindowMax
      PROVE  \E c \in Configs : state[a].tier = Degradation!tier_for(Degradation!Zero, c)
  <2> DEFINE obs == state[a].observations
  <2>1. /\ clean[a] \in Nat /\ Buffered(state[a], clean[a]) /\ Judged(state[a])
        /\ Degradation!WindowMax \in Nat \ {0}
    BY <1>1, WidestWindow DEF Monitored
  <2>8. PICK n \in Nat : n = clean[a] /\ n >= Degradation!WindowMax /\ n > 0
    BY <1>1, <2>1
  <2>2. /\ obs \in Seq(Observations) /\ Len(obs) <= Degradation!WindowMax /\ Len(obs) \in Nat
        /\ PlainFrom(obs, n) /\ state[a].last = Degradation!scores(obs)
    <3>1. Buffered(state[a], n)
      BY <2>1, <2>8
    <3>2. obs \in Seq(Observations) /\ Len(obs) <= Degradation!WindowMax /\ PlainFrom(obs, n)
      BY <3>1 DEF Buffered
    <3>3. state[a].last = Degradation!scores(obs)
      BY <2>8, <3>1 DEF Buffered
    <3>4. Len(obs) \in Nat
      BY <3>2
    <3> QED BY <3>2, <3>3, <3>4
  <2>3. PICK c \in Configs : state[a].tier = Degradation!tier_for(Degradation!combine(state[a].last, c), c)
    BY <2>1 DEF Judged
  <2> HIDE DEF obs
  <2>4. \A i \in 1 .. Len(obs) : Plainly(obs, i)
    <3>1. \A i \in 1 .. Len(obs) : i + n > Len(obs)
      BY <2>1, <2>2, <2>8
    <3> QED BY <2>2, <3>1 DEF PlainFrom
  <2>5. \A k \in Degradation!SignalKind : IsZero(state[a].last[k])
    BY <2>2, <2>4, PlainScores
  <2>6. \A k \in Degradation!SignalKind : c[k] \in 0 .. 10
    BY MonitorParameters DEF Degradation!ConfigAssumption
  <2>7. \A k \in Degradation!SignalKind : IsZero(Degradation!contrib(state[a].last[k], c[k]))
    BY <2>5, <2>6, ZeroContrib
  <2> QED BY <2>3, <2>7, NoExcess
<1>2. ASSUME Monitored, NEW a \in DOMAIN state,
             \A k \in Degradation!SignalKind, c \in Configs : 10 * state[a].last[k][1] < c[k] * state[a].last[k][2]
      PROVE  \E c \in Configs : state[a].tier = Degradation!tier_for(Degradation!Zero, c)
  <2>1. PICK c \in Configs : state[a].tier = Degradation!tier_for(Degradation!combine(state[a].last, c), c)
    BY <1>2 DEF Monitored, Judged
  <2>2. \A k \in Degradation!SignalKind : Degradation!contrib(state[a].last[k], c[k]) = Degradation!Zero
    BY <1>2 DEF Degradation!contrib
  <2>3. IsZero(Degradation!Zero)
    BY DEF IsZero, Degradation!Zero
  <2> QED BY <2>1, <2>2, <2>3, NoExcess
<1>3. Monitored => NoResponseWithoutCause
  BY <1>1, <1>2 DEF NoResponseWithoutCause, Degradation!NoResponseWithoutCause
<1> QED BY <1>3, MonitorInvariant, PTL
=============================================================================
