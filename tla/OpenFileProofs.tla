--------------------------- MODULE OpenFileProofs ---------------------------
(***************************************************************************)
(* Shared file handles, for any number of threads and handles.             *)
(***************************************************************************)
EXTENDS OpenFile, TLAPS

(***************************************************************************)
(* Open handles.  A handle's lock is held by one thread, and a thread that *)
(* holds it has read the offset as it still is; so an advance of the       *)
(* offset counts from where the last one, or the last seek, left it.       *)
(***************************************************************************)
InCall(c) ==
  /\ c = [pc |-> c.pc, h |-> c.h, n |-> c.n, at |-> c.at]
  /\ c.pc \in {"size", "write", "read"} /\ c.h \in Handle /\ c.n \in Nat
  /\ c.at = offset[c.h] /\ (c.pc = "size" => c.h \in Appending)

Offsets ==
  /\ offset \in [Handle -> Nat] /\ moved \in [Handle -> Int] /\ data \in Seq(Thread \cup {0})
  /\ DOMAIN th = Thread
  /\ \A t \in Thread : th[t] = Idle \/ InCall(th[t])
  /\ \A t, u \in Thread : t # u /\ th[t] # Idle /\ th[u] # Idle => th[t].h # th[u].h
  /\ \A h \in Handle \ Appending : offset[h] = moved[h]

(* The bytes after a call of the filesystem are a file again.              *)
LEMMA FileBytes ==
  ASSUME NEW n \in Nat, NEW f, f = [i \in 1 .. n |-> f[i]], \A i \in 1 .. n : f[i] \in Thread \cup {0}
  PROVE  f \in Seq(Thread \cup {0})
OBVIOUS

(* fs_write. *)
LEMMA WrittenBytes ==
  ASSUME Offsets, NEW off \in Nat, NEW n \in Nat, NEW t \in Thread
  PROVE  fs_write(off, n, t) \in Seq(Thread \cup {0})
<1> DEFINE f == fs_write(off, n, t)
           length == IF Len(data) < off + n THEN off + n ELSE Len(data)
<1>1. length \in Nat /\ Len(data) \in Nat /\ \A i \in 1 .. Len(data) : data[i] \in Thread \cup {0}
  BY DEF Offsets
<1>2. f = [i \in 1 .. length |-> IF i > off /\ i <= off + n THEN t ELSE IF i <= Len(data) THEN data[i] ELSE 0]
  BY DEF fs_write
<1> HIDE DEF f, length
<1>3. \A i \in 1 .. length : f[i] \in Thread \cup {0}
  BY <1>1, <1>2
<1>4. f = [i \in 1 .. length |-> f[i]]
  BY <1>2
<1> QED BY <1>1, <1>3, <1>4, FileBytes DEF f

(* truncate. *)
LEMMA ResizedBytes ==
  ASSUME Offsets, NEW n \in Nat
  PROVE  resize(n) \in Seq(Thread \cup {0})
<1> DEFINE f == resize(n)
<1>1. Len(data) \in Nat /\ \A i \in 1 .. Len(data) : data[i] \in Thread \cup {0}
  BY DEF Offsets
<1>2. f = [i \in 1 .. n |-> IF i <= Len(data) THEN data[i] ELSE 0]
  BY DEF resize
<1> HIDE DEF f
<1>3. \A i \in 1 .. n : f[i] \in Thread \cup {0}
  BY <1>1, <1>2
<1>4. f = [i \in 1 .. n |-> f[i]]
  BY <1>2
<1> QED BY <1>3, <1>4, FileBytes DEF f

(* A step that leaves the offsets and who holds which lock.                *)
LEMMA OffsetsKept ==
  ASSUME Offsets, data' \in Seq(Thread \cup {0}), UNCHANGED <<offset, moved, th>>
  PROVE  Offsets'
BY DEF Offsets, InCall

(* File::read and File::write take the lock and read the offset.           *)
LEMMA LockStep ==
  ASSUME Offsets, NEW t \in Thread, NEW h \in Handle, NEW pc \in {"size", "write", "read"}, NEW n \in Nat,
         lock(t, h, pc, n), pc = "size" => h \in Appending
  PROVE  Offsets'
<1> DEFINE c == [pc |-> pc, h |-> h, n |-> n, at |-> offset[h]]
<1>1. /\ th[t] = Idle /\ (\A u \in Thread : th[u] # Idle => th[u].h # h)
      /\ th' = [th EXCEPT ![t] = c] /\ UNCHANGED <<data, offset, moved>>
  BY DEF lock, Unlocked
<1>2. c = [pc |-> c.pc, h |-> c.h, n |-> c.n, at |-> c.at] /\ c.pc = pc /\ c.h = h /\ c.n = n /\ c.at = offset[h]
  OBVIOUS
<1> HIDE DEF c
<1>3. th'[t] = c /\ \A u \in Thread : u # t => th'[u] = th[u]
  BY <1>1 DEF Offsets
<1>4. ASSUME NEW u \in Thread PROVE th'[u] = Idle \/ InCall(th[u])'
  <2>1. CASE u = t
    BY <1>1, <1>2, <1>3, <2>1 DEF InCall
  <2>2. CASE u # t
    BY <1>1, <1>3, <2>2 DEF InCall, Offsets
  <2> QED BY <2>1, <2>2
<1>5. ASSUME NEW u \in Thread, NEW v \in Thread, u # v, th'[u] # Idle, th'[v] # Idle
      PROVE  th'[u].h # th'[v].h
  <2>1. CASE u = t
    BY <1>1, <1>2, <1>3, <1>5, <2>1
  <2>2. CASE v = t
    BY <1>1, <1>2, <1>3, <1>5, <2>2
  <2>3. CASE u # t /\ v # t
    BY <1>3, <1>5, <2>3 DEF Offsets
  <2> QED BY <2>1, <2>2, <2>3
<1>6. DOMAIN th' = Thread
  BY <1>1 DEF Offsets
<1>7. \A u \in Thread : th'[u] = Idle \/ InCall(th[u])'
  BY <1>4
<1> QED BY <1>1, <1>5, <1>6, <1>7 DEF Offsets, Idle

(* The end of a call: the thread lets go of the lock with the offset it    *)
(* advanced, and the history with it.                                      *)
LEMMA UnlockStep ==
  ASSUME Offsets, NEW t \in Thread, th[t] # Idle, NEW n \in Nat,
         data' \in Seq(Thread \cup {0}), Unlock(t),
         \/ UNCHANGED <<offset, moved>>
         \/ /\ offset' = [offset EXCEPT ![th[t].h] = th[t].at + n]
            /\ moved' = Move(th[t].h, n)
  PROVE  Offsets'
<1>1. th'[t] = Idle /\ DOMAIN th' = Thread /\ \A u \in Thread : u # t => th'[u] = th[u]
  BY DEF Offsets, Unlock
<1>2. PICK h \in Handle : h = th[t].h
  BY DEF Offsets, InCall
<1>3. th[t].at = offset[h]
  BY <1>2 DEF Offsets, InCall
<1>4. /\ offset' \in [Handle -> Nat] /\ moved' \in [Handle -> Int]
      /\ \A x \in Handle : x # h => offset'[x] = offset[x]
      /\ \A x \in Handle \ Appending : offset'[x] = moved'[x]
  <2>1. CASE UNCHANGED <<offset, moved>>
    BY <2>1 DEF Offsets
  <2>2. CASE ~UNCHANGED <<offset, moved>>
    <3>1. /\ offset' = [offset EXCEPT ![h] = offset[h] + n]
          /\ moved' = [moved EXCEPT ![h] = IF h \in Appending THEN moved[h] ELSE moved[h] + n]
      BY <1>2, <1>3, <2>2 DEF Move
    <3>2. offset \in [Handle -> Nat] /\ moved \in [Handle -> Int]
          /\ \A x \in Handle \ Appending : offset[x] = moved[x]
      BY DEF Offsets
    <3> QED BY <3>1, <3>2
  <2> QED BY <2>1, <2>2
<1>5. ASSUME NEW u \in Thread, th'[u] # Idle PROVE InCall(th[u])'
  <2>1. u # t /\ th'[u] = th[u] /\ th[u].h # h /\ InCall(th[u])
    BY <1>1, <1>2, <1>5 DEF Offsets
  <2> QED BY <1>4, <2>1 DEF InCall
<1>6. ASSUME NEW u \in Thread, NEW v \in Thread, u # v, th'[u] # Idle, th'[v] # Idle
      PROVE  th'[u].h # th'[v].h
  <2>1. u # t /\ v # t /\ th'[u] = th[u] /\ th'[v] = th[v]
    BY <1>1, <1>6
  <2>2. \A x, y \in Thread : x # y /\ th[x] # Idle /\ th[y] # Idle => th[x].h # th[y].h
    BY DEF Offsets
  <2>3. th[u].h # th[v].h
    BY <1>6, <2>1, <2>2
  <2> QED BY <2>1, <2>3
<1> QED BY <1>1, <1>4, <1>5, <1>6 DEF Offsets, Idle

(* size moves the offset of an append handle to the end of the file.       *)
LEMMA SizeStep ==
  ASSUME Offsets, NEW t \in Thread, size(t)
  PROVE  Offsets'
<1> DEFINE c == [pc |-> "write", h |-> th[t].h, n |-> th[t].n, at |-> Len(data)]
<1>1. PICK h \in Handle : h = th[t].h /\ th[t].n \in Nat /\ th[t] # Idle /\ h \in Appending
  BY DEF Offsets, InCall, size, Idle
<1>2. /\ th' = [th EXCEPT ![t] = c] /\ UNCHANGED <<data, moved>>
      /\ offset' = [offset EXCEPT ![h] = Len(data)]
  BY <1>1 DEF size
<1>3. /\ c = [pc |-> c.pc, h |-> c.h, n |-> c.n, at |-> c.at] /\ c.pc = "write" /\ c.h = h
      /\ c.n \in Nat /\ c.at = Len(data)
  BY <1>1
<1> HIDE DEF c
<1>4. th'[t] = c /\ DOMAIN th' = Thread /\ \A u \in Thread : u # t => th'[u] = th[u]
  BY <1>2 DEF Offsets
<1>5. Len(data) \in Nat
  BY DEF Offsets
<1>6. offset' \in [Handle -> Nat] /\ offset'[h] = Len(data) /\ \A x \in Handle : x # h => offset'[x] = offset[x]
  BY <1>2, <1>5 DEF Offsets
<1>7. \A x \in Handle \ Appending : offset'[x] = moved'[x]
  BY <1>1, <1>2, <1>6 DEF Offsets
<1>8. ASSUME NEW u \in Thread, th'[u] # Idle PROVE InCall(th[u])'
  <2>1. CASE u = t
    BY <1>3, <1>4, <1>6, <2>1 DEF InCall
  <2>2. CASE u # t
    <3>1. th'[u] = th[u] /\ th[u].h # h /\ InCall(th[u])
      BY <1>1, <1>4, <1>8, <2>2 DEF Offsets
    <3> QED BY <1>6, <3>1 DEF InCall
  <2> QED BY <2>1, <2>2
<1>9. ASSUME NEW u \in Thread, NEW v \in Thread, u # v, th'[u] # Idle, th'[v] # Idle
      PROVE  th'[u].h # th'[v].h
  <2>1. \A w \in Thread : th'[w] # Idle => th[w] # Idle /\ th'[w].h = th[w].h
    BY <1>1, <1>3, <1>4
  <2> QED BY <1>9, <2>1 DEF Offsets
<1> QED BY <1>2, <1>4, <1>6, <1>7, <1>8, <1>9 DEF Offsets, Idle

(* seek sets the offset under the handle's lock.                           *)
LEMMA SeekStep ==
  ASSUME Offsets, NEW t \in Thread, NEW h \in Handle, NEW whence \in {"Start", "End", "Current"}, NEW d \in Int,
         seek(t, h, whence, d)
  PROVE  Offsets'
<1> DEFINE base == [Start |-> 0, End |-> Len(data), Current |-> offset[h]]
<1>1. base[whence] \in Nat
  BY DEF Offsets
<1>2. PICK new \in Int : new = base[whence] + d
  BY <1>1
<1>3. /\ new \in Nat /\ UNCHANGED <<data, th>>
      /\ offset' = [offset EXCEPT ![h] = new]
      /\ moved' = [moved EXCEPT ![h] = IF h \in Appending THEN moved[h] ELSE new]
      /\ \A u \in Thread : th[u] # Idle => th[u].h # h
  BY <1>2 DEF seek, seek_error, Unlocked
<1>4. /\ offset' \in [Handle -> Nat] /\ moved' \in [Handle -> Int]
      /\ \A x \in Handle : x # h => offset'[x] = offset[x]
  BY <1>3 DEF Offsets
<1>5. \A x \in Handle \ Appending : offset'[x] = moved'[x]
  BY <1>3 DEF Offsets
<1>6. ASSUME NEW u \in Thread, th'[u] # Idle PROVE InCall(th[u])'
  BY <1>3, <1>4, <1>6 DEF Offsets, InCall
<1> QED BY <1>3, <1>4, <1>5, <1>6 DEF Offsets, Idle

(* The invariant is inductive.                                             *)
LEMMA OffsetsInvariant == ASSUME OpenFileAssumption PROVE Spec => []Offsets
<1> USE DEF OpenFileAssumption
<1>1. Init => Offsets
  BY DEF Init, Offsets
<1>2. ASSUME Offsets, [Next]_(vars) PROVE Offsets'
  <2>1. ASSUME NEW t \in Thread, NEW h \in Handle, NEW n \in 1 .. 2, File_read(t, h, n) PROVE Offsets'
    BY <1>2, <2>1, LockStep DEF File_read
  <2>2. ASSUME NEW t \in Thread, NEW h \in Handle, NEW n \in 1 .. 2, File_write(t, h, n) PROVE Offsets'
    <3>1. PICK pc \in {"size", "write", "read"} :
            lock(t, h, pc, n) /\ (pc = "size" => h \in Appending)
      BY <2>2 DEF File_write
    <3> QED BY <1>2, <3>1, LockStep
  <2>3. ASSUME NEW t \in Thread, NEW h \in Handle, NEW off \in Size, write_at(t, h, off, 1) PROVE Offsets'
    <3>1. off \in Nat /\ data' = fs_write(off, 1, t) /\ UNCHANGED <<offset, moved, th>>
      BY <2>3 DEF write_at, Size
    <3> QED BY <1>2, <3>1, WrittenBytes, OffsetsKept
  <2>4. ASSUME NEW t \in Thread, NEW h \in Handle, NEW off \in Size, truncate(t, h, off) PROVE Offsets'
    <3>1. off \in Nat /\ data' = resize(off) /\ UNCHANGED <<offset, moved, th>>
      BY <2>4 DEF truncate, Size
    <3> QED BY <1>2, <3>1, ResizedBytes, OffsetsKept
  <2>5. ASSUME NEW t \in Thread, NEW h \in Handle, NEW off \in Size, seek(t, h, "Start", off) PROVE Offsets'
    <3>1. off \in Int
      BY DEF Size
    <3> QED BY <1>2, <2>5, <3>1, SeekStep
  <2>6. ASSUME NEW t \in Thread, NEW h \in Handle, NEW d \in -1 .. 1, NEW whence \in {"End", "Current"},
               seek(t, h, whence, d)
        PROVE  Offsets'
    BY <1>2, <2>6, SeekStep
  <2>7. ASSUME NEW t \in Thread, read(t) PROVE Offsets'
    <3>1. th[t] # Idle /\ th[t].at \in Nat /\ th[t].n \in Nat /\ Len(data) \in Nat /\ data \in Seq(Thread \cup {0})
      BY <1>2, <2>7 DEF read, Idle, Offsets, InCall
    <3>2. PICK n \in Nat : n = read_len(th[t].at, th[t].n)
      BY <3>1 DEF read_len
    <3>3. /\ offset' = [offset EXCEPT ![th[t].h] = th[t].at + n] /\ moved' = Move(th[t].h, n)
          /\ Unlock(t) /\ UNCHANGED data
      BY <2>7, <3>2 DEF read
    <3> QED BY <1>2, <3>1, <3>3, UnlockStep
  <2>8. ASSUME NEW t \in Thread, size(t) PROVE Offsets'
    BY <1>2, <2>8, SizeStep
  <2>9. ASSUME NEW t \in Thread, write(t) PROVE Offsets'
    <3>1. th[t] # Idle /\ th[t].at \in Nat
      BY <1>2, <2>9 DEF write, Idle, Offsets, InCall
    <3>2. PICK n \in Nat : n = th[t].n
      BY <1>2, <3>1 DEF Offsets, InCall
    <3>3. /\ offset' = [offset EXCEPT ![th[t].h] = th[t].at + n] /\ moved' = Move(th[t].h, n)
          /\ Unlock(t) /\ data' = fs_write(th[t].at, n, t)
      BY <2>9, <3>2 DEF write
    <3>4. data' \in Seq(Thread \cup {0})
      BY <1>2, <3>1, <3>3, WrittenBytes
    <3> QED BY <1>2, <3>1, <3>3, <3>4, UnlockStep
  <2>10. ASSUME NEW t \in Thread, Fail(t) PROVE Offsets'
    <3>1. th[t] # Idle /\ Unlock(t) /\ UNCHANGED <<data, offset, moved>>
      BY <2>10 DEF Fail
    <3>2. data \in Seq(Thread \cup {0}) /\ 0 \in Nat
      BY <1>2 DEF Offsets
    <3> QED BY <1>2, <3>1, <3>2, UnlockStep
  <2>11. CASE unlink
    BY <1>2, <2>11, OffsetsKept DEF unlink, Offsets
  <2>12. CASE UNCHANGED vars
    BY <1>2, <2>12, OffsetsKept DEF vars, Offsets
  <2> QED BY <1>2, <2>1, <2>2, <2>3, <2>4, <2>5, <2>6, <2>7, <2>8, <2>9, <2>10, <2>11, <2>12 DEF Next
<1> QED BY <1>1, <1>2, PTL DEF Spec

(* "a File shared between kernel threads (or duped fds) reads/writes       *)
(* coherently": no transfer through a shared handle is lost or counted     *)
(* twice (SharedOffsetExact), for any number of threads and handles.       *)
THEOREM OffsetsExact == ASSUME OpenFileAssumption PROVE Spec => []SharedOffsetExact
<1>1. Offsets => SharedOffsetExact
  BY DEF Offsets, SharedOffsetExact
<1> QED BY <1>1, OffsetsInvariant, PTL
=============================================================================
