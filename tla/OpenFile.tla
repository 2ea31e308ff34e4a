------------------------------- MODULE OpenFile -------------------------------
(***************************************************************************)
(* Open file handles (struct File of fs/vfs.rs) on one regular file of     *)
(* ramfs.  A handle's offset has its own lock, held across the calls into  *)
(* the filesystem; each of those calls is one acquisition of the           *)
(* filesystem's mutex.                                                     *)
(*                                                                         *)
(* A byte is the thread that wrote it, or 0 for zero-extension.  MaxSize   *)
(* bounds the file and the offsets.                                        *)
(***************************************************************************)
EXTENDS Integers, Sequences

CONSTANTS
  Thread, Handle,
  Readable, Writable, Appending,   \* handles opened with these flags
  Positioned,                      \* whether seek, write_at and truncate are called
  MaxSize

OpenFileAssumption ==
  /\ Readable \subseteq Handle /\ Writable \subseteq Handle /\ Appending \subseteq Handle
  /\ Positioned \in BOOLEAN /\ MaxSize \in Nat /\ Thread \cap {0} = {}

VARIABLES
  data,       \* the node's bytes
  exists,     \* the inode is still in the table
  offset,     \* per handle: File.offset
  th,         \* per thread: the call holding a handle's lock, or idle
  moved,      \* history, per handle not in append mode: last seek position plus bytes transferred since
  appended    \* history: bytes written, when every handle appends

vars == <<data, exists, offset, th, moved, appended>>

Idle == [pc |-> "idle"]
Size == 0 .. MaxSize

Init ==
  /\ data = <<>> /\ exists = TRUE
  /\ offset = [h \in Handle |-> 0]
  /\ th = [t \in Thread |-> Idle]
  /\ moved = [h \in Handle |-> 0]
  /\ appended = 0

TypeOK ==
  /\ data \in Seq(Thread \cup {0}) /\ Len(data) \in Size /\ exists \in BOOLEAN
  /\ offset \in [Handle -> Size]
  /\ \A t \in Thread : th[t] = Idle \/ (th[t].pc \in {"size", "write", "read"} /\ th[t].h \in Handle)

-----------------------------------------------------------------------------
(* The node: ramfs read, write, truncate. *)

read_len(off, n) == IF off >= Len(data) THEN 0 ELSE IF n < Len(data) - off THEN n ELSE Len(data) - off

resize(n) == [i \in 1 .. n |-> IF i <= Len(data) THEN data[i] ELSE 0]

fs_write(off, n, byte) ==
  [i \in 1 .. (IF Len(data) < off + n THEN off + n ELSE Len(data)) |->
     IF i > off /\ i <= off + n THEN byte ELSE IF i <= Len(data) THEN data[i] ELSE 0]

-----------------------------------------------------------------------------
Unlocked(h) == \A t \in Thread : th[t] # Idle => th[t].h # h
Unlock(t) == th' = [th EXCEPT ![t] = Idle]

\* Bug: the offset is read without holding its lock.
lock_shared(t, h, pc, n) ==
  /\ th[t] = Idle
  /\ th' = [th EXCEPT ![t] = [pc |-> pc, h |-> h, n |-> n, at |-> offset[h]]]
  /\ UNCHANGED <<data, exists, offset, moved, appended>>

lock(t, h, pc, n) ==
  /\ th[t] = Idle /\ Unlocked(h)
  /\ th' = [th EXCEPT ![t] = [pc |-> pc, h |-> h, n |-> n, at |-> offset[h]]]
  /\ UNCHANGED <<data, exists, offset, moved, appended>>

\* The calls up to the first use of the filesystem; without the flag they
\* return PermissionDenied and change nothing.
File_read(t, h, n) == h \in Readable /\ lock(t, h, "read", n)
File_write(t, h, n) == h \in Writable /\ lock(t, h, IF h \in Appending THEN "size" ELSE "write", n)

\* `?` leaves the call and releases the lock when the inode is gone.
Fail(t) == ~exists /\ th[t] # Idle /\ Unlock(t) /\ UNCHANGED <<data, exists, offset, moved, appended>>

Move(h, n) == [moved EXCEPT ![h] = IF h \in Appending THEN @ ELSE @ + n]

\* fs.read and the advance of the offset.
read(t) ==
  /\ th[t].pc = "read" /\ exists
  /\ LET h == th[t].h
         n == read_len(th[t].at, th[t].n)
     IN  /\ offset' = [offset EXCEPT ![h] = th[t].at + n]
         /\ moved' = Move(h, n)
  /\ Unlock(t)
  /\ UNCHANGED <<data, exists, appended>>

\* append: the offset becomes the size of the file.
size(t) ==
  /\ th[t].pc = "size" /\ exists
  /\ offset' = [offset EXCEPT ![th[t].h] = Len(data)]
  /\ th' = [th EXCEPT ![t] = [pc |-> "write", h |-> th[t].h, n |-> th[t].n, at |-> Len(data)]]
  /\ UNCHANGED <<data, exists, moved, appended>>

write(t) ==
  /\ th[t].pc = "write" /\ exists
  /\ LET h == th[t].h
         n == th[t].n
     IN  /\ th[t].at + n <= MaxSize
         /\ data' = fs_write(th[t].at, n, t)
         /\ offset' = [offset EXCEPT ![h] = th[t].at + n]
         /\ moved' = Move(h, n)
         /\ appended' = IF Appending = Handle THEN appended + n ELSE appended
  /\ Unlock(t)
  /\ UNCHANGED exists

\* write_at does not touch the offset or its lock.
write_at(t, h, off, n) ==
  /\ Positioned /\ th[t] = Idle /\ h \in Writable /\ exists /\ off + n <= MaxSize
  /\ data' = fs_write(off, n, t)
  /\ UNCHANGED <<exists, offset, th, moved, appended>>

seek_error(new) == new < 0

\* Start, End and Current; End reads the size while the offset is locked.
seek(t, h, whence, d) ==
  /\ Positioned /\ th[t] = Idle /\ Unlocked(h)
  /\ whence = "End" => exists
  /\ LET base == [Start |-> 0, End |-> Len(data), Current |-> offset[h]]
         new == base[whence] + d
     IN  /\ ~seek_error(new) /\ new <= MaxSize
         /\ offset' = [offset EXCEPT ![h] = new]
         /\ moved' = [moved EXCEPT ![h] = IF h \in Appending THEN @ ELSE new]
  /\ UNCHANGED <<data, exists, th, appended>>

truncate(t, h, n) ==
  /\ Positioned /\ th[t] = Idle /\ h \in Writable /\ exists
  /\ data' = resize(n)
  /\ UNCHANGED <<exists, offset, th, moved, appended>>

\* The file is removed by path while it is open.
unlink ==
  /\ exists /\ exists' = FALSE
  /\ UNCHANGED <<data, offset, th, moved, appended>>

Next ==
  \/ \E t \in Thread, h \in Handle :
       \/ \E n \in 1 .. 2 : File_read(t, h, n) \/ File_write(t, h, n)
       \/ \E off \in Size : write_at(t, h, off, 1) \/ truncate(t, h, off) \/ seek(t, h, "Start", off)
       \/ \E d \in -1 .. 1, whence \in {"End", "Current"} : seek(t, h, whence, d)
  \/ \E t \in Thread : read(t) \/ size(t) \/ write(t) \/ Fail(t)
  \/ unlink

Spec == Init /\ [][Next]_vars

-----------------------------------------------------------------------------
\* "a `File` shared between kernel threads (or duped fds) reads/writes
\* coherently": the offset of a handle that is not in append mode is where
\* the last seek put it plus every byte any thread has since transferred
\* through it; no transfer is counted twice or lost.
SharedOffsetExact ==
  \A h \in Handle \ Appending : Unlocked(h) => offset[h] = moved[h]

\* "Re-read the file size on every append so concurrent writers are
\* observed": with append handles only, no append overwrites another's bytes.
AppendsKept ==
  Appending = Handle => Len(data) = appended
=============================================================================
