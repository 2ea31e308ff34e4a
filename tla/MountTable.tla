----------------------------- MODULE MountTable -----------------------------
(***************************************************************************)
(* The mount table of fs/vfs.rs: mount, unmount, the choice of a mount in  *)
(* resolve, and the operations that resolve twice.  The table is matched   *)
(* by its characters, so a path is a sequence of them.  The walk inside    *)
(* the filesystem that resolve chose is in Vfs; here a node is the names   *)
(* that lead to it from the root of its filesystem, and any but the root   *)
(* may be missing.                                                         *)
(***************************************************************************)
EXTENDS Naturals, Sequences, SequencesExt

CONSTANTS
  Caller,      \* kernel threads in open or rename
  Fs, RootFs,  \* filesystems (Arc<dyn FileSystem>); RootFs is fs::init's RamFs
  MountPoint,  \* paths given to mount and unmount
  CallPath,    \* paths given to open and rename
  MountPath,   \* absolute paths whose mount is compared with the longest one
  MAX_MOUNTS

VARIABLES
  mounts,       \* Vfs.mounts, in order
  initialized,  \* INITIALIZED
  step          \* per caller: the operation between two of its lock acquisitions, and
                \* whether the table is still as it was when the operation began (stable)

mountVars == <<mounts, initialized, step>>

Slash == <<"/">>
Done == [pc |-> "done"]

Init ==
  /\ mounts = <<>>
  /\ initialized = FALSE
  /\ step = [t \in Caller |-> Done]

TypeOK ==
  /\ Len(mounts) <= MAX_MOUNTS
  /\ \A i \in DOMAIN mounts : mounts[i].fs \in Fs
  /\ initialized \in BOOLEAN
  /\ \A t \in Caller : step[t].pc \in {"done", "missing", "made", "from", "both", "renamed"}

-----------------------------------------------------------------------------
(* Path helpers. *)

IsAbsolute(p) == p # <<>> /\ Head(p) = "/"
Drop(p, n) == SubSeq(p, n + 1, Len(p))

trim_end_matches(p) == SubSeq(p, 1, SelectLastInSeq(p, LAMBDA c : c # "/"))

normalize_mount_path(p) == IF p = Slash THEN p ELSE trim_end_matches(p)

\* Bug: the character after the prefix is not looked at.
path_starts_with_mount_anywhere(path, mount) == mount = Slash \/ IsPrefix(mount, path)

path_starts_with_mount(path, mount) ==
  \/ mount = Slash
  \/ IsPrefix(mount, path) /\ (Len(path) = Len(mount) \/ path[Len(mount) + 1] = "/")

\* Bug: trailing slashes are left on the path.
split_parent_untrimmed(path) ==
  LET cut == SelectLastInSeq(path, LAMBDA c : c = "/")
  IN  [parent |-> IF cut = 1 THEN Slash ELSE SubSeq(path, 1, cut - 1), name |-> Drop(path, cut)]

\* The last slash of the trimmed path separates parent and name.
split_parent_error(path) == IF ~IsAbsolute(path) \/ trim_end_matches(path) = <<>> THEN "InvalidPath" ELSE "Ok"
split_parent(path) ==
  LET trimmed == trim_end_matches(path)
      cut == SelectLastInSeq(trimmed, LAMBDA c : c = "/")
  IN  [parent |-> IF cut = 1 THEN Slash ELSE SubSeq(trimmed, 1, cut - 1), name |-> Drop(trimmed, cut)]

\* The names the walk looks up, one after the other.
components(rel) ==
  LET cut(acc, c) == IF c # "/" THEN [acc EXCEPT !.name = Append(@, c)]
                     ELSE [done |-> IF acc.name \in {<<>>, <<".">>} THEN acc.done ELSE Append(acc.done, acc.name),
                           name |-> <<>>]
  IN  FoldLeft(cut, [done |-> <<>>, name |-> <<>>], Append(rel, "/")).done

\* The mount resolve uses: the longest that matches, the last of equals; 0 for none.
mount_of(path) ==
  LET matching == {i \in DOMAIN mounts : path_starts_with_mount(path, mounts[i].path)}
      longest == {i \in matching : \A j \in matching : Len(mounts[j].path) <= Len(mounts[i].path)}
  IN  IF longest = {} THEN 0 ELSE CHOOSE i \in longest : \A j \in longest : j <= i

Resolves(path) == IsAbsolute(path) /\ mount_of(path) # 0

\* Where the walk ends when it finds every name.
Place(path) ==
  LET m == mounts[mount_of(path)]
  IN  [fs |-> m.fs, names |-> components(Drop(path, IF m.path = Slash THEN 1 ELSE Len(m.path)))]

\* Where create and rename put the name of a path, given its parent.
Entry(dir, path) == [dir EXCEPT !.names = Append(@, split_parent(path).name)]

-----------------------------------------------------------------------------
Goto(t, c) == step' = [step EXCEPT ![t] = c]

TableChanged == step' = [t \in Caller |-> IF step[t] = Done THEN Done ELSE [step[t] EXCEPT !.stable = FALSE]]

\* fs::init in kernel_main, and later calls of it, which do nothing.
init ==
  /\ mounts' = IF initialized THEN mounts ELSE Append(mounts, [path |-> Slash, fs |-> RootFs])
  /\ initialized' = TRUE
  /\ UNCHANGED step

\* mount and unmount, from any thread, hold the lock throughout.
mount(p, fs) ==
  /\ initialized
  /\ IsAbsolute(p) /\ Len(mounts) < MAX_MOUNTS
  /\ \A i \in DOMAIN mounts : mounts[i].path # normalize_mount_path(p)
  /\ mounts' = Append(mounts, [path |-> normalize_mount_path(p), fs |-> fs])
  /\ TableChanged
  /\ UNCHANGED initialized

unmount(p) ==
  /\ initialized
  /\ \E i \in DOMAIN mounts : mounts[i].path = normalize_mount_path(p) /\ mounts' = RemoveAt(mounts, i)
  /\ TableChanged
  /\ UNCHANGED initialized

\* open with create: no mount takes the path, or its filesystem does not have
\* it, which is never so for a root.
open_missing(t, p) ==
  /\ initialized /\ step[t] = Done
  /\ split_parent_error(p) = "Ok"
  /\ Resolves(p) => Place(p).names # <<>>
  /\ Goto(t, [pc |-> "missing", path |-> p, stable |-> TRUE])
  /\ UNCHANGED <<mounts, initialized>>

\* The file is made where the parent resolves now, or that fails.
open_create(t) ==
  /\ step[t].pc = "missing"
  /\ LET parent == split_parent(step[t].path).parent
     IN  \/ Goto(t, Done)
         \/ /\ Resolves(parent)
            /\ Goto(t, [pc |-> "made", path |-> step[t].path, at |-> Entry(Place(parent), step[t].path),
                        stable |-> step[t].stable])
  /\ UNCHANGED <<mounts, initialized>>

rename_from(t, p, q) ==
  /\ initialized /\ step[t] = Done
  /\ split_parent_error(p) = "Ok" /\ split_parent_error(q) = "Ok" /\ Resolves(split_parent(p).parent)
  /\ Goto(t, [pc |-> "from", path |-> p, at |-> Entry(Place(split_parent(p).parent), p), to |-> q, stable |-> TRUE])
  /\ UNCHANGED <<mounts, initialized>>

rename_to(t) ==
  /\ step[t].pc = "from"
  /\ LET parent == split_parent(step[t].to).parent
     IN  \/ Goto(t, Done)
         \/ /\ Resolves(parent)
            /\ Goto(t, [pc |-> "both", path |-> step[t].path, at |-> step[t].at, to |-> step[t].to,
                        dest |-> Entry(Place(parent), step[t].to), stable |-> step[t].stable])
  /\ UNCHANGED <<mounts, initialized>>

\* from_fs.rename with both inodes, or CrossDevice.
rename_both(t) ==
  /\ step[t].pc = "both"
  /\ Goto(t, IF step[t].at.fs = step[t].dest.fs THEN [step[t] EXCEPT !.pc = "renamed"] ELSE Done)
  /\ UNCHANGED <<mounts, initialized>>

call_return(t) ==
  /\ step[t].pc \in {"made", "renamed"}
  /\ Goto(t, Done)
  /\ UNCHANGED <<mounts, initialized>>

Next ==
  \/ init
  \/ \E p \in MountPoint : unmount(p) \/ \E fs \in Fs : mount(p, fs)
  \/ \E t \in Caller :
       \/ \E p \in CallPath : open_missing(t, p) \/ \E q \in CallPath : rename_from(t, p, q)
       \/ open_create(t) \/ rename_to(t) \/ rename_both(t) \/ call_return(t)

Spec == Init /\ [][Next]_mountVars

-----------------------------------------------------------------------------
\* "The mount table is matched by longest prefix": of names, not characters.
\* A canonical path goes to a mount whose names are a prefix of its own, and no
\* mount has a longer one; and unless it is a mount point itself, its parent
\* (where open and mkdir create, and unlink removes) is on the same mount.
\* Looked at between calls: it depends on the table alone.
PathsPickTheirMount ==
  (\A t \in Caller : step[t] = Done) => \A p \in MountPath :
    LET i == mount_of(p)
        Covers(j) == IsPrefix(components(mounts[j].path), components(p))
        parent == split_parent(p).parent
    IN  /\ i = 0 => \A j \in DOMAIN mounts : ~Covers(j)
        /\ i # 0 => Covers(i) /\ \A j \in DOMAIN mounts :
                                   Covers(j) => Len(components(mounts[j].path)) <= Len(components(mounts[i].path))
        /\ (i # 0 /\ components(p) # <<>> /\ components(mounts[i].path) # components(p)) => mount_of(parent) = i

\* open and rename resolve the parent of a path, not the path.  If no mount or
\* unmount came in between, the path afterwards leads to what the operation
\* made or moved: a file that open created is the one a second open finds, and
\* rename put it under the name it was given.  The exception is a rename from or
\* to a mount point, whose entry in the directory below the mount hides.
\* Whatever the table did, rename gives a filesystem only inodes of its own.
MadeWhereNamed ==
  \A t \in Caller :
    LET c == step[t]
        LeadsTo(path, at) == Resolves(path) /\ Place(path) = at
        IsMountPoint(path) == Resolves(path) /\ Place(path).names = <<>>
    IN  /\ c.pc = "made" /\ c.stable => LeadsTo(c.path, c.at)
        /\ c.pc = "renamed" =>
             /\ c.at.fs = c.dest.fs
             /\ c.stable => /\ IsMountPoint(c.path) \/ LeadsTo(c.path, c.at)
                            /\ IsMountPoint(c.to) \/ LeadsTo(c.to, c.dest)
=============================================================================
