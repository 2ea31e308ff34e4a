---------------------------- MODULE MCFileSystem ----------------------------
(***************************************************************************)
(* The filesystem from four sides: the node table under direct calls of    *)
(* RamFs ("tree"), path operations of two threads on it ("paths"), open    *)
(* handles on one of its files ("handles"), and the table that decides     *)
(* which filesystem a path is on ("mounts").  RamFs keeps names and        *)
(* parents, OpenFile the bytes of one node, MountTable only where a path   *)
(* leads, so a behaviour works on one of them.                             *)
(*                                                                         *)
(* The paths are /a, /b and /a/b: directories that move and are replaced   *)
(* while the other thread walks through them.  Mount points are /, /d, /de *)
(* and /d/e in several spellings; paths are all canonical strings of d, e  *)
(* and slashes up to four characters, and two with a trailing slash.       *)
(***************************************************************************)
EXTENDS Vfs, SequencesExt, TLC

CONSTANTS Part, Handle, Readable, Writable, Appending, Positioned, MaxSize, Caller, Fs, RootFs, MAX_MOUNTS

VARIABLES part, data, exists, offset, th, moved, appended, mounts, initialized, step

Request(op, path) ==
  [op |-> op, path |-> path, to |-> <<>>, create |-> FALSE, exclusive |-> FALSE,
   truncate |-> FALSE, append |-> FALSE]

MCRequests ==
  {[Request("open", <<"a", "b">>) EXCEPT !.create = TRUE, !.exclusive = TRUE],
   [Request("open", <<"a", "b">>) EXCEPT !.create = TRUE, !.truncate = TRUE, !.append = TRUE],
   Request("mkdir", <<"a">>), Request("mkdir", <<"b">>), Request("mkdir", <<>>), Request("mkdir", <<"a", "..">>),
   Request("unlink", <<"a", "b">>), Request("rmdir", <<"a">>), Request("rmdir", <<"b">>),
   Request("metadata", <<"a", ".", "b">>),
   [Request("rename", <<"a">>) EXCEPT !.to = <<"b">>],
   [Request("rename", <<"b">>) EXCEPT !.to = <<"a">>],
   [Request("rename", <<"b">>) EXCEPT !.to = <<"a", "b">>]}

Files == INSTANCE OpenFile

MountPoint == {<<"/">>, <<"/", "/">>, <<"/", "d">>, <<"/", "d", "/">>, <<"/", "d", "e">>, <<"/", "d", "/", "e">>, <<"d">>}
MountPath ==
  {<<"/">> \o p : p \in {q \in SeqOf({"/", "d", "e"}, 3) :
                           \A i \in DOMAIN q : q[i] = "/" => i \notin {1, Len(q)}}}
  \cup {<<"/", "d", "/">>, <<"/", "d", "/", "e", "/">>}
CallPath == {<<"/", "d">>, <<"/", "d", "/", "e">>, <<"/", "d", "e">>, <<"/", "d", "/", "/", "e", "/">>, <<"/">>, <<"d">>}

Table == INSTANCE MountTable

ASSUME FileParameters == Files!OpenFileAssumption

fileVars == <<data, exists, offset, th, moved, appended>>
tableVars == <<mounts, initialized, step>>

FileSystemInit == part \in Part /\ VfsInit /\ Files!Init /\ Table!Init

FileSystemNext ==
  /\ UNCHANGED part
  /\ \/ part = "tree" /\ Next /\ UNCHANGED <<call, stable, fileVars, tableVars>>
     \/ part = "paths" /\ VfsNext /\ UNCHANGED <<fileVars, tableVars>>
     \/ part = "handles" /\ Files!Next /\ UNCHANGED <<vars, tableVars>>
     \/ part = "mounts" /\ Table!Next /\ UNCHANGED <<vars, fileVars>>

FileSystemSpec == FileSystemInit /\ [][FileSystemNext]_<<part, vars, fileVars, tableVars>>

ThreadSymmetry == Permutations(Thread)

-----------------------------------------------------------------------------
\* OpenFile: threads that share a handle never lose or repeat a transfer.
SharedOffsetExact == Files!SharedOffsetExact

\* MountTable: a path is on the mount with the most names of it, and so is its
\* parent.
PathsPickTheirMount == part = "mounts" => Table!PathsPickTheirMount

\* MountTable: a path leads to the file that open made or rename moved there.
MadeWhereNamed == part = "mounts" => Table!MadeWhereNamed

\* What the table's paths name, found by following entries from the root.
Reach[k \in Nat] ==
  IF k = 0 THEN {[path |-> <<>>, id |-> ROOT_INODE, dir |-> TRUE]}
  ELSE LET above == Reach[k - 1]
       IN  above \cup UNION {{[path |-> Append(e.path, n), id |-> nodes[e.id].entries[n], dir |-> IsDir(nodes[e.id].entries[n])]
                                : n \in DOMAIN nodes[e.id].entries} : e \in above}

\* The node table implements Namespace: whatever pointers an operation changes,
\* it makes one node with a number never used before, removes one childless
\* node or moves one whole subtree.  A handle keeps only (fs, inode), so a
\* number that came to mean another node would redirect it.
Tree == INSTANCE Namespace
          WITH tree <- Reach[Cardinality(DOMAIN nodes) - 1], taken <- DOMAIN nodes \cup gone, Root <- ROOT_INODE
ImplementsNamespace == Tree!Spec
=============================================================================
