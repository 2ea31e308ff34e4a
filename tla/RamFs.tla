-------------------------------- MODULE RamFs --------------------------------
(***************************************************************************)
(* The inode tree of fs/ramfs.rs.  Every operation holds the one mutex     *)
(* around the inode table from its first look at the table to its return,  *)
(* so each is one action.  An operation that returns an error changes      *)
(* nothing; <op>_error is the value it returns.                            *)
(*                                                                         *)
(* File contents are in OpenFile.  MaxInode stands for u64::MAX, the       *)
(* inode number next_inode cannot be advanced from.                        *)
(***************************************************************************)
EXTENDS Naturals, FiniteSets, Sequences

CONSTANTS
  Name,       \* names validate_name accepts
  BadName,    \* names it rejects: empty, ".", "..", or with a '/'
  MaxInode

ASSUME RamFsAssumption ==
  MaxInode \in Nat /\ MaxInode > 2 /\ Name \cap BadName = {} /\ {".", ".."} \subseteq BadName

ROOT_INODE == 1
Inode == 1 .. MaxInode
FileType == {"Regular", "Directory", "Symlink", "Device"}

VARIABLES
  nodes,       \* Inner.nodes, by inode number
  next_inode,
  gone         \* history: inodes removed from the table

fsvars == <<nodes, next_inode, gone>>

NoEntries == [n \in {} |-> ROOT_INODE]
Node(parent, kind) == [parent |-> parent, kind |-> kind, entries |-> NoEntries]

Init ==
  /\ nodes = [i \in {ROOT_INODE} |-> Node(ROOT_INODE, "Directory")]
  /\ next_inode = ROOT_INODE + 1
  /\ gone = {}

TypeOK ==
  /\ next_inode \in Inode
  /\ DOMAIN nodes \subseteq 1 .. next_inode - 1
  /\ ROOT_INODE \in DOMAIN nodes
  /\ \A i \in DOMAIN nodes :
       /\ nodes[i].kind \in {"Regular", "Directory", "Symlink"}
       /\ DOMAIN nodes[i].entries \subseteq Name
       /\ nodes[i].kind # "Directory" => nodes[i].entries = NoEntries
  /\ gone \subseteq Inode

-----------------------------------------------------------------------------
Has(p, n) == n \in DOMAIN nodes[p].entries
IsDir(i) == i \in DOMAIN nodes /\ nodes[i].kind = "Directory"
Insert(entries, n, i) == [m \in DOMAIN entries \cup {n} |-> IF m = n THEN i ELSE entries[m]]
Delete(entries, n) == [m \in DOMAIN entries \ {n} |-> entries[m]]

DirError(p) ==
  IF p \notin DOMAIN nodes THEN "NotFound"
  ELSE IF nodes[p].kind # "Directory" THEN "NotADirectory" ELSE "Ok"

validate_name(n) == IF n \in BadName THEN "InvalidArgument" ELSE "Ok"

\* lookup(parent, name), with "." the node itself and ".." its stored parent.
lookup_error(p, n) ==
  IF DirError(p) # "Ok" THEN DirError(p)
  ELSE IF n \notin {".", ".."} /\ ~Has(p, n) THEN "NotFound" ELSE "Ok"
lookup(p, n) == IF n = "." THEN p ELSE IF n = ".." THEN nodes[p].parent ELSE nodes[p].entries[n]

\* The checks create and symlink share.
create_error(p, n, type) ==
  IF validate_name(n) # "Ok" THEN validate_name(n)
  ELSE IF DirError(p) # "Ok" THEN DirError(p)
  ELSE IF Has(p, n) THEN "AlreadyExists"
  ELSE IF type = "Device" THEN "Unsupported"
  ELSE IF next_inode = MaxInode THEN "NoSpace" ELSE "Ok"

create(p, n, type) ==
  /\ create_error(p, n, type) = "Ok"
  /\ nodes' = [i \in DOMAIN nodes \cup {next_inode} |->
                 IF i = next_inode THEN Node(p, type)
                 ELSE IF i = p THEN [nodes[i] EXCEPT !.entries = Insert(@, n, next_inode)]
                 ELSE nodes[i]]
  /\ next_inode' = next_inode + 1
  /\ UNCHANGED gone

symlink(p, n) == create(p, n, "Symlink")

RemoveNode(p, n, i) ==
  /\ nodes' = [j \in DOMAIN nodes \ {i} |->
                 IF j = p THEN [nodes[j] EXCEPT !.entries = Delete(@, n)] ELSE nodes[j]]
  /\ gone' = gone \cup {i}

unlink_error(p, n) ==
  IF DirError(p) # "Ok" THEN DirError(p)
  ELSE IF ~Has(p, n) THEN "NotFound"
  ELSE IF nodes[p].entries[n] \notin DOMAIN nodes THEN "NotFound"
  ELSE IF IsDir(nodes[p].entries[n]) THEN "IsADirectory" ELSE "Ok"

\* Bug: the number of the newest inode is handed out again.
unlink_recycles(p, n) ==
  /\ unlink_error(p, n) = "Ok"
  /\ RemoveNode(p, n, nodes[p].entries[n])
  /\ next_inode' = IF nodes[p].entries[n] = next_inode - 1 THEN next_inode - 1 ELSE next_inode

unlink(p, n) ==
  /\ unlink_error(p, n) = "Ok"
  /\ RemoveNode(p, n, nodes[p].entries[n])
  /\ UNCHANGED next_inode

rmdir_error(p, n) ==
  IF DirError(p) # "Ok" THEN DirError(p)
  ELSE IF ~Has(p, n) THEN "NotFound"
  ELSE IF nodes[p].entries[n] \notin DOMAIN nodes THEN "NotFound"
  ELSE IF ~IsDir(nodes[p].entries[n]) THEN "NotADirectory"
  ELSE IF DOMAIN nodes[nodes[p].entries[n]].entries # {} THEN "NotEmpty" ELSE "Ok"

rmdir(p, n) ==
  /\ rmdir_error(p, n) = "Ok"
  /\ RemoveNode(p, n, nodes[p].entries[n])
  /\ UNCHANGED next_inode

\* The inodes the loop of rename visits: i, its parent, and so on to the root
\* (or to an inode that is not in the table).
Ancestors(i) ==
  LET up[k \in 0 .. MaxInode] ==
        IF k = 0 THEN i ELSE LET j == up[k - 1] IN IF j \in DOMAIN nodes THEN nodes[j].parent ELSE j
  IN  {up[k] : k \in 0 .. MaxInode}

\* Bug: only the destination directory itself is compared with the source.
inside_shallow(i, np) == i = np

inside(i, np) == i \in Ancestors(np)

\* Bug: a directory that still has entries may be replaced.
replace_error_lossy(i, e) ==
  IF IsDir(i) # IsDir(e) THEN (IF IsDir(e) THEN "IsADirectory" ELSE "NotADirectory") ELSE "Ok"

replace_error(i, e) ==
  IF IsDir(i) # IsDir(e) THEN (IF IsDir(e) THEN "IsADirectory" ELSE "NotADirectory")
  ELSE IF IsDir(e) /\ DOMAIN nodes[e].entries # {} THEN "NotEmpty" ELSE "Ok"

rename_error(op, on, np, nn) ==
  IF validate_name(nn) # "Ok" THEN validate_name(nn)
  ELSE IF DirError(op) # "Ok" THEN DirError(op)
  ELSE IF ~Has(op, on) THEN "NotFound"
  ELSE IF ~IsDir(np) THEN "NotADirectory"
  ELSE LET i == nodes[op].entries[on]
       IN  IF IsDir(i) /\ inside(i, np) THEN "InvalidArgument"
           ELSE IF IsDir(i) /\ ~(Ancestors(np) \subseteq DOMAIN nodes) THEN "NotFound"
           ELSE IF Has(np, nn) /\ nodes[np].entries[nn] # i
                THEN replace_error(i, nodes[np].entries[nn]) ELSE "Ok"

\* Bug: the moved node keeps its old parent.
rename_keeps_parent(op, on, np, nn) ==
  /\ rename_error(op, on, np, nn) = "Ok"
  /\ LET i == nodes[op].entries[on]
         replaced == IF Has(np, nn) THEN {nodes[np].entries[nn]} \ {i} ELSE {}
         Moved(j) == IF j = op /\ j = np THEN Insert(Delete(nodes[j].entries, on), nn, i)
                     ELSE IF j = op THEN Delete(nodes[j].entries, on)
                     ELSE IF j = np THEN Insert(nodes[j].entries, nn, i)
                     ELSE nodes[j].entries
     IN  /\ nodes' = [j \in DOMAIN nodes \ replaced |-> [nodes[j] EXCEPT !.entries = Moved(j)]]
         /\ gone' = gone \cup replaced
  /\ UNCHANGED next_inode

rename(op, on, np, nn) ==
  /\ rename_error(op, on, np, nn) = "Ok"
  /\ LET i == nodes[op].entries[on]
         same == Has(np, nn) /\ nodes[np].entries[nn] = i
         replaced == IF Has(np, nn) THEN {nodes[np].entries[nn]} ELSE {}
         Moved(j) == IF j = op /\ j = np THEN Insert(Delete(nodes[j].entries, on), nn, i)
                     ELSE IF j = op THEN Delete(nodes[j].entries, on)
                     ELSE IF j = np THEN Insert(nodes[j].entries, nn, i)
                     ELSE nodes[j].entries
     IN  IF same THEN UNCHANGED <<nodes, gone>>
         ELSE /\ nodes' = [j \in DOMAIN nodes \ replaced |->
                             [parent |-> IF j = i THEN np ELSE nodes[j].parent,
                              kind |-> nodes[j].kind, entries |-> Moved(j)]]
              /\ gone' = gone \cup replaced
  /\ UNCHANGED next_inode

Next ==
  \E p \in Inode, n \in Name \cup BadName :
    \/ \E type \in FileType \ {"Symlink"} : create(p, n, type)
    \/ symlink(p, n)
    \/ unlink(p, n)
    \/ rmdir(p, n)
    \/ \E q \in Inode, m \in Name \cup BadName : rename(p, n, q, m)

Spec == Init /\ [][Next]_fsvars

-----------------------------------------------------------------------------
\* Inode i is what name n of directory p refers to.
Names(p, n, i) == Has(p, n) /\ nodes[p].entries[n] = i

\* The table is a tree with nothing dangling or unreachable by name: every
\* entry names a node whose parent pointer leads back, every node except the
\* root has exactly one entry, in its parent, and ".." leads from every node to
\* the root.  rename has to "Reject moving a directory into itself or a
\* descendant -- would create an orphaned cycle", in which its own loop over
\* the parents would not end.
TreeWellFormed ==
  /\ \A p \in DOMAIN nodes, n \in Name :
       Has(p, n) => nodes[p].entries[n] \in DOMAIN nodes \ {ROOT_INODE}
                    /\ nodes[nodes[p].entries[n]].parent = p
  /\ \A i \in DOMAIN nodes \ {ROOT_INODE} :
       /\ IsDir(nodes[i].parent)
       /\ \E n \in Name : Names(nodes[i].parent, n, i)
       /\ \A n, m \in Name : Names(nodes[i].parent, n, i) /\ Names(nodes[i].parent, m, i) => n = m
  /\ \A i \in DOMAIN nodes : ROOT_INODE \in Ancestors(i)
=============================================================================
