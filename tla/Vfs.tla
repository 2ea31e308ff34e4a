--------------------------------- MODULE Vfs ---------------------------------
(***************************************************************************)
(* Path operations of fs/vfs.rs on one mounted RamFs.  resolve takes the   *)
(* filesystem's mutex once per component and the operation takes it again, *)
(* so operations of several kernel threads interleave between lookups.     *)
(*                                                                         *)
(* A path is a sequence of names.  The mount table holds the one entry     *)
(* that fs::init makes.                                                    *)
(***************************************************************************)
EXTENDS RamFs, Sequences

CONSTANTS
  Thread,
  Requests     \* [op, path, to, create, exclusive, truncate, append]

ASSUME RequestAssumption ==
  \A r \in Requests : r.path \in Seq(Name \cup BadName) /\ r.to \in Seq(Name \cup BadName)

VARIABLES
  call,        \* per thread: the operation in progress, or what open returned
  stable       \* history, per thread: the path has existed since the call began

vars == <<nodes, next_inode, gone, call, stable>>

Idle == [pc |-> "idle"]

\* Only the file of an open that succeeded is remembered.
Returned(r, err, inode) ==
  IF r.op = "open" /\ err = "Ok" THEN [pc |-> "returned", req |-> r, inode |-> inode] ELSE Idle

VfsInit ==
  /\ Init
  /\ call = [t \in Thread |-> Idle]
  /\ stable = [t \in Thread |-> FALSE]

VfsTypeOK ==
  /\ TypeOK
  /\ \A t \in Thread :
       \/ call[t].pc = "idle"
       \/ call[t].pc = "returned" /\ call[t].req \in Requests
       \/ /\ call[t].pc \in {"target", "parent", "to", "opened", "truncated"}
          /\ call[t].at \in Inode /\ call[t].from \in Inode
          /\ call[t].todo \in Seq(Name \cup BadName)

-----------------------------------------------------------------------------
Goto(t, c) == call' = [call EXCEPT ![t] = c]
Return(t, err, inode) == Goto(t, Returned(call[t].req, err, inode))

\* resolve from the root of the filesystem that the mount table gives.
Resolve(r, pc, path, from) ==
  [pc |-> pc, req |-> r, at |-> ROOT_INODE, todo |-> path, from |-> from]

split_parent(path) == [parent |-> SubSeq(path, 1, Len(path) - 1), name |-> path[Len(path)]]

\* The entry of an operation: open and metadata resolve the whole path, the
\* others split it; split_parent of "/" is an error.
Call(t, r) ==
  /\ call[t].pc \in {"idle", "returned"}
  /\ Goto(t, IF r.op \in {"open", "metadata"} THEN Resolve(r, "target", r.path, ROOT_INODE)
             ELSE IF r.path = <<>> \/ (r.op = "rename" /\ r.to = <<>>)
                  THEN Returned(r, "InvalidPath", ROOT_INODE)
                  ELSE Resolve(r, "parent", split_parent(r.path).parent, ROOT_INODE))
  /\ UNCHANGED fsvars

Advanced(c, inode) == [pc |-> c.pc, req |-> c.req, at |-> inode, todo |-> Tail(c.todo), from |-> c.from]

\* One component of resolve; open with create falls back to the parent.
Lookup(t) ==
  /\ call[t].pc \in {"target", "parent", "to"}
  /\ call[t].todo # <<>>
  /\ LET c == call[t]
         name == Head(c.todo)
     IN  IF name = "." THEN Goto(t, Advanced(c, c.at))
         ELSE IF lookup_error(c.at, name) = "Ok" THEN Goto(t, Advanced(c, lookup(c.at, name)))
         ELSE IF lookup_error(c.at, name) = "NotFound" /\ c.pc = "target" /\ c.req.op = "open" /\ c.req.create
              THEN Goto(t, Resolve(c.req, "parent", split_parent(c.req.path).parent, ROOT_INODE))
         ELSE Return(t, lookup_error(c.at, name), ROOT_INODE)
  /\ UNCHANGED fsvars

Resolved(t, pc, op) == call[t].pc = pc /\ call[t].todo = <<>> /\ call[t].req.op = op

Opened(t, inode) ==
  Goto(t, [pc |-> "opened", req |-> call[t].req, at |-> inode, todo |-> <<>>, from |-> call[t].from])

open_found(t) ==
  /\ Resolved(t, "target", "open")
  /\ IF call[t].req.exclusive /\ call[t].req.create
     THEN Return(t, "AlreadyExists", ROOT_INODE) ELSE Opened(t, call[t].at)
  /\ UNCHANGED fsvars

\* fs.create(parent, name, type) with its error.
CreateOr(t, type, Then) ==
  LET p == call[t].at
      n == split_parent(call[t].req.path).name
  IN  IF create_error(p, n, type) = "Ok" THEN create(p, n, type) /\ Then
      ELSE Return(t, create_error(p, n, type), ROOT_INODE) /\ UNCHANGED fsvars

\* Bug: when another thread has just made the file, it is opened.
open_create_shares(t) ==
  /\ Resolved(t, "parent", "open")
  /\ IF create_error(call[t].at, split_parent(call[t].req.path).name, "Regular") = "AlreadyExists"
     THEN Opened(t, nodes[call[t].at].entries[split_parent(call[t].req.path).name]) /\ UNCHANGED fsvars
     ELSE CreateOr(t, "Regular", Opened(t, next_inode))

open_create(t) ==
  /\ Resolved(t, "parent", "open")
  /\ CreateOr(t, "Regular", Opened(t, next_inode))

\* The rest of open: truncate, then the size for append; each of them fails
\* when the node has been removed since.
open_truncate(t) ==
  /\ call[t].pc = "opened"
  /\ LET i == call[t].at
     IN  IF ~call[t].req.truncate THEN Goto(t, [call[t] EXCEPT !.pc = "truncated"])
         ELSE IF i \notin DOMAIN nodes THEN Return(t, "NotFound", i)
         ELSE IF nodes[i].kind = "Directory" THEN Return(t, "IsADirectory", i)
         ELSE IF nodes[i].kind = "Symlink" THEN Return(t, "InvalidArgument", i)
         ELSE Goto(t, [call[t] EXCEPT !.pc = "truncated"])
  /\ UNCHANGED fsvars

open_offset(t) ==
  /\ call[t].pc = "truncated"
  /\ LET missing == call[t].req.append /\ call[t].at \notin DOMAIN nodes
     IN  Return(t, IF missing THEN "NotFound" ELSE "Ok", call[t].at)
  /\ UNCHANGED fsvars

mkdir(t) ==
  /\ Resolved(t, "parent", "mkdir")
  /\ CreateOr(t, "Directory", Return(t, "Ok", next_inode))

\* The error of an operation of the filesystem, or its effect.
Apply(t, err, Effect) == Return(t, err, ROOT_INODE) /\ (IF err = "Ok" THEN Effect ELSE UNCHANGED fsvars)

unlink_path(t) ==
  /\ Resolved(t, "parent", "unlink")
  /\ LET p == call[t].at
         n == split_parent(call[t].req.path).name
     IN  Apply(t, unlink_error(p, n), unlink(p, n))

rmdir_path(t) ==
  /\ Resolved(t, "parent", "rmdir")
  /\ LET p == call[t].at
         n == split_parent(call[t].req.path).name
     IN  Apply(t, rmdir_error(p, n), rmdir(p, n))

metadata(t) ==
  /\ Resolved(t, "target", "metadata")
  /\ Return(t, IF call[t].at \in DOMAIN nodes THEN "Ok" ELSE "NotFound", call[t].at)
  /\ UNCHANGED fsvars

rename_from(t) ==
  /\ Resolved(t, "parent", "rename")
  /\ Goto(t, Resolve(call[t].req, "to", split_parent(call[t].req.to).parent, call[t].at))
  /\ UNCHANGED fsvars

rename_path(t) ==
  /\ Resolved(t, "to", "rename")
  /\ LET r == call[t].req
     IN  Apply(t, rename_error(call[t].from, split_parent(r.path).name, call[t].at, split_parent(r.to).name),
               rename(call[t].from, split_parent(r.path).name, call[t].at, split_parent(r.to).name))

\* The inodes a path goes through, 0 from where it is not found.
Onward(i, n) == IF i = 0 \/ n = "." THEN i ELSE IF lookup_error(i, n) = "Ok" THEN lookup(i, n) ELSE 0
Walked(path) ==
  LET walk[k \in 0 .. Len(path)] == IF k = 0 THEN ROOT_INODE ELSE Onward(walk[k - 1], path[k])
  IN  walk

\* The inode a path names now, 0 for none.
At(path) == Walked(path)[Len(path)]

Busy(t) == call[t].pc \notin {"idle", "returned"}
PathExists(t) == At(call[t].req.path) # 0

Step ==
  \/ \E t \in Thread, r \in Requests : Call(t, r)
  \/ \E t \in Thread :
       Lookup(t) \/ open_found(t) \/ open_create(t) \/ open_truncate(t) \/ open_offset(t) \/ mkdir(t)
         \/ unlink_path(t) \/ rmdir_path(t) \/ metadata(t) \/ rename_from(t) \/ rename_path(t)

VfsNext ==
  /\ Step
  /\ stable' = [t \in Thread |->
                  IF Busy(t)' THEN (Busy(t) => stable[t]) /\ PathExists(t)' ELSE FALSE]

VfsSpec == VfsInit /\ [][VfsNext]_vars

-----------------------------------------------------------------------------
Success(t, op) == call[t].pc = "returned" /\ call[t].req.op = op

\* O_EXCL: two exclusive creates that both succeed made different files,
\* although the existence check and the create are separate acquisitions.
ExclusiveOpensDiffer ==
  \A t, u \in Thread :
    (/\ t # u /\ Success(t, "open") /\ Success(u, "open")
     /\ call[t].req.create /\ call[t].req.exclusive /\ call[u].req.create /\ call[u].req.exclusive)
       => call[t].inode # call[u].inode

\* resolve is "`NotFound` if any component is missing": while the path has
\* existed all through the call, the next lookup finds its component, whatever
\* the other threads rename meanwhile (only an empty directory is replaced).
\* Not so through "..": of /a/../b the walk may stand in an a that a rename of
\* another directory replaces, and the path exists before and after.
StablePathsResolve ==
  \A t \in Thread :
    (/\ call[t].pc = "target" /\ stable[t] /\ call[t].todo # <<>> /\ Head(call[t].todo) # "."
     /\ \A k \in DOMAIN call[t].req.path : call[t].req.path[k] # "..")
      => lookup_error(call[t].at, Head(call[t].todo)) = "Ok"
=============================================================================
