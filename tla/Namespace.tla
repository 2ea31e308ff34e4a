------------------------------ MODULE Namespace ------------------------------
(***************************************************************************)
(* What a filesystem promises about names: a tree of paths, each naming a  *)
(* node with an identity of its own.  A step makes one new node, removes   *)
(* one that has nothing below it, or moves a whole subtree, replacing at   *)
(* most one node of the same sort that has nothing below it.               *)
(***************************************************************************)
EXTENDS Sequences, SequencesExt

CONSTANT Root   \* the identity of the root

VARIABLES
  tree,    \* the set of [path, id, dir]
  taken    \* identities ever used

Init ==
  /\ tree = {[path |-> <<>>, id |-> Root, dir |-> TRUE]}
  /\ taken = {Root}

Free(t, path) == \A e \in t : e.path # path
HasDir(t, path) == \E e \in t : e.path = path /\ e.dir
Below(t, path) == {e \in t : IsPrefix(path, e.path)}

\* A new node in a directory, with an identity never used.
Created(t, u) ==
  \E e \in u \ t :
    /\ u = t \cup {e}
    /\ Free(t, e.path) /\ HasDir(t, Front(e.path)) /\ e.id \notin taken
    /\ taken' = taken \cup {e.id}

Deleted(t, u) ==
  \E e \in t \ u :
    /\ u = t \ {e}
    /\ e.path # <<>> /\ Below(t, e.path) = {e}
    /\ UNCHANGED taken

\* The subtree at e is at f's path, where at most a childless node was.
Moved(t, u) ==
  \E e \in t \ u, f \in u \ t :
    LET Dest(path) == f.path \o SubSeq(path, Len(e.path) + 1, Len(path))
        replaced == Below(t, f.path)
    IN  /\ f.id = e.id /\ f.dir = e.dir
        /\ ~IsPrefix(e.path, f.path) /\ HasDir(t, Front(f.path))
        /\ \A r \in replaced : r.path = f.path /\ r.dir = e.dir
        /\ u = (t \ (Below(t, e.path) \cup replaced))
                 \cup {[b EXCEPT !.path = Dest(@)] : b \in Below(t, e.path)}
        /\ UNCHANGED taken

Step(t, u) == t # u /\ (Created(t, u) \/ Deleted(t, u) \/ Moved(t, u))

Next == Step(tree, tree')

Spec == Init /\ [][Next]_<<tree, taken>>
=============================================================================
