-------------------------- MODULE FileSystemProofs --------------------------
(***************************************************************************)
(* The node table and the path operations on it, for any number of nodes,  *)
(* names and threads.                                                      *)
(***************************************************************************)
EXTENDS Vfs, TLAPS, FiniteSetTheorems, WellFoundedInduction, NaturalsInduction

(* A nonempty set of natural numbers has a least element.                  *)
LEMMA LeastNat ==
  ASSUME NEW T \in SUBSET Nat, T # {}
  PROVE  \E n \in T : \A m \in T : n <= m
<1>1. PICK n \in T : \A m \in T : ~(<<m, n>> \in OpToRel(<, Nat))
  BY WFMin, NatLessThanWellFounded, Zenon
<1>2. \A m \in T : ~(m < n)
  <2> TAKE m \in T
  <2>1. m \in Nat /\ n \in Nat
    OBVIOUS
  <2>2. m < n => <<m, n>> \in OpToRel(<, Nat)
    BY <2>1, Zenon DEF OpToRel
  <2> QED BY <1>1, <2>2
<1> QED BY <1>2

(* A set of naturals with zero and the successor of each of its members    *)
(* has them all.                                                           *)
LEMMA NatClosed ==
  ASSUME NEW S, 0 \in S, \A n \in Nat : n \in S => n + 1 \in S
  PROVE  Nat \subseteq S
<1> DEFINE T == {n \in Nat : n \notin S}
<1> SUFFICES ASSUME T # {} PROVE FALSE
  OBVIOUS
<1>1. PICK n \in T : \A m \in T : n <= m
  BY LeastNat
<1>2. n # 0 /\ n - 1 \in Nat
  OBVIOUS
<1>3. n - 1 \in S
  BY <1>1, <1>2
<1> QED BY <1>2, <1>3

-----------------------------------------------------------------------------
(***************************************************************************)
(* The node table.  Entries and parent pointers are each other's inverse,  *)
(* and every set of nodes that holds the parents of its members holds the  *)
(* root: no cycle is cut off from it.  Said of any table t, so that it is  *)
(* the same before and after a step.                                       *)
(***************************************************************************)
DirIn(t, i) == i \in DOMAIN t /\ t[i].kind = "Directory"

ShapedNodes(t) ==
  /\ DirIn(t, ROOT_INODE) /\ t[ROOT_INODE].parent = ROOT_INODE
  /\ \A i \in DOMAIN t :
       /\ t[i] = [parent |-> t[i].parent, kind |-> t[i].kind, entries |-> t[i].entries]
       /\ DOMAIN t[i].entries \subseteq Name
       /\ t[i].kind # "Directory" => DOMAIN t[i].entries = {}

EntriesLead(t) ==
  \A p \in DOMAIN t : \A n \in DOMAIN t[p].entries :
    /\ t[p].entries[n] \in DOMAIN t /\ t[p].entries[n] # ROOT_INODE
    /\ t[t[p].entries[n]].parent = p

OneName(t) ==
  \A p \in DOMAIN t : \A n, m \in DOMAIN t[p].entries : t[p].entries[n] = t[p].entries[m] => n = m

ParentsNamed(t) ==
  \A i \in DOMAIN t : i # ROOT_INODE =>
    /\ DirIn(t, t[i].parent)
    /\ \E n \in DOMAIN t[t[i].parent].entries : t[t[i].parent].entries[n] = i

Closed(t, S) == S \subseteq DOMAIN t /\ \A j \in S : t[j].parent \in S

Rooted(t) == \A S : S # {} /\ Closed(t, S) => ROOT_INODE \in S

Linked(t) == ShapedNodes(t) /\ EntriesLead(t) /\ OneName(t) /\ ParentsNamed(t) /\ Rooted(t)

(* A node with no entries is nobody's parent.                              *)
LEMMA Childless ==
  ASSUME NEW t, Linked(t), NEW i \in DOMAIN t, DOMAIN t[i].entries = {}, NEW j \in DOMAIN t, j # ROOT_INODE
  PROVE  t[j].parent # i
BY DEF Linked, ParentsNamed

(* create adds one node under a free name.                                 *)
Added(t, p, n, k, kind) ==
  [i \in DOMAIN t \cup {k} |->
     IF i = k THEN Node(p, kind)
     ELSE IF i = p THEN [t[i] EXCEPT !.entries = Insert(@, n, k)] ELSE t[i]]

(* create keeps the table linked.                                           *)
LEMMA AddNode ==
  ASSUME NEW t, Linked(t), NEW p, DirIn(t, p), NEW n \in Name, n \notin DOMAIN t[p].entries,
         NEW k, k \notin DOMAIN t, NEW kind
  PROVE  Linked(Added(t, p, n, k, kind))
<1> DEFINE u == Added(t, p, n, k, kind)
<1>1. p \in DOMAIN t /\ t[p].kind = "Directory" /\ p # k /\ ROOT_INODE \in DOMAIN t /\ ROOT_INODE # k
  BY DEF DirIn, Linked, ShapedNodes
<1>2. DOMAIN u = DOMAIN t \cup {k}
  BY DEF Added
<1>3. u[k].parent = p /\ u[k].kind = kind /\ DOMAIN u[k].entries = {} /\ u[k] = [parent |-> u[k].parent, kind |-> u[k].kind, entries |-> u[k].entries]
  BY DEF Added, Node, NoEntries
<1>4. \A i \in DOMAIN t : i # p => u[i] = t[i]
  BY DEF Added
<1>5. u[p] = [parent |-> t[p].parent, kind |-> t[p].kind, entries |-> Insert(t[p].entries, n, k)]
  <2>1. t[p] = [parent |-> t[p].parent, kind |-> t[p].kind, entries |-> t[p].entries]
    BY <1>1 DEF Linked, ShapedNodes
  <2>2. u[p] = [t[p] EXCEPT !.entries = Insert(t[p].entries, n, k)]
    BY <1>1 DEF Added
  <2> QED BY <2>1, <2>2
<1>6. /\ DOMAIN u[p].entries = DOMAIN t[p].entries \cup {n} /\ u[p].entries[n] = k
      /\ \A m \in DOMAIN t[p].entries : u[p].entries[m] = t[p].entries[m]
  BY <1>5 DEF Insert
<1>7. \A i \in DOMAIN t : u[i].parent = t[i].parent /\ u[i].kind = t[i].kind
  BY <1>4, <1>5
<1> HIDE DEF u
<1>8. ShapedNodes(u)
  <2>1. \A i \in DOMAIN t : u[i] = [parent |-> u[i].parent, kind |-> u[i].kind, entries |-> u[i].entries]
    BY <1>4, <1>5 DEF Linked, ShapedNodes
  <2>2. \A i \in DOMAIN t : DOMAIN u[i].entries \subseteq Name /\ (u[i].kind # "Directory" => DOMAIN u[i].entries = {})
    BY <1>1, <1>4, <1>6, <1>7 DEF Linked, ShapedNodes
  <2>3. DirIn(u, ROOT_INODE) /\ u[ROOT_INODE].parent = ROOT_INODE
    BY <1>2, <1>7 DEF Linked, ShapedNodes, DirIn
  <2> QED BY <1>2, <1>3, <2>1, <2>2, <2>3 DEF ShapedNodes
<1>9. EntriesLead(u)
  BY <1>1, <1>2, <1>3, <1>4, <1>6, <1>7 DEF Linked, EntriesLead
<1>10. OneName(u)
  <2> SUFFICES ASSUME NEW q \in DOMAIN u, NEW a \in DOMAIN u[q].entries, NEW b \in DOMAIN u[q].entries,
                      u[q].entries[a] = u[q].entries[b]
               PROVE  a = b
    BY DEF OneName
  <2>1. CASE q = p
    <3>1. \A m \in DOMAIN t[p].entries : t[p].entries[m] # k
      BY <1>1 DEF Linked, EntriesLead
    <3> QED BY <1>1, <1>6, <2>1, <3>1 DEF Linked, OneName
  <2>2. CASE q # p
    BY <1>2, <1>3, <1>4, <2>2 DEF Linked, OneName
  <2> QED BY <2>1, <2>2
<1>11. ParentsNamed(u)
  <2> SUFFICES ASSUME NEW i \in DOMAIN u, i # ROOT_INODE
               PROVE  DirIn(u, u[i].parent) /\ \E m \in DOMAIN u[u[i].parent].entries : u[u[i].parent].entries[m] = i
    BY DEF ParentsNamed
  <2>1. CASE i = k
    BY <1>1, <1>2, <1>3, <1>6, <1>7, <2>1 DEF DirIn
  <2>2. CASE i # k
    <3>1. i \in DOMAIN t /\ u[i].parent = t[i].parent /\ DirIn(t, t[i].parent)
      BY <1>2, <1>7, <2>2 DEF Linked, ParentsNamed
    <3>2. PICK m \in DOMAIN t[t[i].parent].entries : t[t[i].parent].entries[m] = i
      BY <3>1 DEF Linked, ParentsNamed
    <3>3. m \in DOMAIN u[u[i].parent].entries /\ u[u[i].parent].entries[m] = i
      BY <1>4, <1>6, <3>1, <3>2 DEF DirIn
    <3>4. DirIn(u, u[i].parent)
      BY <1>2, <1>7, <3>1 DEF DirIn
    <3> QED BY <3>3, <3>4
  <2> QED BY <2>1, <2>2
<1>12. Rooted(u)
  <2> SUFFICES ASSUME NEW S, S # {}, Closed(u, S) PROVE ROOT_INODE \in S
    BY DEF Rooted
  <2>1. \A j \in DOMAIN t : t[j].parent # k
    BY <1>1 DEF Linked, ParentsNamed, ShapedNodes, DirIn
  <2>2. Closed(t, S \ {k})
    BY <1>2, <1>7, <2>1 DEF Closed
  <2>3. S \ {k} # {}
    BY <1>1, <1>2, <1>3 DEF Closed
  <2> QED BY <2>2, <2>3 DEF Linked, Rooted
<1> QED BY <1>8, <1>9, <1>10, <1>11, <1>12 DEF Linked, u

(* unlink and rmdir, and the node that rename replaces: one childless node *)
(* and its entry go.                                                       *)
Dropped(t, p, n, i) ==
  [j \in DOMAIN t \ {i} |-> IF j = p THEN [t[j] EXCEPT !.entries = Delete(@, n)] ELSE t[j]]

(* What the table is after it.                                             *)
DropFacts(t, p, n, i, u) ==
  /\ i \in DOMAIN t /\ i # ROOT_INODE /\ p # i /\ t[p].kind = "Directory"
  /\ DOMAIN u = DOMAIN t \ {i}
  /\ \A j \in DOMAIN u : j # p => u[j] = t[j]
  /\ u[p] = [parent |-> t[p].parent, kind |-> t[p].kind, entries |-> Delete(t[p].entries, n)]
  /\ DOMAIN u[p].entries = DOMAIN t[p].entries \ {n}
  /\ \A m \in DOMAIN u[p].entries : u[p].entries[m] = t[p].entries[m]
  /\ \A j \in DOMAIN u : u[j].parent = t[j].parent /\ u[j].kind = t[j].kind

(* The facts above, of the table that Dropped gives.                        *)
LEMMA DroppedTable ==
  ASSUME NEW t, Linked(t), NEW p \in DOMAIN t, NEW n \in DOMAIN t[p].entries, NEW i, i = t[p].entries[n],
         DOMAIN t[i].entries = {}, NEW u, u = Dropped(t, p, n, i)
  PROVE  DropFacts(t, p, n, i, u)
<1>1. i \in DOMAIN t /\ i # ROOT_INODE /\ p # i /\ t[p].kind = "Directory"
  BY DEF Linked, EntriesLead, ShapedNodes
<1>2. DOMAIN u = DOMAIN t \ {i} /\ \A j \in DOMAIN u : j # p => u[j] = t[j]
  BY DEF Dropped
<1>3. u[p] = [parent |-> t[p].parent, kind |-> t[p].kind, entries |-> Delete(t[p].entries, n)]
  <2>1. t[p] = [parent |-> t[p].parent, kind |-> t[p].kind, entries |-> t[p].entries]
    BY DEF Linked, ShapedNodes
  <2>2. u[p] = [t[p] EXCEPT !.entries = Delete(t[p].entries, n)]
    BY <1>1 DEF Dropped
  <2> QED BY <2>1, <2>2
<1>4. /\ DOMAIN u[p].entries = DOMAIN t[p].entries \ {n}
      /\ \A m \in DOMAIN u[p].entries : u[p].entries[m] = t[p].entries[m]
  BY <1>3 DEF Delete
<1>5. \A j \in DOMAIN u : u[j].parent = t[j].parent /\ u[j].kind = t[j].kind
  BY <1>2, <1>3
<1> QED BY <1>1, <1>2, <1>3, <1>4, <1>5 DEF DropFacts

(* Dropping a childless node keeps the table linked.                        *)
LEMMA DropNode ==
  ASSUME NEW t, Linked(t), NEW p \in DOMAIN t, NEW n \in DOMAIN t[p].entries, NEW i, i = t[p].entries[n],
         DOMAIN t[i].entries = {}
  PROVE  Linked(Dropped(t, p, n, i))
<1>1. PICK u : u = Dropped(t, p, n, i)
  OBVIOUS
<1>2. /\ i \in DOMAIN t /\ i # ROOT_INODE /\ p # i /\ t[p].kind = "Directory"
      /\ DOMAIN u = DOMAIN t \ {i}
      /\ \A j \in DOMAIN u : j # p => u[j] = t[j]
      /\ u[p] = [parent |-> t[p].parent, kind |-> t[p].kind, entries |-> Delete(t[p].entries, n)]
      /\ DOMAIN u[p].entries = DOMAIN t[p].entries \ {n}
      /\ \A m \in DOMAIN u[p].entries : u[p].entries[m] = t[p].entries[m]
      /\ \A j \in DOMAIN u : u[j].parent = t[j].parent /\ u[j].kind = t[j].kind
  <2>1. DropFacts(t, p, n, i, u)
    BY <1>1, DroppedTable
  <2> QED BY <2>1 DEF DropFacts
<1>3. ROOT_INODE \in DOMAIN u /\ p \in DOMAIN u
  BY <1>2 DEF Linked, ShapedNodes, DirIn
<1>4. ShapedNodes(u)
  <2>1. \A j \in DOMAIN u : u[j] = [parent |-> u[j].parent, kind |-> u[j].kind, entries |-> u[j].entries]
    BY <1>2 DEF Linked, ShapedNodes
  <2>2. \A j \in DOMAIN u : DOMAIN u[j].entries \subseteq Name /\ (u[j].kind # "Directory" => DOMAIN u[j].entries = {})
    BY <1>2 DEF Linked, ShapedNodes
  <2>3. DirIn(u, ROOT_INODE) /\ u[ROOT_INODE].parent = ROOT_INODE
    BY <1>2, <1>3 DEF Linked, ShapedNodes, DirIn
  <2> QED BY <2>1, <2>2, <2>3 DEF ShapedNodes
<1>5. EntriesLead(u)
  <2> SUFFICES ASSUME NEW q \in DOMAIN u, NEW m \in DOMAIN u[q].entries, NEW x, x = u[q].entries[m]
               PROVE  x \in DOMAIN u /\ x # ROOT_INODE /\ u[x].parent = q
    BY DEF EntriesLead
  <2>1. /\ m \in DOMAIN t[q].entries /\ x = t[q].entries[m] /\ (q = p => m # n)
        /\ x \in DOMAIN t /\ x # ROOT_INODE /\ t[x].parent = q
    BY <1>2 DEF Linked, EntriesLead
  <2>2. x # i
    BY <1>2, <2>1 DEF Linked, EntriesLead, OneName
  <2> QED BY <1>2, <2>1, <2>2
<1>6. OneName(u)
  BY <1>2 DEF Linked, OneName
<1>7. ParentsNamed(u)
  <2> SUFFICES ASSUME NEW j \in DOMAIN u, j # ROOT_INODE
               PROVE  DirIn(u, u[j].parent) /\ \E m \in DOMAIN u[u[j].parent].entries : u[u[j].parent].entries[m] = j
    BY DEF ParentsNamed
  <2>1. PICK q : q = u[j].parent
    OBVIOUS
  <2>2. j \in DOMAIN t /\ j # i /\ q = t[j].parent /\ DirIn(t, q) /\ q # i
    BY <1>2, <2>1, Childless DEF Linked, ParentsNamed
  <2>3. PICK m \in DOMAIN t[q].entries : t[q].entries[m] = j
    BY <2>2 DEF Linked, ParentsNamed
  <2>4. m \in DOMAIN u[q].entries /\ u[q].entries[m] = j
    BY <1>2, <2>2, <2>3 DEF DirIn
  <2>5. DirIn(u, q)
    BY <1>2, <2>2 DEF DirIn
  <2> QED BY <2>1, <2>4, <2>5
<1>8. Rooted(u)
  <2> SUFFICES ASSUME NEW S, S # {}, Closed(u, S) PROVE ROOT_INODE \in S
    BY DEF Rooted
  <2>1. Closed(t, S)
    BY <1>2 DEF Closed
  <2> QED BY <2>1 DEF Linked, Rooted
<1> QED BY <1>1, <1>4, <1>5, <1>6, <1>7, <1>8 DEF Linked

(* rename to a free name: one entry goes, one comes, and the node's parent *)
(* pointer follows.                                                        *)
MovedEntries(t, op, on, np, nn, i, j) ==
  IF j = op /\ j = np THEN Insert(Delete(t[j].entries, on), nn, i)
  ELSE IF j = op THEN Delete(t[j].entries, on)
  ELSE IF j = np THEN Insert(t[j].entries, nn, i)
  ELSE t[j].entries

Relocated(t, op, on, np, nn, i) ==
  [j \in DOMAIN t |-> [parent |-> IF j = i THEN np ELSE t[j].parent, kind |-> t[j].kind,
                       entries |-> MovedEntries(t, op, on, np, nn, i, j)]]

(* The entries after it.                                                   *)
EntryKept(t, op, on, j, m) == m \in DOMAIN t[j].entries /\ ~(j = op /\ m = on)

AfterMove(e, t, op, on, np, nn, i, j) ==
  /\ DOMAIN e = {m \in DOMAIN t[j].entries : EntryKept(t, op, on, j, m)} \cup {m \in {nn} : j = np}
  /\ j = np => e[nn] = i
  /\ \A m \in DOMAIN e : m # nn \/ j # np => e[m] = t[j].entries[m]

(* What a rename leaves in each directory.                                  *)
LEMMA EntriesMoved ==
  ASSUME NEW t, NEW op \in DOMAIN t, NEW on \in DOMAIN t[op].entries, NEW np \in DOMAIN t,
         NEW nn, nn \notin DOMAIN t[np].entries, NEW i, NEW j \in DOMAIN t,
         NEW e, e = MovedEntries(t, op, on, np, nn, i, j)
  PROVE  AfterMove(e, t, op, on, np, nn, i, j)
<1>1. CASE j = op /\ j = np
  <2>1. e = Insert(Delete(t[j].entries, on), nn, i)
    BY <1>1 DEF MovedEntries
  <2>2. PICK d : d = Delete(t[j].entries, on)
    OBVIOUS
  <2>3. DOMAIN d = DOMAIN t[j].entries \ {on} /\ \A m \in DOMAIN d : d[m] = t[j].entries[m]
    BY <2>2 DEF Delete
  <2>4. /\ DOMAIN e = DOMAIN d \cup {nn} /\ e[nn] = i /\ \A m \in DOMAIN e : m # nn => m \in DOMAIN d /\ e[m] = d[m]
    BY <2>1, <2>2 DEF Insert
  <2>5. DOMAIN e = {m \in DOMAIN t[j].entries : EntryKept(t, op, on, j, m)} \cup {m \in {nn} : j = np}
    BY <1>1, <2>3, <2>4 DEF EntryKept
  <2>6. \A m \in DOMAIN e : m # nn \/ j # np => e[m] = t[j].entries[m]
    BY <1>1, <2>3, <2>4
  <2> QED BY <2>4, <2>5, <2>6 DEF AfterMove
<1>2. CASE j = op /\ j # np
  <2>1. e = Delete(t[j].entries, on)
    BY <1>2 DEF MovedEntries
  <2>2. DOMAIN e = DOMAIN t[j].entries \ {on} /\ \A m \in DOMAIN e : e[m] = t[j].entries[m]
    BY <2>1 DEF Delete
  <2>3. DOMAIN e = {m \in DOMAIN t[j].entries : EntryKept(t, op, on, j, m)} \cup {m \in {nn} : j = np}
    BY <1>2, <2>2 DEF EntryKept
  <2> QED BY <1>2, <2>2, <2>3 DEF AfterMove
<1>3. CASE j # op /\ j = np
  <2>1. e = Insert(t[j].entries, nn, i)
    BY <1>3 DEF MovedEntries
  <2>2. /\ DOMAIN e = DOMAIN t[j].entries \cup {nn} /\ e[nn] = i
        /\ \A m \in DOMAIN e : m # nn => e[m] = t[j].entries[m]
    BY <2>1 DEF Insert
  <2>3. DOMAIN e = {m \in DOMAIN t[j].entries : EntryKept(t, op, on, j, m)} \cup {m \in {nn} : j = np}
    BY <1>3, <2>2 DEF EntryKept
  <2> QED BY <1>3, <2>2, <2>3 DEF AfterMove
<1>4. CASE j # op /\ j # np
  <2>1. e = t[j].entries
    BY <1>4 DEF MovedEntries
  <2>2. DOMAIN e = {m \in DOMAIN t[j].entries : EntryKept(t, op, on, j, m)} \cup {m \in {nn} : j = np}
    BY <1>4, <2>1 DEF EntryKept
  <2> QED BY <1>4, <2>1, <2>2 DEF AfterMove
<1> QED BY <1>1, <1>2, <1>3, <1>4

(* The node moved is not above its new directory: a set with the new       *)
(* directory and the parents of its members is without it.                 *)
LEMMA MoveNode ==
  ASSUME NEW t, Linked(t), NEW op \in DOMAIN t, NEW on \in DOMAIN t[op].entries, NEW np, DirIn(t, np),
         NEW nn \in Name, nn \notin DOMAIN t[np].entries, NEW i, i = t[op].entries[on],
         NEW A, Closed(t, A), np \in A, i \notin A
  PROVE  Linked(Relocated(t, op, on, np, nn, i))
<1>1. PICK u : u = Relocated(t, op, on, np, nn, i)
  OBVIOUS
<1>2. /\ i \in DOMAIN t /\ i # ROOT_INODE /\ t[i].parent = op /\ t[op].kind = "Directory"
      /\ np \in DOMAIN t /\ t[np].kind = "Directory"
  BY DEF Linked, EntriesLead, ShapedNodes, DirIn
<1>3. DOMAIN u = DOMAIN t /\ \A j \in DOMAIN t : u[j].parent = (IF j = i THEN np ELSE t[j].parent) /\ u[j].kind = t[j].kind
  BY <1>1 DEF Relocated
<1>4. /\ \A j \in DOMAIN t : \A m \in DOMAIN u[j].entries : (j = np /\ m = nn) \/ EntryKept(t, op, on, j, m)
      /\ \A j \in DOMAIN t : \A m \in DOMAIN t[j].entries :
           EntryKept(t, op, on, j, m) => m \in DOMAIN u[j].entries /\ u[j].entries[m] = t[j].entries[m]
      /\ nn \in DOMAIN u[np].entries /\ u[np].entries[nn] = i
  <2>1. ASSUME NEW j \in DOMAIN t PROVE AfterMove(u[j].entries, t, op, on, np, nn, i, j)
    <3>1. u[j].entries = MovedEntries(t, op, on, np, nn, i, j)
      BY <1>1 DEF Relocated
    <3>2. np \in DOMAIN t
      BY <1>2
    <3> QED BY <3>1, <3>2, EntriesMoved
  <2>2. ASSUME NEW j \in DOMAIN t, NEW m \in DOMAIN u[j].entries PROVE (j = np /\ m = nn) \/ EntryKept(t, op, on, j, m)
    BY <2>1 DEF AfterMove
  <2>3. ASSUME NEW j \in DOMAIN t, NEW m \in DOMAIN t[j].entries, EntryKept(t, op, on, j, m)
        PROVE  m \in DOMAIN u[j].entries /\ u[j].entries[m] = t[j].entries[m]
    <3>1. m # nn \/ j # np
      OBVIOUS
    <3> QED BY <2>1, <2>3, <3>1 DEF AfterMove
  <2>4. nn \in DOMAIN u[np].entries /\ u[np].entries[nn] = i
    BY <1>2, <2>1 DEF AfterMove
  <2> QED BY <2>2, <2>3, <2>4
<1>5. \A j \in DOMAIN u : u[j] = [parent |-> u[j].parent, kind |-> u[j].kind, entries |-> u[j].entries]
  BY <1>1 DEF Relocated
<1>6. ShapedNodes(u)
  <2>1. ASSUME NEW j \in DOMAIN u PROVE DOMAIN u[j].entries \subseteq Name
    BY <1>3, <1>4 DEF Linked, ShapedNodes, EntryKept
  <2>2. ASSUME NEW j \in DOMAIN u, u[j].kind # "Directory" PROVE DOMAIN u[j].entries = {}
    <3>1. j # np /\ DOMAIN t[j].entries = {}
      BY <1>2, <1>3, <2>2 DEF Linked, ShapedNodes
    <3> QED BY <1>3, <1>4, <3>1 DEF EntryKept
  <2>3. DirIn(u, ROOT_INODE) /\ u[ROOT_INODE].parent = ROOT_INODE
    BY <1>2, <1>3 DEF Linked, ShapedNodes, DirIn
  <2> QED BY <1>5, <2>1, <2>2, <2>3 DEF ShapedNodes
<1>7. \A q \in DOMAIN t : \A m \in DOMAIN t[q].entries : t[q].entries[m] = i => q = op /\ m = on
  <2> SUFFICES ASSUME NEW q \in DOMAIN t, NEW m \in DOMAIN t[q].entries, t[q].entries[m] = i PROVE q = op /\ m = on
    OBVIOUS
  <2>1. q = op
    BY <1>2 DEF Linked, EntriesLead
  <2> QED BY <2>1 DEF Linked, OneName
<1>8. EntriesLead(u)
  <2> SUFFICES ASSUME NEW q \in DOMAIN u, NEW m \in DOMAIN u[q].entries, NEW x, x = u[q].entries[m]
               PROVE  x \in DOMAIN u /\ x # ROOT_INODE /\ u[x].parent = q
    BY DEF EntriesLead
  <2>1. CASE q = np /\ m = nn
    BY <1>2, <1>3, <1>4, <2>1
  <2>2. CASE ~(q = np /\ m = nn)
    <3>0. EntryKept(t, op, on, q, m)
      BY <1>3, <1>4, <2>2
    <3>1. m \in DOMAIN t[q].entries /\ x = t[q].entries[m] /\ ~(q = op /\ m = on)
      BY <1>3, <1>4, <3>0 DEF EntryKept
    <3>2. x # i /\ x \in DOMAIN t /\ x # ROOT_INODE /\ t[x].parent = q
      BY <1>3, <1>7, <3>1 DEF Linked, EntriesLead
    <3> QED BY <1>3, <3>2
  <2> QED BY <2>1, <2>2
<1>9. OneName(u)
  <2> SUFFICES ASSUME NEW q \in DOMAIN u, NEW a \in DOMAIN u[q].entries, NEW b \in DOMAIN u[q].entries,
                      u[q].entries[a] = u[q].entries[b]
               PROVE  a = b
    BY DEF OneName
  <2>1. ASSUME NEW m \in DOMAIN u[q].entries, ~(q = np /\ m = nn) PROVE EntryKept(t, op, on, q, m) /\ u[q].entries[m] # i
    <3>1. EntryKept(t, op, on, q, m)
      BY <1>3, <1>4, <2>1
    <3>2. u[q].entries[m] = t[q].entries[m] /\ m \in DOMAIN t[q].entries /\ ~(q = op /\ m = on)
      BY <1>3, <1>4, <3>1 DEF EntryKept
    <3> QED BY <1>3, <1>7, <3>1, <3>2
  <2>2. CASE q = np /\ (a = nn \/ b = nn)
    BY <1>3, <1>4, <2>1, <2>2
  <2>3. CASE ~(q = np /\ (a = nn \/ b = nn))
    <3>1. a \in DOMAIN t[q].entries /\ b \in DOMAIN t[q].entries /\ t[q].entries[a] = t[q].entries[b]
      BY <1>3, <1>4, <2>1, <2>3 DEF EntryKept
    <3> QED BY <1>3, <3>1 DEF Linked, OneName
  <2> QED BY <2>2, <2>3
<1>10. ParentsNamed(u)
  <2> SUFFICES ASSUME NEW j \in DOMAIN u, j # ROOT_INODE, NEW q, q = u[j].parent
               PROVE  DirIn(u, q) /\ \E m \in DOMAIN u[q].entries : u[q].entries[m] = j
    BY DEF ParentsNamed
  <2>1. CASE j = i
    <3>1. q = np /\ np \in DOMAIN u /\ u[np].kind = t[np].kind
      BY <1>2, <1>3, <2>1
    <3>2. DirIn(u, np)
      BY <1>2, <3>1 DEF DirIn
    <3> QED BY <1>4, <2>1, <3>1, <3>2
  <2>2. CASE j # i
    <3>1. q = t[j].parent /\ DirIn(t, q)
      BY <1>3, <2>2 DEF Linked, ParentsNamed
    <3>2. PICK m \in DOMAIN t[q].entries : t[q].entries[m] = j
      BY <1>3, <3>1 DEF Linked, ParentsNamed
    <3>3. EntryKept(t, op, on, q, m)
      BY <2>2, <3>2 DEF EntryKept
    <3>4. m \in DOMAIN u[q].entries /\ u[q].entries[m] = j
      BY <1>4, <3>1, <3>2, <3>3 DEF DirIn
    <3> QED BY <1>3, <3>1, <3>4 DEF DirIn
  <2> QED BY <2>1, <2>2
<1>11. Rooted(u)
  <2> SUFFICES ASSUME NEW S, S # {}, Closed(u, S) PROVE ROOT_INODE \in S
    BY DEF Rooted
  <2>1. CASE i \notin S
    <3>1. Closed(t, S)
      BY <1>3, <2>1 DEF Closed
    <3> QED BY <3>1 DEF Linked, Rooted
  <2>2. CASE i \in S
    <3>1. np \in S
      BY <1>2, <1>3, <2>2 DEF Closed
    <3>2. Closed(t, S \cap A)
      BY <1>3 DEF Closed
    <3>3. ROOT_INODE \in S \cap A
      BY <3>1, <3>2 DEF Linked, Rooted
    <3> QED BY <3>3
  <2> QED BY <2>1, <2>2
<1> QED BY <1>1, <1>6, <1>8, <1>9, <1>10, <1>11 DEF Linked

-----------------------------------------------------------------------------
(***************************************************************************)
(* The walk up the parents, in rename's check and in "..".  There are more *)
(* steps than nodes, so it comes to a node twice and by then has been to   *)
(* every node it will ever be at.                                          *)
(***************************************************************************)
Above(j) == IF j \in DOMAIN nodes THEN nodes[j].parent ELSE j

IsWalk(f, i, k) == f = [m \in 0 .. k |-> IF m = 0 THEN i ELSE LET j == f[m - 1] IN IF j \in DOMAIN nodes THEN nodes[j].parent ELSE j]

(* The recursive definition in Ancestors has a solution.                   *)
LEMMA WalkExists ==
  ASSUME NEW i, NEW k \in Nat
  PROVE  \E f : IsWalk(f, i, k)
<1> DEFINE S == {n \in Nat : \E f : IsWalk(f, i, n)}
<1>1. 0 \in S
  <2> DEFINE f == [m \in 0 .. 0 |-> i]
  <2>1. IsWalk(f, i, 0)
    BY DEF IsWalk
  <2> QED BY <2>1
<1>2. ASSUME NEW n \in Nat, n \in S PROVE n + 1 \in S
  <2>1. PICK f : IsWalk(f, i, n)
    BY <1>2
  <2> DEFINE g == [m \in 0 .. n + 1 |-> IF m <= n THEN f[m] ELSE Above(f[n])]
  <2>2. f[0] = i /\ \A m \in 1 .. n : f[m] = Above(f[m - 1])
    BY <2>1 DEF IsWalk, Above
  <2>3. ASSUME NEW m \in 0 .. n + 1 PROVE g[m] = IF m = 0 THEN i ELSE Above(g[m - 1])
    <3>1. CASE m = 0
      BY <2>2, <3>1
    <3>2. CASE m \in 1 .. n
      <4>1. m - 1 \in 0 .. n /\ m # 0 /\ m - 1 \in 0 .. n + 1
        BY <3>2
      <4>2. g[m] = f[m] /\ g[m - 1] = f[m - 1]
        BY <3>2, <4>1
      <4> QED BY <2>2, <3>2, <4>1, <4>2
    <3>3. CASE m = n + 1
      BY <3>3
    <3> QED BY <3>1, <3>2, <3>3
  <2>4. IsWalk(g, i, n + 1)
    BY <2>3 DEF IsWalk, Above
  <2> QED BY <2>4
<1>3. Nat \subseteq S
  <2> HIDE DEF S
  <2> QED BY <1>1, <1>2, NatClosed
<1> QED BY <1>3

(* Ancestors is what such a walk goes through.                              *)
LEMMA AncestorWalk ==
  ASSUME NEW i
  PROVE  \E f : Ancestors(i) = {f[k] : k \in 0 .. MaxInode} /\ IsWalk(f, i, MaxInode)
<1> DEFINE f == CHOOSE g : IsWalk(g, i, MaxInode)
<1>1. IsWalk(f, i, MaxInode)
  BY WalkExists, RamFsAssumption
<1>2. Ancestors(i) = {f[k] : k \in 0 .. MaxInode}
  BY DEF Ancestors, IsWalk
<1> HIDE DEF f
<1> QED BY <1>1, <1>2

(* The ancestors of a node contain it and the parents of their members, up  *)
(* to the root: the walk is long enough.                                    *)
LEMMA ClosedAncestors ==
  ASSUME Linked(nodes), DOMAIN nodes \subseteq 1 .. MaxInode, NEW i \in DOMAIN nodes
  PROVE  \E A : A \subseteq Ancestors(i) /\ i \in A /\ Closed(nodes, A)
<1>1. PICK f : Ancestors(i) = {f[k] : k \in 0 .. MaxInode} /\ IsWalk(f, i, MaxInode)
  BY AncestorWalk
<1>2. f[0] = i /\ \A k \in 1 .. MaxInode : f[k] = Above(f[k - 1])
  BY <1>1, RamFsAssumption DEF IsWalk, Above
<1>3. \A j \in DOMAIN nodes : nodes[j].parent \in DOMAIN nodes
  BY DEF Linked, ShapedNodes, ParentsNamed, DirIn
<1> DEFINE S == {k \in Nat : k <= MaxInode => f[k] \in DOMAIN nodes}
<1>4. \A k \in 0 .. MaxInode : f[k] \in DOMAIN nodes
  <2>1. 0 \in S
    BY <1>2
  <2>2. ASSUME NEW k \in Nat, k \in S PROVE k + 1 \in S
    <3> SUFFICES ASSUME k + 1 <= MaxInode PROVE f[k + 1] \in DOMAIN nodes
      OBVIOUS
    <3>1. k + 1 \in 1 .. MaxInode /\ (k + 1) - 1 = k /\ k <= MaxInode
      BY RamFsAssumption
    <3>2. f[k + 1] = Above(f[k]) /\ f[k] \in DOMAIN nodes
      BY <1>2, <2>2, <3>1
    <3> QED BY <1>3, <3>2 DEF Above
  <2>3. Nat \subseteq S
    <3> HIDE DEF S
    <3> QED BY <2>1, <2>2, NatClosed
  <2> QED BY <2>3, RamFsAssumption
<1>5. \E a, b \in 0 .. MaxInode : a < b /\ f[a] = f[b]
  <2>1. IsFiniteSet(0 .. MaxInode) /\ Cardinality(0 .. MaxInode) = MaxInode + 1
    BY FS_Interval, RamFsAssumption
  <2>2. IsFiniteSet(1 .. MaxInode) /\ Cardinality(1 .. MaxInode) = MaxInode
    BY FS_Interval, RamFsAssumption
  <2>3. IsFiniteSet(DOMAIN nodes) /\ Cardinality(DOMAIN nodes) <= MaxInode /\ Cardinality(DOMAIN nodes) \in Nat
    BY <2>2, FS_Subset, FS_CardinalityType
  <2>4. f \in [0 .. MaxInode -> DOMAIN nodes]
    BY <1>1, <1>4 DEF IsWalk
  <2>5. \E a, b \in 0 .. MaxInode : a # b /\ f[a] = f[b]
    <3>1. Cardinality(DOMAIN nodes) < Cardinality(0 .. MaxInode)
      BY <2>1, <2>3, RamFsAssumption
    <3> QED BY <2>1, <2>3, <2>4, <3>1, FS_PigeonHole
  <2> QED BY <2>5, RamFsAssumption
<1>6. PICK a \in 0 .. MaxInode, b \in 0 .. MaxInode : a < b /\ f[a] = f[b]
  BY <1>5
<1> DEFINE A == {f[k] : k \in 0 .. b - 1}
<1>7. A \subseteq Ancestors(i) /\ i \in A /\ A \subseteq DOMAIN nodes
  <2>1. 0 .. b - 1 \subseteq 0 .. MaxInode /\ 0 \in 0 .. b - 1
    BY <1>6, RamFsAssumption
  <2> QED BY <1>1, <1>2, <1>4, <2>1
<1>8. ASSUME NEW k \in 0 .. b - 1 PROVE nodes[f[k]].parent \in A
  <2>1. /\ k \in 0 .. MaxInode /\ k + 1 \in 1 .. MaxInode /\ (k + 1) - 1 = k /\ a \in 0 .. b - 1
        /\ k + 1 = b \/ k + 1 \in 0 .. b - 1
    BY <1>6, RamFsAssumption
  <2>2. f[k + 1] = nodes[f[k]].parent
    BY <1>2, <1>4, <2>1 DEF Above
  <2>3. f[k + 1] \in A
    BY <1>6, <2>1
  <2> QED BY <2>2, <2>3
<1>9. Closed(nodes, A)
  BY <1>7, <1>8 DEF Closed
<1> QED BY <1>7, <1>9

-----------------------------------------------------------------------------
(* The table stays a tree.                                                 *)
TreeInv ==
  /\ next_inode \in 2 .. MaxInode /\ DOMAIN nodes \subseteq 1 .. next_inode - 1
  /\ Linked(nodes)

(* The invariant is about the table and the next number,                   *)
LEMMA TreeInvOf ==
  \A t, m : t = nodes /\ m = next_inode =>
    (TreeInv <=> m \in 2 .. MaxInode /\ DOMAIN t \subseteq 1 .. m - 1 /\ Linked(t))
BY DEF TreeInv

(* and so it is in the next state.                                         *)
LEMMA TreeInvOfNext ==
  (\A t, m : t = nodes /\ m = next_inode =>
     (TreeInv <=> m \in 2 .. MaxInode /\ DOMAIN t \subseteq 1 .. m - 1 /\ Linked(t)))'
BY TreeInvOf, PTL

(* create of a file, a directory or a symlink.                              *)
LEMMA CreateStep ==
  ASSUME TreeInv, NEW p, NEW n \in Name \cup BadName, NEW type, create(p, n, type)
  PROVE  TreeInv'
<1>1. create_error(p, n, type) = "Ok"
  BY DEF create
<1>2. n \in Name /\ DirIn(nodes, p) /\ n \notin DOMAIN nodes[p].entries /\ next_inode # MaxInode
  BY <1>1 DEF create_error, validate_name, DirError, Has, DirIn
<1>3. next_inode \notin DOMAIN nodes /\ next_inode \in Nat
  BY DEF TreeInv
<1>4. nodes' = Added(nodes, p, n, next_inode, type) /\ next_inode' = next_inode + 1
  BY DEF create, Added
<1>5. Linked(Added(nodes, p, n, next_inode, type))
  BY <1>2, <1>3, AddNode DEF TreeInv
<1>6. DOMAIN nodes' = DOMAIN nodes \cup {next_inode}
  BY <1>4 DEF Added
<1>7. next_inode' \in 2 .. MaxInode /\ DOMAIN nodes' \subseteq 1 .. next_inode' - 1
  BY <1>2, <1>4, <1>6, RamFsAssumption DEF TreeInv
<1>8. Linked(nodes')
  BY <1>4, <1>5
<1> QED BY <1>7, <1>8, TreeInvOfNext

(* unlink of a file and rmdir of an empty directory.                       *)
LEMMA RemoveStep ==
  ASSUME TreeInv, NEW p \in DOMAIN nodes, NEW n \in DOMAIN nodes[p].entries, NEW i, i = nodes[p].entries[n],
         DOMAIN nodes[i].entries = {}, RemoveNode(p, n, i), UNCHANGED next_inode
  PROVE  TreeInv'
<1>1. nodes' = Dropped(nodes, p, n, i)
  BY DEF RemoveNode, Dropped
<1>2. Linked(Dropped(nodes, p, n, i))
  BY DropNode DEF TreeInv
<1>3. DOMAIN nodes' \subseteq DOMAIN nodes
  BY <1>1 DEF Dropped
<1>4. Linked(nodes')
  BY <1>1, <1>2
<1>5. next_inode' \in 2 .. MaxInode /\ DOMAIN nodes' \subseteq 1 .. next_inode' - 1
  BY <1>3 DEF TreeInv
<1> QED BY <1>4, <1>5, TreeInvOfNext

(* unlink takes a node that is no directory, so it has no entries.          *)
LEMMA UnlinkStep ==
  ASSUME TreeInv, NEW p, NEW n, unlink(p, n)
  PROVE  TreeInv'
<1>1. unlink_error(p, n) = "Ok" /\ RemoveNode(p, n, nodes[p].entries[n]) /\ UNCHANGED next_inode
  BY DEF unlink
<1>2. PICK i : i = nodes[p].entries[n]
  OBVIOUS
<1>3. p \in DOMAIN nodes /\ n \in DOMAIN nodes[p].entries /\ i \in DOMAIN nodes /\ nodes[i].kind # "Directory"
  BY <1>1, <1>2 DEF unlink_error, DirError, Has, IsDir
<1>4. DOMAIN nodes[i].entries = {}
  BY <1>3 DEF TreeInv, Linked, ShapedNodes
<1> QED BY <1>1, <1>2, <1>3, <1>4, RemoveStep

(* rmdir has checked that the directory is empty.                           *)
LEMMA RmdirStep ==
  ASSUME TreeInv, NEW p, NEW n, rmdir(p, n)
  PROVE  TreeInv'
<1>1. rmdir_error(p, n) = "Ok" /\ RemoveNode(p, n, nodes[p].entries[n]) /\ UNCHANGED next_inode
  BY DEF rmdir
<1>2. PICK i : i = nodes[p].entries[n]
  OBVIOUS
<1>3. p \in DOMAIN nodes /\ n \in DOMAIN nodes[p].entries /\ DOMAIN nodes[i].entries = {}
  BY <1>1, <1>2 DEF rmdir_error, DirError, Has
<1> QED BY <1>1, <1>2, <1>3, RemoveStep

Movable(t, op, on, np, nn, i) ==
  /\ op \in DOMAIN t /\ on \in DOMAIN t[op].entries /\ DirIn(t, np) /\ nn \in Name
  /\ \E A : Closed(t, A) /\ np \in A /\ i \notin A
  /\ nn \in DOMAIN t[np].entries /\ t[np].entries[nn] # i => DOMAIN t[t[np].entries[nn]].entries = {}

(* What rename checked: the source is there, the destination is a          *)
(* directory the source is not above, and what it replaces is empty.       *)
LEMMA RenameChecks ==
  ASSUME TreeInv, NEW op, NEW on, NEW np, NEW nn \in Name \cup BadName, rename_error(op, on, np, nn) = "Ok",
         NEW i, i = nodes[op].entries[on]
  PROVE  Movable(nodes, op, on, np, nn, i)
<1>1. op \in DOMAIN nodes /\ on \in DOMAIN nodes[op].entries /\ DirIn(nodes, np) /\ nn \in Name
  BY DEF rename_error, validate_name, DirError, Has, IsDir, DirIn
<1>2. /\ i \in DOMAIN nodes /\ i # ROOT_INODE /\ DOMAIN nodes \subseteq 1 .. MaxInode
      /\ nodes[ROOT_INODE].parent = ROOT_INODE
  BY <1>1, RamFsAssumption DEF TreeInv, Linked, EntriesLead, ShapedNodes
<1>3. IsDir(i) => ~inside(i, np)
  BY <1>1 DEF rename_error, validate_name, DirError, Has, IsDir, DirIn
<1>4. \E A : Closed(nodes, A) /\ np \in A /\ i \notin A
  <2>1. CASE IsDir(i)
    <3>1. i \notin Ancestors(np)
      BY <1>3, <2>1 DEF inside
    <3>2. np \in DOMAIN nodes /\ Linked(nodes)
      BY <1>1 DEF DirIn, TreeInv
    <3> QED BY <1>2, <3>1, <3>2, ClosedAncestors
  <2>2. CASE ~IsDir(i)
    <3>1. DOMAIN nodes[i].entries = {} /\ np # i /\ np \in DOMAIN nodes
      BY <1>1, <1>2, <2>2 DEF TreeInv, Linked, ShapedNodes, IsDir, DirIn
    <3>2. \A j \in DOMAIN nodes : nodes[j].parent \in DOMAIN nodes
      BY DEF TreeInv, Linked, ShapedNodes, ParentsNamed, DirIn
    <3>3. \A j \in DOMAIN nodes : nodes[j].parent # i
      <4> TAKE j \in DOMAIN nodes
      <4>1. CASE j = ROOT_INODE
        BY <1>2, <4>1
      <4>2. CASE j # ROOT_INODE
        BY <1>2, <3>1, <4>2, Childless DEF TreeInv
      <4> QED BY <4>1, <4>2
    <3>4. Closed(nodes, DOMAIN nodes \ {i})
      BY <3>2, <3>3 DEF Closed
    <3> QED BY <3>1, <3>4
  <2> QED BY <2>1, <2>2
<1>5. ASSUME nn \in DOMAIN nodes[np].entries, NEW e, e = nodes[np].entries[nn], e # i
      PROVE  DOMAIN nodes[e].entries = {}
  <2>1. replace_error(i, e) = "Ok"
    BY <1>1, <1>5 DEF rename_error, validate_name, DirError, Has, IsDir, DirIn
  <2>2. e \in DOMAIN nodes
    BY <1>1, <1>5 DEF TreeInv, Linked, EntriesLead, DirIn
  <2>3. ~IsDir(e) => DOMAIN nodes[e].entries = {}
    BY <2>2 DEF IsDir, TreeInv, Linked, ShapedNodes
  <2> QED BY <2>1, <2>3 DEF replace_error
<1> QED BY <1>1, <1>4, <1>5 DEF Movable

(* Deleting an entry before inserting one of the same name changes nothing. *)
LEMMA InsertOver ==
  ASSUME NEW e, NEW n, NEW m, NEW i
  PROVE  /\ Insert(Delete(e, n), n, i) = Insert(e, n, i)
         /\ Insert(Delete(Delete(e, n), m), n, i) = Insert(Delete(e, m), n, i)
BY DEF Insert, Delete

(* rename: onto itself, to a free name, or over a childless node, which is  *)
(* then dropped first.                                                      *)
LEMMA RenameStep ==
  ASSUME TreeInv, NEW op, NEW on, NEW np, NEW nn \in Name \cup BadName, rename(op, on, np, nn)
  PROVE  TreeInv'
<1>1. PICK i : i = nodes[op].entries[on]
  OBVIOUS
<1>2. rename_error(op, on, np, nn) = "Ok" /\ UNCHANGED next_inode
  BY DEF rename
<1>0. Movable(nodes, op, on, np, nn, i)
  BY <1>1, <1>2, RenameChecks
<1>3. /\ op \in DOMAIN nodes /\ on \in DOMAIN nodes[op].entries /\ DirIn(nodes, np) /\ nn \in Name
      /\ nn \in DOMAIN nodes[np].entries /\ nodes[np].entries[nn] # i
           => DOMAIN nodes[nodes[np].entries[nn]].entries = {}
  BY <1>0 DEF Movable
<1>4. PICK A : Closed(nodes, A) /\ np \in A /\ i \notin A
  BY <1>0 DEF Movable
<1>5. CASE nn \in DOMAIN nodes[np].entries /\ nodes[np].entries[nn] = i
  <2>1. nodes' = nodes /\ next_inode' = next_inode
    BY <1>1, <1>2, <1>5 DEF rename, Has
  <2>2. next_inode \in 2 .. MaxInode /\ DOMAIN nodes \subseteq 1 .. next_inode - 1 /\ Linked(nodes)
    BY DEF TreeInv
  <2> QED BY <2>1, <2>2, TreeInvOfNext
<1>6. CASE nn \notin DOMAIN nodes[np].entries
  <2>1. nodes' = Relocated(nodes, op, on, np, nn, i)
    BY <1>1, <1>6 DEF rename, Has, Relocated, MovedEntries
  <2>2. Linked(Relocated(nodes, op, on, np, nn, i))
    BY <1>1, <1>3, <1>4, <1>6, MoveNode DEF TreeInv
  <2>3. DOMAIN nodes' = DOMAIN nodes
    BY <2>1 DEF Relocated
  <2>4. Linked(nodes')
    BY <2>1, <2>2
  <2>20. next_inode' \in 2 .. MaxInode /\ DOMAIN nodes' \subseteq 1 .. next_inode' - 1
    BY <1>2, <2>3 DEF TreeInv
  <2> QED BY <2>4, <2>20, TreeInvOfNext
<1>7. CASE nn \in DOMAIN nodes[np].entries /\ nodes[np].entries[nn] # i
  <2>1. PICK e : e = nodes[np].entries[nn]
    OBVIOUS
  <2>2. PICK v : v = Dropped(nodes, np, nn, e)
    OBVIOUS
  <2>3. Linked(nodes) /\ np \in DOMAIN nodes /\ DOMAIN nodes[e].entries = {} /\ e # i
    BY <1>3, <1>7, <2>1 DEF TreeInv, DirIn
  <2>4. /\ e \in DOMAIN nodes /\ e # ROOT_INODE /\ np # e
        /\ DOMAIN v = DOMAIN nodes \ {e}
        /\ \A j \in DOMAIN v : j # np => v[j] = nodes[j]
        /\ v[np] = [parent |-> nodes[np].parent, kind |-> nodes[np].kind, entries |-> Delete(nodes[np].entries, nn)]
        /\ DOMAIN v[np].entries = DOMAIN nodes[np].entries \ {nn}
        /\ \A m \in DOMAIN v[np].entries : v[np].entries[m] = nodes[np].entries[m]
        /\ \A j \in DOMAIN v : v[j].parent = nodes[j].parent /\ v[j].kind = nodes[j].kind
    <3>1. DropFacts(nodes, np, nn, e, v)
      BY <1>7, <2>1, <2>2, <2>3, DroppedTable
    <3> QED BY <3>1 DEF DropFacts
  <2>5. Linked(v)
    BY <1>7, <2>1, <2>2, <2>3, DropNode
  <2>6. op \in DOMAIN v /\ on \in DOMAIN v[op].entries /\ i = v[op].entries[on]
    <3>1. op # e /\ (op = np => on # nn)
      BY <1>1, <1>3, <2>1, <2>3
    <3> QED BY <1>1, <1>3, <2>4, <3>1
  <2>7. DirIn(v, np) /\ nn \notin DOMAIN v[np].entries
    BY <1>3, <2>3, <2>4 DEF DirIn
  <2>8. Closed(v, A \ {e}) /\ np \in A \ {e} /\ i \notin A \ {e}
    <3>1. ASSUME NEW j \in A PROVE nodes[j].parent \in A /\ nodes[j].parent # e
      <4>1. j \in DOMAIN nodes /\ nodes[j].parent \in A
        BY <1>4 DEF Closed
      <4>2. CASE j = ROOT_INODE
        BY <2>3, <2>4, <4>1, <4>2 DEF Linked, ShapedNodes
      <4>3. CASE j # ROOT_INODE
        BY <2>3, <2>4, <4>1, <4>3, Childless
      <4> QED BY <4>1, <4>2, <4>3
    <3> QED BY <1>4, <2>4, <3>1 DEF Closed
  <2>9. Linked(Relocated(v, op, on, np, nn, i))
    BY <1>3, <2>5, <2>6, <2>7, <2>8, MoveNode
  <2>10. nodes' = [j \in DOMAIN nodes \ {e} |->
                     [parent |-> IF j = i THEN np ELSE nodes[j].parent, kind |-> nodes[j].kind,
                      entries |-> MovedEntries(nodes, op, on, np, nn, i, j)]]
    BY <1>1, <1>7, <2>1 DEF rename, Has, MovedEntries
  <2>11. ASSUME NEW j \in DOMAIN v PROVE MovedEntries(v, op, on, np, nn, i, j) = MovedEntries(nodes, op, on, np, nn, i, j)
    <3>1. CASE j = np
      <4>1. v[j].entries = Delete(nodes[j].entries, nn)
        BY <2>4, <3>1
      <4> QED BY <3>1, <4>1, InsertOver DEF MovedEntries
    <3>2. CASE j # np
      BY <2>4, <3>2 DEF MovedEntries
    <3> QED BY <3>1, <3>2
  <2>12. Relocated(v, op, on, np, nn, i) =
           [j \in DOMAIN v |-> [parent |-> IF j = i THEN np ELSE v[j].parent, kind |-> v[j].kind,
                                entries |-> MovedEntries(v, op, on, np, nn, i, j)]]
    BY DEF Relocated
  <2>13. nodes' = Relocated(v, op, on, np, nn, i)
    BY <2>4, <2>10, <2>11, <2>12
  <2>14. DOMAIN nodes' \subseteq DOMAIN nodes
    BY <2>10
  <2>15. Linked(nodes')
    BY <2>9, <2>13
  <2>20. next_inode' \in 2 .. MaxInode /\ DOMAIN nodes' \subseteq 1 .. next_inode' - 1
    BY <1>2, <2>14 DEF TreeInv
  <2> QED BY <2>15, <2>20, TreeInvOfNext
<1> QED BY <1>5, <1>6, <1>7

(* RamFs::new has the root alone.                                           *)
LEMMA TreeInit == Init => TreeInv
<1> SUFFICES ASSUME Init PROVE TreeInv
  OBVIOUS
<1>1. /\ DOMAIN nodes = {ROOT_INODE} /\ next_inode = ROOT_INODE + 1
      /\ nodes[ROOT_INODE] = [parent |-> ROOT_INODE, kind |-> "Directory", entries |-> NoEntries]
  BY DEF Init, Node
<1>2. DOMAIN NoEntries = {}
  BY DEF NoEntries
<1>3. next_inode \in 2 .. MaxInode /\ DOMAIN nodes \subseteq 1 .. next_inode - 1
  BY <1>1, RamFsAssumption DEF ROOT_INODE
<1>4. Rooted(nodes)
  BY <1>1 DEF Rooted, Closed
<1>5. ShapedNodes(nodes) /\ EntriesLead(nodes) /\ OneName(nodes) /\ ParentsNamed(nodes)
  BY <1>1, <1>2 DEF ShapedNodes, EntriesLead, OneName, ParentsNamed, DirIn
<1> QED BY <1>3, <1>4, <1>5 DEF TreeInv, Linked

(* A step that leaves the table alone.                                      *)
LEMMA TreeKept == TreeInv /\ UNCHANGED fsvars => TreeInv'
<1> SUFFICES ASSUME TreeInv, UNCHANGED fsvars PROVE TreeInv'
  OBVIOUS
<1>1. nodes' = nodes /\ next_inode' = next_inode
  BY DEF fsvars
<1>2. next_inode \in 2 .. MaxInode /\ DOMAIN nodes \subseteq 1 .. next_inode - 1 /\ Linked(nodes)
  BY DEF TreeInv
<1> QED BY <1>1, <1>2, TreeInvOfNext

(* A linked table is a tree whose walks all end at the root.               *)
LEMMA TreeOk == TreeInv => TreeWellFormed
<1> SUFFICES ASSUME TreeInv PROVE TreeWellFormed
  OBVIOUS
<1>1. ASSUME NEW p \in DOMAIN nodes, NEW n \in Name, Has(p, n)
      PROVE  nodes[p].entries[n] \in DOMAIN nodes \ {ROOT_INODE} /\ nodes[nodes[p].entries[n]].parent = p
  BY <1>1 DEF Has, TreeInv, Linked, EntriesLead
<1>2. ASSUME NEW i \in DOMAIN nodes \ {ROOT_INODE}
      PROVE  /\ IsDir(nodes[i].parent)
             /\ \E n \in Name : Names(nodes[i].parent, n, i)
             /\ \A n, m \in Name : Names(nodes[i].parent, n, i) /\ Names(nodes[i].parent, m, i) => n = m
  <2>1. PICK p : p = nodes[i].parent
    OBVIOUS
  <2>2. DirIn(nodes, p) /\ DOMAIN nodes[p].entries \subseteq Name
    BY <2>1 DEF TreeInv, Linked, ParentsNamed, ShapedNodes, DirIn
  <2>3. \E n \in DOMAIN nodes[p].entries : nodes[p].entries[n] = i
    BY <2>1 DEF TreeInv, Linked, ParentsNamed
  <2>4. \A n, m \in DOMAIN nodes[p].entries : nodes[p].entries[n] = nodes[p].entries[m] => n = m
    BY <2>2 DEF TreeInv, Linked, OneName, DirIn
  <2> QED BY <2>1, <2>2, <2>3, <2>4 DEF IsDir, DirIn, Names, Has
<1>3. ASSUME NEW i \in DOMAIN nodes PROVE ROOT_INODE \in Ancestors(i)
  <2>1. DOMAIN nodes \subseteq 1 .. MaxInode /\ Linked(nodes)
    BY RamFsAssumption DEF TreeInv
  <2>2. PICK A : A \subseteq Ancestors(i) /\ i \in A /\ Closed(nodes, A)
    BY <2>1, ClosedAncestors
  <2>3. ROOT_INODE \in A
    BY <2>2 DEF TreeInv, Linked, Rooted
  <2> QED BY <2>2, <2>3
<1> QED BY <1>1, <1>2, <1>3 DEF TreeWellFormed

(* Every call of RamFs leaves its node table one tree: no entry dangles,   *)
(* no node is out of reach or has two names, and ".." leads from every     *)
(* node to the root, so that rename's loop over the parents ends           *)
(* (TreeWellFormed), for any number of nodes and names.                    *)
THEOREM TableIsTree == Spec => []TreeWellFormed
<1>1. ASSUME TreeInv, [Next]_fsvars PROVE TreeInv'
  <2>1. ASSUME NEW p \in Inode, NEW n \in Name \cup BadName, NEW type, create(p, n, type) PROVE TreeInv'
    BY <1>1, <2>1, CreateStep
  <2>2. ASSUME NEW p \in Inode, NEW n \in Name \cup BadName, unlink(p, n) PROVE TreeInv'
    BY <1>1, <2>2, UnlinkStep
  <2>3. ASSUME NEW p \in Inode, NEW n \in Name \cup BadName, rmdir(p, n) PROVE TreeInv'
    BY <1>1, <2>3, RmdirStep
  <2>4. ASSUME NEW p \in Inode, NEW n \in Name \cup BadName, NEW q \in Inode, NEW m \in Name \cup BadName, rename(p, n, q, m)
        PROVE  TreeInv'
    BY <1>1, <2>4, RenameStep
  <2>5. CASE UNCHANGED fsvars
    BY <1>1, <2>5, TreeKept
  <2> QED BY <1>1, <2>1, <2>2, <2>3, <2>4, <2>5 DEF Next, symlink
<1> QED BY <1>1, TreeInit, TreeOk, PTL DEF Spec

-----------------------------------------------------------------------------
(***************************************************************************)
(* Path operations.  A call in progress is on the way down its path; the   *)
(* file of an exclusive create is one that no other call made; and while a *)
(* path without ".." has existed since the call began, the call stands     *)
(* where the path goes through, as long as a name is still to be looked    *)
(* up.                                                                     *)
(***************************************************************************)
InProgress(c) ==
  /\ c = [pc |-> c.pc, req |-> c.req, at |-> c.at, todo |-> c.todo, from |-> c.from]
  /\ c.req \in Requests
  /\ c.pc \in {"target", "parent", "to", "opened", "truncated"}
  /\ c.pc = "target" => \E k \in 0 .. Len(c.req.path) : c.todo = SubSeq(c.req.path, k + 1, Len(c.req.path))
  /\ c.pc \in {"parent", "to"} => c.req.path # <<>> /\ (c.req.op = "rename" => c.req.to # <<>>)

CallOk(c) ==
  \/ c = Idle
  \/ c.pc = "returned" /\ c = [pc |-> "returned", req |-> c.req, inode |-> c.inode] /\ c.req \in Requests
  \/ InProgress(c)

Exclusive(c) == c.pc \in {"opened", "truncated", "returned"} /\ c.req.create /\ c.req.exclusive
MadeBy(c) == IF c.pc = "returned" THEN c.inode ELSE c.at

ExclusiveOwn ==
  /\ \A t \in Thread : Exclusive(call[t]) => MadeBy(call[t]) \in Nat /\ MadeBy(call[t]) < next_inode
  /\ \A t, u \in Thread : t # u /\ Exclusive(call[t]) /\ Exclusive(call[u]) => MadeBy(call[t]) # MadeBy(call[u])

CallsOk == DOMAIN call = Thread /\ \A t \in Thread : CallOk(call[t])

NoUp(path) == \A k \in DOMAIN path : path[k] # ".."
NameLeft(path, k) == \E m \in k + 1 .. Len(path) : path[m] # "."

OnPath(c) ==
  \A path \in {r.path : r \in Requests} : \A k \in 0 .. Len(path) :
    path = c.req.path /\ c.todo = SubSeq(path, k + 1, Len(path)) /\ NameLeft(path, k) => c.at = Walked(path)[k]

StableOnPath ==
  \A t \in Thread :
    stable[t] => /\ Busy(t) /\ PathExists(t)
                 /\ call[t].pc = "target" /\ NoUp(call[t].req.path) => OnPath(call[t])

-----------------------------------------------------------------------------
(***************************************************************************)
(* Walks down a path, in any table.                                        *)
(***************************************************************************)
StepIn(t, i, n) ==
  IF i = 0 \/ n = "." THEN i
  ELSE IF DirIn(t, i) /\ (n = ".." \/ n \in DOMAIN t[i].entries)
       THEN IF n = ".." THEN t[i].parent ELSE t[i].entries[n] ELSE 0

Trail(w, t, path) == w[0] = ROOT_INODE /\ \A k \in 1 .. Len(path) : w[k] = StepIn(t, w[k - 1], path[k])

IsTrail(w, path, k) == w = [m \in 0 .. k |-> IF m = 0 THEN ROOT_INODE ELSE Onward(w[m - 1], path[m])]

(* The recursive definition of Walked has a solution.                      *)
LEMMA TrailExists ==
  ASSUME NEW path, NEW k \in Nat
  PROVE  \E w : IsTrail(w, path, k)
<1> DEFINE S == {n \in Nat : \E w : IsTrail(w, path, n)}
<1>1. 0 \in S
  <2> DEFINE w == [m \in 0 .. 0 |-> ROOT_INODE]
  <2>1. IsTrail(w, path, 0)
    BY DEF IsTrail
  <2> QED BY <2>1
<1>2. ASSUME NEW n \in Nat, n \in S PROVE n + 1 \in S
  <2>1. PICK f : IsTrail(f, path, n)
    BY <1>2
  <2> DEFINE g == [m \in 0 .. n + 1 |-> IF m <= n THEN f[m] ELSE Onward(f[n], path[n + 1])]
  <2>2. f[0] = ROOT_INODE /\ \A m \in 1 .. n : f[m] = Onward(f[m - 1], path[m])
    BY <2>1 DEF IsTrail
  <2>3. ASSUME NEW m \in 0 .. n + 1 PROVE g[m] = IF m = 0 THEN ROOT_INODE ELSE Onward(g[m - 1], path[m])
    <3>1. CASE m = 0
      BY <2>2, <3>1
    <3>2. CASE m \in 1 .. n
      <4>1. m - 1 \in 0 .. n /\ m # 0 /\ m - 1 \in 0 .. n + 1
        BY <3>2
      <4>2. g[m] = f[m] /\ g[m - 1] = f[m - 1]
        BY <3>2, <4>1
      <4> QED BY <2>2, <3>2, <4>1, <4>2
    <3>3. CASE m = n + 1
      BY <3>3
    <3> QED BY <3>1, <3>2, <3>3
  <2>4. IsTrail(g, path, n + 1)
    BY <2>3 DEF IsTrail
  <2> QED BY <2>4
<1>3. Nat \subseteq S
  <2> HIDE DEF S
  <2> QED BY <1>1, <1>2, NatClosed
<1> QED BY <1>3

(* Walked follows the entries of the table.                                *)
LEMMA WalkedTrail == \A path \in Seq(Name \cup BadName) : Trail(Walked(path), nodes, path)
<1> TAKE path \in Seq(Name \cup BadName)
<1> DEFINE w == CHOOSE g : IsTrail(g, path, Len(path))
<1>1. IsTrail(w, path, Len(path))
  BY TrailExists
<1>2. Walked(path) = w
  BY DEF Walked, IsTrail
<1> HIDE DEF w
<1>3. w[0] = ROOT_INODE /\ \A k \in 1 .. Len(path) : w[k] = Onward(w[k - 1], path[k])
  BY <1>1 DEF IsTrail
<1>4. ASSUME NEW i, NEW n PROVE Onward(i, n) = StepIn(nodes, i, n)
  BY DEF Onward, StepIn, lookup_error, lookup, DirError, Has, DirIn
<1> QED BY <1>2, <1>3, <1>4 DEF Trail

(* A walk that is not found goes no further.                               *)
LEMMA TrailEnds ==
  ASSUME NEW t, NEW path \in Seq(Name \cup BadName), NEW w, Trail(w, t, path), w[Len(path)] # 0,
         NEW k \in 0 .. Len(path)
  PROVE  w[k] # 0
<1> DEFINE S == {n \in Nat : n <= Len(path) => w[Len(path) - n] # 0}
<1>0. Len(path) \in Nat
  OBVIOUS
<1>1. 0 \in S
  BY <1>0
<1>2. ASSUME NEW n \in Nat, n \in S PROVE n + 1 \in S
  <2> SUFFICES ASSUME n + 1 <= Len(path) PROVE w[Len(path) - (n + 1)] # 0
    OBVIOUS
  <2>1. /\ Len(path) - n \in 1 .. Len(path) /\ (Len(path) - n) - 1 = Len(path) - (n + 1)
        /\ w[Len(path) - n] # 0
    BY <1>0, <1>2
  <2>2. w[Len(path) - n] = StepIn(t, w[Len(path) - (n + 1)], path[Len(path) - n])
    BY <2>1 DEF Trail
  <2> QED BY <2>1, <2>2 DEF StepIn
<1>3. Len(path) - k \in S
  <2> HIDE DEF S
  <2>1. Len(path) - k \in Nat
    BY <1>0
  <2> QED BY <1>1, <1>2, <2>1, NatClosed
<1>4. Len(path) - k \in Nat /\ Len(path) - k <= Len(path) /\ Len(path) - (Len(path) - k) = k
  BY <1>0
<1> QED BY <1>3, <1>4

(* There is one walk down a path.                                          *)
SameTrail(v, w, path) == \A k \in 0 .. Len(path) : v[k] = w[k]

(* Two walks down the same path of the same table are one.                  *)
LEMMA TrailUnique ==
  ASSUME NEW t, NEW path \in Seq(Name \cup BadName), NEW w, Trail(w, t, path), NEW v, Trail(v, t, path)
  PROVE  SameTrail(v, w, path)
<1> DEFINE S == {n \in Nat : n <= Len(path) => v[n] = w[n]}
<1>0. Len(path) \in Nat
  OBVIOUS
<1>1. 0 \in S
  BY DEF Trail
<1>2. ASSUME NEW n \in Nat, n \in S PROVE n + 1 \in S
  <2> SUFFICES ASSUME n + 1 <= Len(path) PROVE v[n + 1] = w[n + 1]
    OBVIOUS
  <2>1. n + 1 \in 1 .. Len(path) /\ (n + 1) - 1 = n /\ v[n] = w[n]
    BY <1>0, <1>2
  <2> QED BY <2>1 DEF Trail
<1>3. Nat \subseteq S
  <2> HIDE DEF S
  <2> QED BY <1>1, <1>2, NatClosed
<1> QED BY <1>0, <1>3 DEF SameTrail

(* Below a node without entries nothing is found but the node itself.      *)
LEMMA TrailDeadEnd ==
  ASSUME NEW t, NEW path \in Seq(Name \cup BadName), NoUp(path), NEW w, Trail(w, t, path), w[Len(path)] # 0,
         NEW k \in 0 .. Len(path), NameLeft(path, k)
  PROVE  DOMAIN t[w[k]].entries # {}
<1> SUFFICES ASSUME DOMAIN t[w[k]].entries = {} PROVE FALSE
  OBVIOUS
<1>0. Len(path) \in Nat /\ k \in Nat
  OBVIOUS
<1> DEFINE T == {m \in k + 1 .. Len(path) : path[m] # "."}
<1>1. PICK m \in T : \A j \in T : m <= j
  <2>1. T \in SUBSET Nat /\ T # {}
    BY <1>0 DEF NameLeft
  <2> HIDE DEF T
  <2> QED BY <2>1, LeastNat
<1>2. m \in k + 1 .. Len(path) /\ path[m] # "." /\ \A j \in k + 1 .. m - 1 : path[j] = "."
  BY <1>0, <1>1
<1> DEFINE S == {n \in Nat : k + n < m => w[k + n] = w[k]}
<1>3. Nat \subseteq S
  <2>1. 0 \in S
    BY <1>0
  <2>2. ASSUME NEW n \in Nat, n \in S PROVE n + 1 \in S
    <3> SUFFICES ASSUME k + (n + 1) < m PROVE w[k + (n + 1)] = w[k]
      OBVIOUS
    <3>1. /\ k + (n + 1) \in 1 .. Len(path) /\ k + (n + 1) \in k + 1 .. m - 1 /\ k + n < m
          /\ (k + (n + 1)) - 1 = k + n
      BY <1>0, <1>2
    <3>2. w[k + (n + 1)] = StepIn(t, w[k + n], ".") /\ w[k + n] = w[k]
      BY <1>2, <2>2, <3>1 DEF Trail
    <3> QED BY <3>2 DEF StepIn
  <2> HIDE DEF S
  <2> QED BY <2>1, <2>2, NatClosed
<1>4. w[m - 1] = w[k]
  <2>1. (m - 1) - k \in Nat /\ k + ((m - 1) - k) = m - 1 /\ m - 1 < m
    BY <1>0, <1>2
  <2> QED BY <1>3, <2>1
<1>5. m \in 1 .. Len(path) /\ m \in DOMAIN path /\ m \in 0 .. Len(path)
  BY <1>0, <1>2
<1>6. w[m] = StepIn(t, w[k], path[m]) /\ path[m] # ".." /\ path[m] # "."
  BY <1>2, <1>4, <1>5 DEF Trail, NoUp
<1>7. w[m] = 0 \/ w[k] = 0
  BY <1>6 DEF StepIn
<1> QED BY <1>5, <1>7, TrailEnds

(* From one table to another, the name of a node with entries is the name  *)
(* of that node or of none.                                                *)
EntriesKept(t, u) ==
  \A d \in DOMAIN t \cap DOMAIN u : \A n \in DOMAIN t[d].entries \cap DOMAIN u[d].entries :
    t[d].entries[n] = u[d].entries[n] \/ DOMAIN t[t[d].entries[n]].entries = {}

(* A path found in both leads through the same nodes.                      *)
LEMMA TrailsAgree ==
  ASSUME NEW t, NEW u, EntriesKept(t, u), NEW path \in Seq(Name \cup BadName), NoUp(path),
         NEW w, Trail(w, t, path), w[Len(path)] # 0, NEW v, Trail(v, u, path), v[Len(path)] # 0,
         NEW k \in 0 .. Len(path), NameLeft(path, k)
  PROVE  v[k] = w[k]
<1>0. Len(path) \in Nat
  OBVIOUS
<1> DEFINE S == {n \in Nat : n \in 0 .. Len(path) /\ NameLeft(path, n) => v[n] = w[n]}
<1>1. 0 \in S
  BY DEF Trail
<1>2. ASSUME NEW n \in Nat, n \in S PROVE n + 1 \in S
  <2> SUFFICES ASSUME n + 1 \in 0 .. Len(path), NameLeft(path, n + 1) PROVE v[n + 1] = w[n + 1]
    OBVIOUS
  <2>1. n \in 0 .. Len(path) /\ n + 1 \in 1 .. Len(path) /\ (n + 1) - 1 = n /\ n + 1 \in DOMAIN path
    BY <1>0
  <2>2. NameLeft(path, n)
    BY <1>0, <2>1 DEF NameLeft
  <2>3. v[n] = w[n]
    BY <1>2, <2>1, <2>2
  <2>4. w[n + 1] = StepIn(t, w[n], path[n + 1]) /\ v[n + 1] = StepIn(u, w[n], path[n + 1]) /\ path[n + 1] # ".."
    BY <2>1, <2>3 DEF Trail, NoUp
  <2>5. w[n + 1] # 0 /\ v[n + 1] # 0
    BY <2>1, TrailEnds
  <2>6. CASE path[n + 1] = "."
    BY <2>4, <2>6 DEF StepIn
  <2>7. CASE path[n + 1] # "."
    <3>1. /\ w[n] \in DOMAIN t \cap DOMAIN u
          /\ path[n + 1] \in DOMAIN t[w[n]].entries \cap DOMAIN u[w[n]].entries
          /\ w[n + 1] = t[w[n]].entries[path[n + 1]] /\ v[n + 1] = u[w[n]].entries[path[n + 1]]
      BY <2>4, <2>5, <2>7 DEF StepIn, DirIn
    <3>2. DOMAIN t[w[n + 1]].entries # {}
      BY <2>1, TrailDeadEnd
    <3> QED BY <3>1, <3>2 DEF EntriesKept
  <2> QED BY <2>6, <2>7
<1>3. Nat \subseteq S
  <2> HIDE DEF S
  <2> QED BY <1>1, <1>2, NatClosed
<1>4. k \in Nat
  OBVIOUS
<1> QED BY <1>3, <1>4

(* One call of the filesystem, or none.                                    *)
FsOp ==
  \/ UNCHANGED fsvars
  \/ \E p : \E n \in Name \cup BadName :
       \/ \E type : create(p, n, type)
       \/ unlink(p, n) \/ rmdir(p, n)
       \/ \E q : \E m \in Name \cup BadName : rename(p, n, q, m)

(* Whatever the call, the table stays a tree.                               *)
LEMMA FsOpTree == TreeInv /\ FsOp => TreeInv'
BY CreateStep, UnlinkStep, RmdirStep, RenameStep, TreeKept DEF FsOp

(* Inode numbers are handed out once.                                      *)
LEMMA FsOpNumbers == TreeInv /\ FsOp => next_inode \in Nat /\ next_inode' \in Nat /\ next_inode <= next_inode'
<1> SUFFICES ASSUME TreeInv, FsOp PROVE next_inode \in Nat /\ next_inode' \in Nat /\ next_inode <= next_inode'
  OBVIOUS
<1>1. next_inode' = next_inode \/ next_inode' = next_inode + 1
  <2>1. CASE UNCHANGED fsvars
    BY <2>1 DEF fsvars
  <2>2. ASSUME NEW q, NEW n, NEW type, create(q, n, type) PROVE next_inode' = next_inode + 1
    BY <2>2 DEF create
  <2>3. ASSUME NEW q, NEW n, unlink(q, n) \/ rmdir(q, n) PROVE next_inode' = next_inode
    BY <2>3 DEF unlink, rmdir
  <2>4. ASSUME NEW o, NEW n, NEW q, NEW m, rename(o, n, q, m) PROVE next_inode' = next_inode
    BY <2>4 DEF rename
  <2> QED BY <2>1, <2>2, <2>3, <2>4 DEF FsOp
<1> QED BY <1>1 DEF TreeInv

(* Only a childless node loses its name to another.                        *)
LEMMA FsOpEntries ==
  ASSUME TreeInv, FsOp
  PROVE  EntriesKept(nodes, nodes')
<1>1. CASE UNCHANGED fsvars
  BY <1>1 DEF fsvars, EntriesKept
<1>2. ASSUME NEW p, NEW n \in Name \cup BadName, NEW type, create(p, n, type)
      PROVE  EntriesKept(nodes, nodes')
  <2>1. create_error(p, n, type) = "Ok"
    BY <1>2 DEF create
  <2>2. p \in DOMAIN nodes /\ n \notin DOMAIN nodes[p].entries
    BY <2>1 DEF create_error, validate_name, DirError, Has
  <2>3. next_inode \notin DOMAIN nodes
    BY DEF TreeInv
  <2>4. ASSUME NEW d \in DOMAIN nodes, NEW m \in DOMAIN nodes[d].entries
        PROVE  nodes'[d].entries[m] = nodes[d].entries[m]
    <3>1. CASE d = p
      <4>1. nodes'[d] = [nodes[d] EXCEPT !.entries = Insert(nodes[d].entries, n, next_inode)]
        BY <1>2, <2>3, <3>1 DEF create
      <4>2. nodes[d] = [parent |-> nodes[d].parent, kind |-> nodes[d].kind, entries |-> nodes[d].entries]
        BY DEF TreeInv, Linked, ShapedNodes
      <4>3. nodes'[d].entries = Insert(nodes[d].entries, n, next_inode)
        BY <4>1, <4>2
      <4> QED BY <2>2, <3>1, <4>3 DEF Insert
    <3>2. CASE d # p
      BY <1>2, <2>3, <3>2 DEF create
    <3> QED BY <3>1, <3>2
  <2> QED BY <2>4 DEF EntriesKept
<1>3. ASSUME NEW p \in DOMAIN nodes, NEW n, NEW i, RemoveNode(p, n, i) PROVE EntriesKept(nodes, nodes')
  <2>1. ASSUME NEW d \in DOMAIN nodes', NEW m \in DOMAIN nodes'[d].entries
        PROVE  nodes'[d].entries[m] = nodes[d].entries[m]
    <3>1. CASE d = p
      <4>1. nodes'[d] = [nodes[d] EXCEPT !.entries = Delete(nodes[d].entries, n)]
        BY <1>3, <3>1 DEF RemoveNode
      <4>2. nodes[d] = [parent |-> nodes[d].parent, kind |-> nodes[d].kind, entries |-> nodes[d].entries]
        BY <3>1 DEF TreeInv, Linked, ShapedNodes
      <4>3. nodes'[d].entries = Delete(nodes[d].entries, n)
        BY <4>1, <4>2
      <4> QED BY <4>3 DEF Delete
    <3>2. CASE d # p
      BY <1>3, <3>2 DEF RemoveNode
    <3> QED BY <3>1, <3>2
  <2> QED BY <2>1 DEF EntriesKept
<1>4. ASSUME NEW p, NEW n, unlink(p, n) \/ rmdir(p, n) PROVE EntriesKept(nodes, nodes')
  <2>1. p \in DOMAIN nodes
    BY <1>4 DEF unlink, rmdir, unlink_error, rmdir_error, DirError
  <2> QED BY <1>3, <1>4, <2>1 DEF unlink, rmdir
<1>5. ASSUME NEW op, NEW on, NEW np, NEW nn \in Name \cup BadName, rename(op, on, np, nn)
      PROVE  EntriesKept(nodes, nodes')
  <2>1. PICK i : i = nodes[op].entries[on]
    OBVIOUS
  <2>2. nn \in DOMAIN nodes[np].entries /\ nodes[np].entries[nn] # i
          => DOMAIN nodes[nodes[np].entries[nn]].entries = {}
    <3>1. rename_error(op, on, np, nn) = "Ok"
      BY <1>5 DEF rename
    <3>2. Movable(nodes, op, on, np, nn, i)
      BY <2>1, <3>1, RenameChecks
    <3> QED BY <3>2 DEF Movable
  <2>3. CASE nn \in DOMAIN nodes[np].entries /\ nodes[np].entries[nn] = i
    BY <1>5, <2>1, <2>3 DEF rename, Has, EntriesKept
  <2>4. CASE ~(nn \in DOMAIN nodes[np].entries /\ nodes[np].entries[nn] = i)
    <3> DEFINE replaced == IF nn \in DOMAIN nodes[np].entries THEN {nodes[np].entries[nn]} ELSE {}
    <3>1. nodes' = [j \in DOMAIN nodes \ replaced |->
                     [parent |-> IF j = i THEN np ELSE nodes[j].parent, kind |-> nodes[j].kind,
                      entries |-> MovedEntries(nodes, op, on, np, nn, i, j)]]
      BY <1>5, <2>1, <2>4 DEF rename, Has, MovedEntries
    <3>2. ASSUME NEW d \in DOMAIN nodes \cap DOMAIN nodes',
                 NEW m \in DOMAIN nodes[d].entries \cap DOMAIN nodes'[d].entries
          PROVE  nodes'[d].entries[m] = nodes[d].entries[m] \/ (d = np /\ m = nn)
      <4>1. nodes'[d].entries = MovedEntries(nodes, op, on, np, nn, i, d)
        BY <3>1
      <4> QED BY <4>1 DEF MovedEntries, Insert, Delete
    <3> QED BY <2>2, <2>4, <3>2 DEF EntriesKept
  <2> QED BY <2>3, <2>4
<1> QED BY <1>1, <1>2, <1>4, <1>5 DEF FsOp

-----------------------------------------------------------------------------
(* What a step of thread t does to its call: c becomes d.                  *)
Running(c) == c.pc \notin {"idle", "returned"}

FileMade(c, d) ==
  Exclusive(d) => \/ Exclusive(c) /\ MadeBy(d) = MadeBy(c)
                  \/ MadeBy(d) = next_inode /\ next_inode' = next_inode + 1

Found(c, d) ==
  /\ c.pc = "target" /\ c.todo # <<>> /\ d = Advanced(c, d.at)
  /\ \/ Head(c.todo) = "." /\ d.at = c.at
     \/ Head(c.todo) # "." /\ lookup_error(c.at, Head(c.todo)) = "Ok" /\ d.at = lookup(c.at, Head(c.todo))

Onto(c, d) ==
  /\ Running(c) /\ Running(d) => d.req = c.req
  /\ d.pc = "target" => (~Running(c) /\ d.at = ROOT_INODE /\ d.todo = d.req.path) \/ Found(c, d)

Progress(t, d) ==
  call' = [call EXCEPT ![t] = d] /\ CallOk(d) /\ FsOp /\ FileMade(call[t], d) /\ Onto(call[t], d)

(* An operation that has not returned is in progress.                       *)
LEMMA RunningCall ==
  ASSUME NEW c, CallOk(c), Running(c)
  PROVE  InProgress(c)
BY DEF CallOk, Running, Idle

(* An operation other than an open that succeeds is forgotten.             *)
LEMMA ReturnStep ==
  ASSUME NEW t, NEW err, NEW inode, Return(t, err, inode), FsOp, err # "Ok" \/ call[t].req.op # "open"
  PROVE  Progress(t, Idle)
<1>1. call' = [call EXCEPT ![t] = Idle]
  BY DEF Return, Goto, Returned
<1>2. Idle.pc = "idle"
  BY DEF Idle
<1> QED BY <1>1, <1>2 DEF Progress, CallOk, FileMade, Exclusive, Onto, Running

(* The entry of an operation begins at the root, or returns at once.        *)
LEMMA CallStep ==
  ASSUME NEW t \in Thread, NEW r \in Requests, Call(t, r)
  PROVE  \E d : Progress(t, d)
<1>1. FsOp /\ ~Running(call[t])
  BY DEF Call, FsOp, Running
<1>2. CASE r.op \in {"open", "metadata"}
  <2>1. PICK d : d = [pc |-> "target", req |-> r, at |-> ROOT_INODE, todo |-> r.path, from |-> ROOT_INODE]
    OBVIOUS
  <2>2. call' = [call EXCEPT ![t] = d]
    BY <1>2, <2>1 DEF Call, Goto, Resolve
  <2>3. r.path \in Seq(Name \cup BadName)
    BY RequestAssumption
  <2>4. 0 \in 0 .. Len(r.path) /\ r.path = SubSeq(r.path, 0 + 1, Len(r.path))
    BY <2>3
  <2>5. InProgress(d)
    BY <2>1, <2>4 DEF InProgress
  <2>6. FileMade(call[t], d) /\ Onto(call[t], d)
    BY <1>1, <2>1 DEF FileMade, Exclusive, Onto, Running
  <2> QED BY <1>1, <2>2, <2>5, <2>6 DEF Progress, CallOk
<1>3. CASE r.op \notin {"open", "metadata"} /\ (r.path = <<>> \/ (r.op = "rename" /\ r.to = <<>>))
  <2>1. call' = [call EXCEPT ![t] = Idle]
    BY <1>3 DEF Call, Goto, Returned
  <2>2. Idle.pc = "idle"
    BY DEF Idle
  <2>3. Progress(t, Idle)
    BY <1>1, <2>1, <2>2 DEF Progress, CallOk, FileMade, Exclusive, Onto, Running
  <2> QED BY <2>3
<1>4. CASE r.op \notin {"open", "metadata"} /\ ~(r.path = <<>> \/ (r.op = "rename" /\ r.to = <<>>))
  <2>1. PICK d : d = [pc |-> "parent", req |-> r, at |-> ROOT_INODE, todo |-> split_parent(r.path).parent, from |-> ROOT_INODE]
    OBVIOUS
  <2>2. call' = [call EXCEPT ![t] = d]
    BY <1>4, <2>1 DEF Call, Goto, Resolve
  <2>3. InProgress(d)
    BY <1>4, <2>1 DEF InProgress
  <2>4. FileMade(call[t], d) /\ Onto(call[t], d)
    BY <1>1, <2>1 DEF FileMade, Exclusive, Onto, Running
  <2> QED BY <1>1, <2>2, <2>3, <2>4 DEF Progress, CallOk
<1> QED BY <1>2, <1>3, <1>4

(* One component of resolve: a node further, the fallback of open with      *)
(* create, or an error.                                                     *)
LEMMA LookupStep ==
  ASSUME NEW t \in Thread, CallOk(call[t]), Lookup(t)
  PROVE  \E d : Progress(t, d)
<1>1. PICK c : c = call[t]
  OBVIOUS
<1>2. FsOp /\ c.pc \in {"target", "parent", "to"} /\ c.todo # <<>> /\ Running(c)
  BY <1>1 DEF Lookup, FsOp, Running
<1>3. InProgress(c)
  BY <1>1, <1>2, RunningCall
<1>4. ASSUME NEW i, NEW d, d = Advanced(c, i), Goto(t, d),
             (Head(c.todo) = "." /\ i = c.at)
               \/ (Head(c.todo) # "." /\ lookup_error(c.at, Head(c.todo)) = "Ok" /\ i = lookup(c.at, Head(c.todo)))
      PROVE  Progress(t, d)
  <2>1. d = [pc |-> c.pc, req |-> c.req, at |-> i, todo |-> Tail(c.todo), from |-> c.from]
    BY <1>4 DEF Advanced
  <2>2. ASSUME c.pc = "target"
        PROVE  \E k \in 0 .. Len(c.req.path) : Tail(c.todo) = SubSeq(c.req.path, k + 1, Len(c.req.path))
    <3>1. PICK p : p = c.req.path
      OBVIOUS
    <3>2. p \in Seq(Name \cup BadName)
      BY <1>3, <3>1, RequestAssumption DEF InProgress
    <3>3. PICK k \in 0 .. Len(p) : c.todo = SubSeq(p, k + 1, Len(p))
      BY <1>3, <2>2, <3>1 DEF InProgress
    <3>4. k < Len(p)
      BY <1>2, <3>2, <3>3
    <3>5. k + 1 \in 0 .. Len(p) /\ Tail(c.todo) = SubSeq(p, (k + 1) + 1, Len(p))
      BY <3>2, <3>3, <3>4
    <3> QED BY <3>1, <3>5
  <2>3. InProgress(d)
    BY <1>2, <1>3, <2>1, <2>2 DEF InProgress
  <2>4. FileMade(c, d)
    BY <1>2, <2>1 DEF FileMade, Exclusive
  <2>5. Onto(c, d)
    <3>1. d.req = c.req /\ d.pc = c.pc /\ d.at = i
      BY <2>1
    <3>2. d.pc = "target" => Found(c, d)
      BY <1>2, <1>4, <3>1 DEF Found
    <3> QED BY <3>1, <3>2 DEF Onto
  <2> QED BY <1>1, <1>2, <1>4, <2>3, <2>4, <2>5 DEF Progress, CallOk, Goto
<1>5. CASE Head(c.todo) = "."
  BY <1>1, <1>4, <1>5 DEF Lookup
<1>6. CASE Head(c.todo) # "." /\ lookup_error(c.at, Head(c.todo)) = "Ok"
  BY <1>1, <1>4, <1>6 DEF Lookup
<1>7. CASE /\ Head(c.todo) # "." /\ lookup_error(c.at, Head(c.todo)) # "Ok"
           /\ lookup_error(c.at, Head(c.todo)) = "NotFound" /\ c.pc = "target" /\ c.req.op = "open" /\ c.req.create
  <2>1. PICK d : d = [pc |-> "parent", req |-> c.req, at |-> ROOT_INODE, todo |-> split_parent(c.req.path).parent,
                      from |-> ROOT_INODE]
    OBVIOUS
  <2>2. call' = [call EXCEPT ![t] = d]
    BY <1>1, <1>7, <2>1 DEF Lookup, Goto, Resolve
  <2>3. c.req.path # <<>>
    <3>1. PICK p : p = c.req.path
      OBVIOUS
    <3>2. p \in Seq(Name \cup BadName)
      BY <1>3, <3>1, RequestAssumption DEF InProgress
    <3>3. PICK k \in 0 .. Len(p) : c.todo = SubSeq(p, k + 1, Len(p))
      BY <1>3, <1>7, <3>1 DEF InProgress
    <3> QED BY <1>2, <3>1, <3>2, <3>3
  <2>4. InProgress(d)
    BY <1>3, <1>7, <2>1, <2>3 DEF InProgress
  <2>5. FileMade(c, d) /\ Onto(c, d)
    BY <1>2, <2>1 DEF FileMade, Exclusive, Onto, Running
  <2> QED BY <1>1, <1>2, <2>2, <2>4, <2>5 DEF Progress, CallOk
<1>8. CASE /\ Head(c.todo) # "." /\ lookup_error(c.at, Head(c.todo)) # "Ok"
           /\ ~(lookup_error(c.at, Head(c.todo)) = "NotFound" /\ c.pc = "target" /\ c.req.op = "open" /\ c.req.create)
  <2>1. Return(t, lookup_error(c.at, Head(c.todo)), ROOT_INODE)
    BY <1>1, <1>8 DEF Lookup
  <2>2. Progress(t, Idle)
    BY <1>2, <1>8, <2>1, ReturnStep
  <2> QED BY <2>2
<1> QED BY <1>5, <1>6, <1>7, <1>8

(* open after its path has resolved.                                       *)
LEMMA OpenedStep ==
  ASSUME NEW t \in Thread, CallOk(call[t]), Running(call[t]), NEW i, Opened(t, i), FsOp,
         call[t].req.create /\ call[t].req.exclusive => i = next_inode /\ next_inode' = next_inode + 1
  PROVE  \E d : Progress(t, d)
<1>1. PICK c : c = call[t]
  OBVIOUS
<1>2. InProgress(c) /\ Running(c)
  BY <1>1, RunningCall
<1>3. PICK d : d = [pc |-> "opened", req |-> c.req, at |-> i, todo |-> <<>>, from |-> c.from]
  OBVIOUS
<1>4. call' = [call EXCEPT ![t] = d]
  BY <1>1, <1>3 DEF Opened, Goto
<1>5. InProgress(d)
  BY <1>2, <1>3 DEF InProgress
<1>6. FileMade(c, d)
  BY <1>1, <1>3 DEF FileMade, Exclusive, MadeBy
<1>7. Onto(c, d)
  BY <1>3 DEF Onto
<1> QED BY <1>1, <1>4, <1>5, <1>6, <1>7 DEF Progress, CallOk

(* open of a path that resolved does not open what an exclusive create      *)
(* found.                                                                   *)
LEMMA OpenFoundStep ==
  ASSUME NEW t \in Thread, CallOk(call[t]), open_found(t)
  PROVE  \E d : Progress(t, d)
<1>1. FsOp /\ Running(call[t])
  BY DEF open_found, Resolved, FsOp, Running
<1>2. CASE call[t].req.exclusive /\ call[t].req.create
  <2>1. Return(t, "AlreadyExists", ROOT_INODE)
    BY <1>2 DEF open_found
  <2>2. Progress(t, Idle)
    BY <1>1, <2>1, ReturnStep
  <2> QED BY <2>2
<1>3. CASE ~(call[t].req.exclusive /\ call[t].req.create)
  <2>1. Opened(t, call[t].at)
    BY <1>3 DEF open_found
  <2> QED BY <1>1, <1>3, <2>1, OpenedStep
<1> QED BY <1>2, <1>3

(* The last name of a path is one the filesystem can be asked about.       *)
LEMMA LastName ==
  ASSUME NEW path \in Seq(Name \cup BadName), path # <<>>
  PROVE  split_parent(path).name \in Name \cup BadName
<1>1. Len(path) \in 1 .. Len(path)
  OBVIOUS
<1> QED BY <1>1 DEF split_parent

(* So the name that a split path ends in, and that of the destination of a  *)
(* rename.                                                                  *)
LEMMA PathName ==
  ASSUME NEW c, CallOk(c), c.pc \in {"parent", "to"}
  PROVE  /\ split_parent(c.req.path).name \in Name \cup BadName
         /\ c.req.op = "rename" => split_parent(c.req.to).name \in Name \cup BadName
<1>1. InProgress(c)
  BY RunningCall DEF Running
<1>2. /\ c.req.path \in Seq(Name \cup BadName) /\ c.req.to \in Seq(Name \cup BadName)
      /\ c.req.path # <<>> /\ (c.req.op = "rename" => c.req.to # <<>>)
  BY <1>1, RequestAssumption DEF InProgress
<1> QED BY <1>2, LastName

(* open that creates its file opens the inode just numbered.                *)
LEMMA OpenCreateStep ==
  ASSUME NEW t \in Thread, CallOk(call[t]), open_create(t)
  PROVE  \E d : Progress(t, d)
<1>1. PICK p : p = call[t].at
  OBVIOUS
<1>2. PICK n : n = split_parent(call[t].req.path).name
  OBVIOUS
<1>3. n \in Name \cup BadName /\ Running(call[t])
  BY <1>2, PathName DEF open_create, Resolved, Running
<1>4. CASE create_error(p, n, "Regular") = "Ok"
  <2>1. create(p, n, "Regular") /\ Opened(t, next_inode)
    BY <1>1, <1>2, <1>4 DEF open_create, CreateOr
  <2>2. FsOp
    BY <1>3, <2>1 DEF FsOp
  <2>3. next_inode' = next_inode + 1
    BY <2>1 DEF create
  <2> QED BY <1>3, <2>1, <2>2, <2>3, OpenedStep
<1>5. CASE create_error(p, n, "Regular") # "Ok"
  <2>1. Return(t, create_error(p, n, "Regular"), ROOT_INODE) /\ UNCHANGED fsvars
    BY <1>1, <1>2, <1>5 DEF open_create, CreateOr
  <2>2. Progress(t, Idle)
    BY <1>5, <2>1, ReturnStep DEF FsOp
  <2> QED BY <2>2
<1> QED BY <1>4, <1>5

(* open goes on with the same file, or fails.                               *)
LEMMA OpenTruncateStep ==
  ASSUME NEW t \in Thread, CallOk(call[t]), open_truncate(t)
  PROVE  \E d : Progress(t, d)
<1>1. PICK c : c = call[t]
  OBVIOUS
<1>2. FsOp /\ c.pc = "opened" /\ Running(c)
  BY <1>1 DEF open_truncate, FsOp, Running
<1>3. InProgress(c)
  BY <1>1, <1>2, RunningCall
<1>4. CASE Goto(t, [c EXCEPT !.pc = "truncated"])
  <2>1. PICK d : d = [c EXCEPT !.pc = "truncated"]
    OBVIOUS
  <2>2. d = [pc |-> "truncated", req |-> c.req, at |-> c.at, todo |-> c.todo, from |-> c.from]
    BY <1>3, <2>1 DEF InProgress
  <2>3. InProgress(d)
    BY <1>3, <2>2 DEF InProgress
  <2>4. FileMade(c, d)
    BY <1>2, <2>2 DEF FileMade, Exclusive, MadeBy
  <2>5. Onto(c, d)
    BY <2>2 DEF Onto
  <2> QED BY <1>1, <1>2, <1>4, <2>1, <2>3, <2>4, <2>5 DEF Progress, CallOk, Goto
<1>5. ASSUME NEW err, err # "Ok", NEW i, Return(t, err, i) PROVE \E d : Progress(t, d)
  <2>1. Progress(t, Idle)
    BY <1>2, <1>5, ReturnStep
  <2> QED BY <2>1
<1>6. \/ Goto(t, [c EXCEPT !.pc = "truncated"])
      \/ Return(t, "NotFound", c.at) \/ Return(t, "IsADirectory", c.at) \/ Return(t, "InvalidArgument", c.at)
  BY <1>1, Zenon DEF open_truncate
<1>7. "NotFound" # "Ok" /\ "IsADirectory" # "Ok" /\ "InvalidArgument" # "Ok"
  OBVIOUS
<1> QED BY <1>4, <1>5, <1>6, <1>7

(* open returns the file it has, or fails.                                  *)
LEMMA OpenOffsetStep ==
  ASSUME NEW t \in Thread, CallOk(call[t]), open_offset(t)
  PROVE  \E d : Progress(t, d)
<1>1. PICK c : c = call[t]
  OBVIOUS
<1>2. FsOp /\ c.pc = "truncated" /\ Running(c)
  BY <1>1 DEF open_offset, FsOp, Running
<1>3. InProgress(c)
  BY <1>1, <1>2, RunningCall
<1>4. PICK err : Return(t, err, c.at)
  BY <1>1, Zenon DEF open_offset
<1>5. CASE c.req.op = "open" /\ err = "Ok"
  <2>1. PICK d : d = [pc |-> "returned", req |-> c.req, inode |-> c.at]
    OBVIOUS
  <2>2. call' = [call EXCEPT ![t] = d]
    BY <1>1, <1>4, <1>5, <2>1 DEF Return, Goto, Returned
  <2>3. CallOk(d)
    BY <1>3, <2>1 DEF CallOk, InProgress
  <2>4. FileMade(c, d)
    BY <1>2, <2>1 DEF FileMade, Exclusive, MadeBy
  <2>5. Onto(c, d)
    BY <2>1 DEF Onto, Running
  <2> QED BY <1>1, <1>2, <2>2, <2>3, <2>4, <2>5 DEF Progress
<1>6. CASE ~(c.req.op = "open" /\ err = "Ok")
  <2>1. Progress(t, Idle)
    BY <1>1, <1>2, <1>4, <1>6, ReturnStep
  <2> QED BY <2>1
<1> QED BY <1>5, <1>6

(* The other operations of a path.                                         *)
LEMMA MkdirStep ==
  ASSUME NEW t \in Thread, CallOk(call[t]), mkdir(t)
  PROVE  \E d : Progress(t, d)
<1>1. PICK p : p = call[t].at
  OBVIOUS
<1>2. PICK n : n = split_parent(call[t].req.path).name
  OBVIOUS
<1>3. n \in Name \cup BadName /\ call[t].req.op # "open"
  BY <1>2, PathName DEF mkdir, Resolved
<1>4. \/ create(p, n, "Directory") /\ Return(t, "Ok", next_inode)
      \/ Return(t, create_error(p, n, "Directory"), ROOT_INODE) /\ UNCHANGED fsvars
  BY <1>1, <1>2, Zenon DEF mkdir, CreateOr
<1>5. FsOp
  BY <1>3, <1>4 DEF FsOp
<1>6. Progress(t, Idle)
  BY <1>3, <1>4, <1>5, ReturnStep
<1> QED BY <1>6

(* unlink and rmdir by path.                                                *)
LEMMA RemovePathStep ==
  ASSUME NEW t \in Thread, CallOk(call[t]), unlink_path(t) \/ rmdir_path(t)
  PROVE  \E d : Progress(t, d)
<1>1. PICK p : p = call[t].at
  OBVIOUS
<1>2. PICK n : n = split_parent(call[t].req.path).name
  OBVIOUS
<1>3. n \in Name \cup BadName /\ call[t].req.op # "open"
  BY <1>2, PathName DEF unlink_path, rmdir_path, Resolved
<1>4. Apply(t, unlink_error(p, n), unlink(p, n)) \/ Apply(t, rmdir_error(p, n), rmdir(p, n))
  BY <1>1, <1>2, Zenon DEF unlink_path, rmdir_path
<1>5. UNCHANGED fsvars \/ unlink(p, n) \/ rmdir(p, n)
  BY <1>4, Zenon DEF Apply
<1>6. FsOp
  BY <1>3, <1>5 DEF FsOp
<1>7. PICK err : Return(t, err, ROOT_INODE)
  BY <1>4, Zenon DEF Apply
<1>8. Progress(t, Idle)
  BY <1>3, <1>6, <1>7, ReturnStep
<1> QED BY <1>8

(* metadata changes nothing.                                                *)
LEMMA MetadataStep ==
  ASSUME NEW t \in Thread, CallOk(call[t]), metadata(t)
  PROVE  \E d : Progress(t, d)
<1>1. FsOp /\ call[t].req.op # "open"
  BY DEF metadata, Resolved, FsOp
<1>2. PICK err : Return(t, err, call[t].at)
  BY Zenon DEF metadata
<1>3. Progress(t, Idle)
  BY <1>1, <1>2, ReturnStep
<1> QED BY <1>3

(* rename resolves its second path.                                         *)
LEMMA RenameFromStep ==
  ASSUME NEW t \in Thread, CallOk(call[t]), rename_from(t)
  PROVE  \E d : Progress(t, d)
<1>1. PICK c : c = call[t]
  OBVIOUS
<1>2. FsOp /\ c.pc = "parent" /\ Running(c)
  BY <1>1 DEF rename_from, Resolved, FsOp, Running
<1>3. InProgress(c)
  BY <1>1, <1>2, RunningCall
<1>4. PICK d : d = [pc |-> "to", req |-> c.req, at |-> ROOT_INODE, todo |-> split_parent(c.req.to).parent, from |-> c.at]
  OBVIOUS
<1>5. call' = [call EXCEPT ![t] = d]
  BY <1>1, <1>4 DEF rename_from, Goto, Resolve
<1>6. InProgress(d)
  BY <1>2, <1>3, <1>4 DEF InProgress
<1>7. FileMade(c, d) /\ Onto(c, d)
  BY <1>4 DEF FileMade, Exclusive, Onto
<1> QED BY <1>1, <1>2, <1>5, <1>6, <1>7 DEF Progress, CallOk

(* rename with both directories resolved.                                   *)
LEMMA RenamePathStep ==
  ASSUME NEW t \in Thread, CallOk(call[t]), rename_path(t)
  PROVE  \E d : Progress(t, d)
<1>1. PICK n : n = split_parent(call[t].req.path).name
  OBVIOUS
<1>2. PICK m : m = split_parent(call[t].req.to).name
  OBVIOUS
<1>3. n \in Name \cup BadName /\ m \in Name \cup BadName /\ call[t].req.op # "open"
  BY <1>1, <1>2, PathName DEF rename_path, Resolved
<1>4. PICK err : Apply(t, err, rename(call[t].from, n, call[t].at, m))
  BY <1>1, <1>2, Zenon DEF rename_path
<1>5. UNCHANGED fsvars \/ rename(call[t].from, n, call[t].at, m)
  BY <1>4, Zenon DEF Apply
<1>6. FsOp
  BY <1>3, <1>5 DEF FsOp
<1>7. Progress(t, Idle)
  BY <1>3, <1>4, <1>6, ReturnStep DEF Apply
<1> QED BY <1>7

(* Every step is one thread's.                                             *)
LEMMA StepProgress ==
  ASSUME CallsOk, Step
  PROVE  \E t \in Thread : \E d : Progress(t, d)
<1>1. ASSUME NEW t \in Thread PROVE CallOk(call[t])
  BY DEF CallsOk
<1>2. ASSUME NEW t \in Thread, NEW r \in Requests, Call(t, r) PROVE \E d : Progress(t, d)
  BY <1>2, CallStep
<1>3. ASSUME NEW t \in Thread,
             Lookup(t) \/ open_found(t) \/ open_create(t) \/ open_truncate(t) \/ open_offset(t) \/ mkdir(t)
               \/ unlink_path(t) \/ rmdir_path(t) \/ metadata(t) \/ rename_from(t) \/ rename_path(t)
      PROVE  \E d : Progress(t, d)
  BY <1>1, <1>3, LookupStep, OpenFoundStep, OpenCreateStep, OpenTruncateStep, OpenOffsetStep, MkdirStep,
     RemovePathStep, MetadataStep, RenameFromStep, RenamePathStep
<1> QED BY <1>2, <1>3 DEF Step

-----------------------------------------------------------------------------
(* The calls and the files of exclusive creates.                           *)
LEMMA CallsKept ==
  ASSUME CallsOk, NEW t \in Thread, NEW d, Progress(t, d)
  PROVE  CallsOk'
<1>1. DOMAIN call' = Thread /\ \A u \in Thread : CallOk(call'[u])
  BY DEF CallsOk, Progress
<1> QED BY <1>1 DEF CallsOk, CallOk, InProgress

(* A file of an exclusive create has a number of its own, and later ones    *)
(* are higher.                                                              *)
LEMMA ExclusiveKept ==
  ASSUME TreeInv, CallsOk, ExclusiveOwn, NEW t \in Thread, NEW d, Progress(t, d)
  PROVE  ExclusiveOwn'
<1>1. next_inode \in Nat /\ next_inode' \in Nat /\ next_inode <= next_inode'
  BY FsOpNumbers DEF Progress
<1>2. call'[t] = d /\ \A u \in Thread : u # t => call'[u] = call[u]
  BY DEF Progress, CallsOk
<1>3. FileMade(call[t], d)
  BY DEF Progress
<1>4. \A u \in Thread : Exclusive(call[u]) => MadeBy(call[u]) \in Nat /\ MadeBy(call[u]) < next_inode
  BY DEF ExclusiveOwn
<1>5. \A u, v \in Thread : u # v /\ Exclusive(call[u]) /\ Exclusive(call[v]) => MadeBy(call[u]) # MadeBy(call[v])
  BY DEF ExclusiveOwn
<1>6. ASSUME NEW u \in Thread, Exclusive(call'[u]) PROVE MadeBy(call'[u]) \in Nat /\ MadeBy(call'[u]) < next_inode'
  BY <1>1, <1>2, <1>3, <1>4, <1>6 DEF FileMade
<1>7. ASSUME NEW u \in Thread, u # t, Exclusive(d), Exclusive(call[u]) PROVE MadeBy(d) # MadeBy(call[u])
  BY <1>1, <1>3, <1>4, <1>5, <1>7 DEF FileMade
<1>8. ASSUME NEW u \in Thread, NEW v \in Thread, u # v, Exclusive(call'[u]), Exclusive(call'[v])
      PROVE  MadeBy(call'[u]) # MadeBy(call'[v])
  BY <1>2, <1>5, <1>7, <1>8
<1> QED BY <1>6, <1>8 DEF ExclusiveOwn, Exclusive, MadeBy

-----------------------------------------------------------------------------
(* A path that exists before and after a step goes through the same nodes, *)
(* as far as a name is looked up in them.                                  *)
LEMMA WalkedTrailNext ==
  (\A path \in Seq(Name \cup BadName) : \A w, m : w = Walked(path) /\ m = nodes => Trail(w, m, path))'
<1>1. \A path \in Seq(Name \cup BadName) : \A w, m : w = Walked(path) /\ m = nodes => Trail(w, m, path)
  BY WalkedTrail
<1> QED BY <1>1, PTL

(* A path without ".." that exists before and after a step.                 *)
LEMMA WalkKept ==
  ASSUME TreeInv, FsOp, NEW path \in Seq(Name \cup BadName), NoUp(path), At(path) # 0, (At(path) # 0)',
         NEW k \in 0 .. Len(path), NameLeft(path, k)
  PROVE  (Walked(path))'[k] = Walked(path)[k]
<1>1. PICK w : w = Walked(path)
  OBVIOUS
<1>2. PICK v : v = Walked(path)'
  OBVIOUS
<1>3. Trail(w, nodes, path) /\ w[Len(path)] # 0
  BY <1>1, WalkedTrail DEF At
<1>4. Trail(v, nodes', path)
  BY <1>2, WalkedTrailNext
<1>5. v[Len(path)] # 0
  BY <1>2 DEF At
<1>6. EntriesKept(nodes, nodes')
  BY FsOpEntries
<1>7. v[k] = w[k]
  BY <1>3, <1>4, <1>5, <1>6, TrailsAgree
<1> QED BY <1>1, <1>2, <1>7

(* PathExists is about the path of the request.                             *)
LEMMA PathOf == \A t \in Thread : \A path : path = call[t].req.path => (PathExists(t) <=> At(path) # 0)
BY DEF PathExists

(* And so it is in the next state.                                          *)
LEMMA PathOfNext == (\A t \in Thread : \A path : path = call[t].req.path => (PathExists(t) <=> At(path) # 0))'
BY PathOf, PTL

(* What is left of a path after one more component.                         *)
LEMMA TailOfRest ==
  ASSUME NEW S, NEW path \in Seq(S), NEW j \in Nat, j < Len(path)
  PROVE  Tail(SubSeq(path, j + 1, Len(path))) = SubSeq(path, j + 2, Len(path))
<1> DEFINE rest == SubSeq(path, j + 1, Len(path))
           less == SubSeq(path, j + 2, Len(path))
<1>1. PICK n \in Nat : n = Len(path)
  OBVIOUS
<1>2. rest \in Seq(S) /\ Len(rest) = n - j /\ \A i \in 1 .. n - j : rest[i] = path[j + i]
  BY <1>1
<1>3. less \in Seq(S) /\ Len(less) = n - (j + 1) /\ \A i \in 1 .. n - (j + 1) : less[i] = path[(j + 1) + i]
  BY <1>1
<1> HIDE DEF rest, less
<1>7. PICK l \in Nat \ {0} : l = Len(rest) /\ l = n - j
  BY <1>1, <1>2
<1>8. rest # <<>> /\ Tail(rest) \in Seq(S) /\ Len(Tail(rest)) = l - 1 /\ \A i \in 1 .. l - 1 : Tail(rest)[i] = rest[i + 1]
  BY <1>2, <1>7
<1>4. /\ Tail(rest) \in Seq(S) /\ Len(Tail(rest)) = n - (j + 1)
      /\ \A i \in 1 .. n - (j + 1) : Tail(rest)[i] = rest[i + 1]
  BY <1>1, <1>7, <1>8
<1>5. \A i \in 1 .. n - (j + 1) : Tail(rest)[i] = less[i]
  BY <1>1, <1>2, <1>3, <1>4
<1>6. Tail(rest) = less
  BY <1>3, <1>4, <1>5
<1> QED BY <1>6 DEF rest, less

StableNext == stable' = [t \in Thread |-> IF Busy(t)' THEN (Busy(t) => stable[t]) /\ PathExists(t)' ELSE FALSE]

(* A call stays on a path that exists before and after the step, whoever    *)
(* makes the step.                                                          *)
LEMMA StableKept ==
  ASSUME TreeInv, CallsOk, StableOnPath, NEW t \in Thread, NEW d, Progress(t, d), StableNext
  PROVE  StableOnPath'
<1>1. FsOp /\ call'[t] = d /\ Onto(call[t], d) /\ CallOk(d) /\ \A u \in Thread : u # t => call'[u] = call[u]
  BY DEF Progress, CallsOk
<1>2. ASSUME NEW u \in Thread, stable'[u] PROVE Busy(u)' /\ PathExists(u)' /\ (Busy(u) => stable[u])
  BY <1>2 DEF StableNext
<1>3. ASSUME NEW u \in Thread, stable'[u], call'[u].pc = "target", NoUp(call'[u].req.path),
             NEW path \in {r.path : r \in Requests}, NEW k \in 0 .. Len(path), path = call'[u].req.path,
             call'[u].todo = SubSeq(path, k + 1, Len(path)), NameLeft(path, k)
      PROVE  call'[u].at = (Walked(path))'[k]
  <2>1. path \in Seq(Name \cup BadName) /\ Len(path) \in Nat
    BY RequestAssumption
  <2>2. (At(path) # 0)'
    BY <1>2, <1>3, PathOfNext
  <2>3. ASSUME Busy(u), call[u].req.path = path PROVE At(path) # 0 /\ (Walked(path))'[k] = Walked(path)[k]
    <3>1. At(path) # 0
      BY <1>2, <1>3, <2>3, PathOf DEF StableOnPath
    <3> QED BY <1>1, <1>3, <2>1, <2>2, <3>1, WalkKept
  <2>7. u = t => d.todo = SubSeq(path, k + 1, Len(path)) /\ d.req.path = path /\ d.pc = "target"
    BY <1>1, <1>3, Zenon
  <2>4. CASE u # t
    <3>1. call'[u] = call[u]
      BY <1>1, <2>4
    <3>2. Busy(u) /\ stable[u]
      BY <1>2, <1>3, <3>1 DEF Busy
    <3>3. OnPath(call[u])
      BY <1>3, <3>1, <3>2 DEF StableOnPath
    <3>4. call[u].at = Walked(path)[k]
      BY <1>3, <3>1, <3>3 DEF OnPath
    <3> QED BY <1>3, <2>3, <3>1, <3>2, <3>4
  <2>5. CASE u = t /\ ~Running(call[t])
    <3>1. d.at = ROOT_INODE /\ d.todo = path
      BY <1>1, <2>5, <2>7 DEF Onto, Found, Running
    <3>2. k = 0
      <4>1. path = SubSeq(path, k + 1, Len(path))
        BY <2>5, <2>7, <3>1, Zenon
      <4>2. Len(SubSeq(path, k + 1, Len(path))) = Len(path) - k
        BY <1>3, <2>1
      <4>3. Len(path) = Len(path) - k
        BY <4>1, <4>2
      <4> QED BY <2>1, <4>3
    <3>3. (Walked(path))'[0] = ROOT_INODE
      BY <2>1, WalkedTrailNext DEF Trail
    <3> QED BY <1>1, <2>5, <3>1, <3>2, <3>3
  <2>6. CASE u = t /\ Running(call[t])
    <3>1. PICK c : c = call[t]
      OBVIOUS
    <3>2. Found(c, d) /\ d.req = c.req /\ Busy(u) /\ stable[u]
      BY <1>1, <1>2, <1>3, <2>6, <3>1 DEF Onto, Running, Busy
    <3>3. /\ c.pc = "target" /\ c.todo # <<>> /\ c.req.path = path
          /\ d.todo = Tail(c.todo)
      <4>1. c.pc = "target" /\ c.todo # <<>> /\ d = Advanced(c, d.at)
        BY <3>2 DEF Found
      <4>2. d.todo = Tail(c.todo)
        BY <4>1 DEF Advanced
      <4>3. c.req.path = path
        BY <2>6, <2>7, <3>2
      <4> QED BY <4>1, <4>2, <4>3
    <3>4. InProgress(c)
      BY <2>6, <3>1, RunningCall DEF CallsOk
    <3>5. PICK j \in 0 .. Len(path) : c.todo = SubSeq(path, j + 1, Len(path))
      BY <3>3, <3>4 DEF InProgress
    <3>6. j < Len(path) /\ Head(c.todo) = path[j + 1] /\ k = j + 1
      <4>1. j < Len(path) /\ Len(c.todo) = Len(path) - j /\ Head(c.todo) = path[j + 1]
        BY <2>1, <3>3, <3>5
      <4>2. Tail(c.todo) = SubSeq(path, k + 1, Len(path))
        BY <2>6, <2>7, <3>3, Zenon
      <4>3. Tail(c.todo) = SubSeq(path, j + 2, Len(path))
        BY <2>1, <3>5, <4>1, TailOfRest
      <4>4. Len(SubSeq(path, k + 1, Len(path))) = Len(path) - k
        BY <1>3, <2>1
      <4>5. Len(SubSeq(path, j + 2, Len(path))) = Len(path) - (j + 1)
        BY <2>1, <4>1
      <4>6. Len(path) - k = Len(path) - (j + 1)
        BY <4>2, <4>3, <4>4, <4>5
      <4> QED BY <2>1, <4>1, <4>6
    <3>7. NameLeft(path, j)
      <4>1. PICK m \in k + 1 .. Len(path) : path[m] # "."
        BY <1>3 DEF NameLeft
      <4>2. m \in j + 1 .. Len(path)
        BY <2>1, <3>6
      <4> QED BY <4>1, <4>2 DEF NameLeft
    <3>8. c.at = Walked(path)[j]
      BY <1>1, <1>3, <2>6, <3>1, <3>2, <3>3, <3>5, <3>7 DEF StableOnPath, OnPath
    <3>9. Trail(Walked(path), nodes, path) /\ At(path) # 0
      BY <2>1, <2>3, <2>6, <3>1, <3>2, <3>3, WalkedTrail
    <3>10. c.at # 0
      BY <2>1, <3>8, <3>9, TrailEnds DEF At
    <3>11. Walked(path)[k] = StepIn(nodes, c.at, Head(c.todo))
      <4>1. k \in 1 .. Len(path) /\ k - 1 = j
        BY <2>1, <3>6
      <4> QED BY <3>6, <3>8, <3>9, <4>1 DEF Trail
    <3>12. d.at = StepIn(nodes, c.at, Head(c.todo))
      BY <3>2, <3>10 DEF Found, StepIn, lookup_error, lookup, DirError, Has, DirIn
    <3> QED BY <1>1, <2>3, <2>6, <3>1, <3>2, <3>3, <3>11, <3>12
  <2> QED BY <2>4, <2>5, <2>6
<1>4. ASSUME NEW u \in Thread, stable'[u], call'[u].pc = "target", NoUp(call'[u].req.path)
      PROVE  OnPath(call[u])'
  BY <1>3, <1>4 DEF OnPath, NameLeft
<1> QED BY <1>2, <1>4 DEF StableOnPath, NoUp

-----------------------------------------------------------------------------
VfsInv == TreeInv /\ CallsOk /\ ExclusiveOwn /\ StableOnPath

(* No call is in progress at first.                                         *)
LEMMA VfsInvInit == VfsInit => VfsInv
<1> SUFFICES ASSUME VfsInit PROVE VfsInv
  OBVIOUS
<1>1. TreeInv
  BY TreeInit DEF VfsInit
<1>2. DOMAIN call = Thread /\ \A t \in Thread : call[t] = Idle /\ call[t].pc = "idle" /\ stable[t] = FALSE
  BY DEF VfsInit, Idle
<1> QED BY <1>1, <1>2 DEF VfsInv, CallsOk, CallOk, ExclusiveOwn, Exclusive, StableOnPath

(* The calls and their files are about call and the next number,            *)
LEMMA CallsOf ==
  \A c, m : c = call /\ m = next_inode =>
    /\ CallsOk <=> DOMAIN c = Thread /\ \A t \in Thread : CallOk(c[t])
    /\ ExclusiveOwn <=>
         /\ \A t \in Thread : Exclusive(c[t]) => MadeBy(c[t]) \in Nat /\ MadeBy(c[t]) < m
         /\ \A t, u \in Thread : t # u /\ Exclusive(c[t]) /\ Exclusive(c[u]) => MadeBy(c[t]) # MadeBy(c[u])
BY DEF CallsOk, ExclusiveOwn

(* and so they are in the next state.                                       *)
LEMMA CallsOfNext ==
  (\A c, m : c = call /\ m = next_inode =>
     /\ CallsOk <=> DOMAIN c = Thread /\ \A t \in Thread : CallOk(c[t])
     /\ ExclusiveOwn <=>
          /\ \A t \in Thread : Exclusive(c[t]) => MadeBy(c[t]) \in Nat /\ MadeBy(c[t]) < m
          /\ \A t, u \in Thread : t # u /\ Exclusive(c[t]) /\ Exclusive(c[u]) => MadeBy(c[t]) # MadeBy(c[u]))'
BY CallsOf, PTL

(* A stuttering step keeps it all.                                          *)
LEMMA VfsUnchanged == VfsInv /\ UNCHANGED vars => VfsInv'
<1> SUFFICES ASSUME VfsInv, UNCHANGED vars PROVE VfsInv'
  OBVIOUS
<1>1. FsOp /\ UNCHANGED <<call, stable>>
  BY DEF vars, fsvars, FsOp
<1>2. TreeInv'
  BY <1>1, FsOpTree DEF VfsInv
<1>3. CallsOk' /\ ExclusiveOwn'
  <2>1. PICK c : c = call
    OBVIOUS
  <2>2. PICK m : m = next_inode
    OBVIOUS
  <2>3. c = call' /\ m = next_inode' /\ CallsOk /\ ExclusiveOwn
    BY <2>1, <2>2 DEF vars, VfsInv
  <2>4. CallsOk' <=> CallsOk
    BY <2>1, <2>2, <2>3, CallsOf, CallsOfNext
  <2>5. ExclusiveOwn' <=> ExclusiveOwn
    BY <2>1, <2>2, <2>3, CallsOf, CallsOfNext
  <2> QED BY <2>3, <2>4, <2>5
<1>4. StableOnPath'
  <2>1. call' = call /\ stable' = stable /\ nodes' = nodes /\ StableOnPath /\ CallsOk
    BY DEF vars, VfsInv
  <2>2. ASSUME NEW path \in Seq(Name \cup BadName), NEW k \in 0 .. Len(path)
        PROVE  (Walked(path))'[k] = Walked(path)[k]
    <3>1. PICK w : w = Walked(path)
      OBVIOUS
    <3>2. PICK v : v = Walked(path)'
      OBVIOUS
    <3>3. Trail(w, nodes, path)
      BY <3>1, WalkedTrail
    <3>4. Trail(v, nodes, path)
      BY <2>1, <3>2, WalkedTrailNext
    <3>5. SameTrail(v, w, path)
      BY <3>3, <3>4, TrailUnique
    <3> QED BY <3>1, <3>2, <3>5 DEF SameTrail
  <2>3. ASSUME NEW t \in Thread, stable'[t] PROVE Busy(t)' /\ PathExists(t)'
    <3>1. Busy(t) /\ PathExists(t)
      BY <2>1, <2>3 DEF StableOnPath
    <3>2. PICK path : path = call[t].req.path
      OBVIOUS
    <3>3. path \in Seq(Name \cup BadName)
      <4>1. InProgress(call[t])
        BY <2>1, <3>1, RunningCall DEF CallsOk, Busy, Running
      <4> QED BY <3>2, <4>1, RequestAssumption DEF InProgress
    <3>4. At(path) # 0
      BY <3>1, <3>2, PathOf
    <3>5. (At(path) # 0)'
      BY <2>2, <3>3, <3>4 DEF At
    <3> QED BY <2>1, <3>1, <3>2, <3>5, PathOfNext DEF Busy
  <2>4. ASSUME NEW t \in Thread, stable'[t], call'[t].pc = "target", NoUp(call'[t].req.path),
               NEW path \in {r.path : r \in Requests}, NEW k \in 0 .. Len(path), path = call'[t].req.path,
               call'[t].todo = SubSeq(path, k + 1, Len(path)), NameLeft(path, k)
        PROVE  call'[t].at = (Walked(path))'[k]
    <3>1. OnPath(call[t])
      BY <2>1, <2>4 DEF StableOnPath
    <3>2. call[t].at = Walked(path)[k]
      BY <2>1, <2>4, <3>1 DEF OnPath
    <3>3. path \in Seq(Name \cup BadName)
      BY RequestAssumption
    <3> QED BY <2>1, <2>2, <2>4, <3>2, <3>3
  <2>5. ASSUME NEW t \in Thread, stable'[t], call'[t].pc = "target", NoUp(call'[t].req.path)
        PROVE  OnPath(call[t])'
    BY <2>4, <2>5 DEF OnPath, NameLeft
  <2> QED BY <2>3, <2>5 DEF StableOnPath, NoUp
<1> QED BY <1>2, <1>3, <1>4 DEF VfsInv

(* The invariant of the path operations: the tree, the calls, the files of  *)
(* exclusive creates and the calls on existing paths.                       *)
LEMMA VfsInvariant == VfsSpec => []VfsInv
<1>1. ASSUME VfsInv, VfsNext PROVE VfsInv'
  <2>0. PICK t \in Thread : \E d : Progress(t, d)
    BY <1>1, StepProgress DEF VfsNext, VfsInv
  <2>1. PICK d : Progress(t, d)
    BY <2>0
  <2>2. TreeInv'
    BY <1>1, <2>1, FsOpTree DEF VfsInv, Progress
  <2>3. CallsOk'
    BY <1>1, <2>1, CallsKept DEF VfsInv
  <2>4. ExclusiveOwn'
    BY <1>1, <2>1, ExclusiveKept DEF VfsInv
  <2>5. StableOnPath'
    BY <1>1, <2>1, StableKept DEF VfsInv, VfsNext, StableNext
  <2> QED BY <2>2, <2>3, <2>4, <2>5 DEF VfsInv
<1>2. VfsInv /\ [VfsNext]_vars => VfsInv'
  BY <1>1, VfsUnchanged
<1> QED BY <1>2, VfsInvInit, PTL DEF VfsSpec

(* Path operations of any number of threads, which take the lock anew for  *)
(* every component of a path, leave the table a tree as well               *)
(* (TreeWellFormed).                                                       *)
THEOREM PathsKeepTree == VfsSpec => []TreeWellFormed
<1>1. VfsInv => TreeWellFormed
  BY TreeOk DEF VfsInv
<1> QED BY <1>1, VfsInvariant, PTL

(* Two opens with create and exclusive that both succeed have different    *)
(* files, whatever happened between the lookup and the create of each      *)
(* (ExclusiveOpensDiffer): each made its own, under a number never handed  *)
(* out before.                                                             *)
THEOREM ExclusiveCreates == VfsSpec => []ExclusiveOpensDiffer
<1>1. VfsInv => ExclusiveOpensDiffer
  BY DEF VfsInv, ExclusiveOwn, Exclusive, MadeBy, ExclusiveOpensDiffer, Success
<1> QED BY <1>1, VfsInvariant, PTL

(* resolve finds the next component of a path without ".." that has        *)
(* existed since the call began, although it lets go of the filesystem     *)
(* between components and other threads create, remove and rename          *)
(* (StablePathsResolve).                                                   *)
THEOREM ExistingPathsResolve == VfsSpec => []StablePathsResolve
<1>1. ASSUME VfsInv, NEW t \in Thread, NEW c, c = call[t], c.pc = "target", stable[t], c.todo # <<>>,
             Head(c.todo) # ".", \A k \in DOMAIN c.req.path : c.req.path[k] # ".."
      PROVE  lookup_error(c.at, Head(c.todo)) = "Ok"
  <2>1. InProgress(c)
    BY <1>1, RunningCall DEF VfsInv, CallsOk, Running
  <2>2. PICK path : path = c.req.path
    OBVIOUS
  <2>3. path \in {r.path : r \in Requests} /\ path \in Seq(Name \cup BadName) /\ Len(path) \in Nat
    BY <2>1, <2>2, RequestAssumption DEF InProgress
  <2>4. PICK k \in 0 .. Len(path) : c.todo = SubSeq(path, k + 1, Len(path))
    BY <1>1, <2>1, <2>2 DEF InProgress
  <2>5. k < Len(path) /\ Head(c.todo) = path[k + 1]
    BY <1>1, <2>3, <2>4
  <2>6. NameLeft(path, k)
    BY <1>1, <2>3, <2>5 DEF NameLeft
  <2>7. OnPath(c) /\ PathExists(t)
    BY <1>1 DEF VfsInv, StableOnPath, NoUp
  <2>8. c.at = Walked(path)[k]
    BY <2>2, <2>3, <2>4, <2>6, <2>7 DEF OnPath
  <2>9. Trail(Walked(path), nodes, path) /\ Walked(path)[Len(path)] # 0
    BY <1>1, <2>2, <2>3, <2>7, WalkedTrail, PathOf DEF At
  <2>10. k + 1 \in 1 .. Len(path) /\ (k + 1) - 1 = k /\ k + 1 \in 0 .. Len(path) /\ k + 1 \in DOMAIN path
    BY <2>3, <2>5
  <2>11. Walked(path)[k] # 0 /\ Walked(path)[k + 1] # 0
    BY <2>3, <2>9, <2>10, TrailEnds
  <2>12. StepIn(nodes, c.at, Head(c.todo)) # 0 /\ c.at # 0
    BY <2>5, <2>8, <2>9, <2>10, <2>11 DEF Trail
  <2> QED BY <1>1, <2>12 DEF StepIn, DirIn, lookup_error, DirError, Has
<1>2. VfsInv => StablePathsResolve
  BY <1>1 DEF StablePathsResolve
<1> QED BY <1>2, VfsInvariant, PTL
=============================================================================
