---------------------------- MODULE AddressSpace ----------------------------
(***************************************************************************)
(* What paging::map and paging::unmap promise: an address space is a table *)
(* of pages in which one page at a time is given a frame nobody else maps, *)
(* or loses the one it has.  No page tables, no walks, no locks.           *)
(***************************************************************************)
CONSTANTS
  Page,
  Frame,
  Unmapped,   \* no frame
  Inherited   \* what the bootloader's tables map

VARIABLE space

Init == space = Inherited

\* map: MapError::AlreadyMapped unless the page had no frame.
Mapped(old, new, v) == old[v] = Unmapped /\ new[v] \in Frame /\ \A w \in Page : old[w] # new[v]

\* unmap: MapError::NotMapped unless it had one.
Released(old, new, v) == old[v] \in Frame /\ new[v] = Unmapped

OnePage(old, new) ==
  \E v \in Page :
    /\ Mapped(old, new, v) \/ Released(old, new, v)
    /\ \A w \in Page \ {v} : new[w] = old[w]

Next == OnePage(space, space')

Spec == Init /\ [][Next]_space
=============================================================================
