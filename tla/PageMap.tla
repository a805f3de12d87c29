------------------------------ MODULE PageMap ------------------------------
(***************************************************************************)
(* What a page table promises: a partial map from virtual to physical      *)
(* pages to which regions are added, where nothing was, and removed, each  *)
(* as a whole or not at all.  Module Paging implements it.                 *)
(***************************************************************************)
EXTENDS Naturals

CONSTANTS
  Virt,     \* the virtual pages
  Regions   \* the regions [vbase, pbase, len, type] that users map

VARIABLE space  \* the physical page of each virtual page; 0 is none

Pages(r) == r.vbase .. r.vbase + r.len - 1

Init == space \in [Virt -> Nat]

Map(r) ==
  /\ \A v \in Pages(r) : space[v] = 0
  /\ space' = [v \in Virt |->
       IF v \in Pages(r) THEN r.pbase + (v - r.vbase) ELSE space[v]]

Unmap(r) ==
  /\ \A v \in Pages(r) : space[v] = r.pbase + (v - r.vbase)
  /\ space' = [v \in Virt |-> IF v \in Pages(r) THEN 0 ELSE space[v]]

Next == \E r \in Regions : Map(r) \/ Unmap(r)

Spec == Init /\ [][Next]_space
=============================================================================
