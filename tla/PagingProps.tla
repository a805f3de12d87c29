---------------------------- MODULE PagingProps ----------------------------
(***************************************************************************)
(* What virtual memory, module Paging, is correct for.                     *)
(***************************************************************************)
EXTENDS Paging

\* The tables that entries of the upper three levels point to.
Reached(level) == {t \in {TableFor(tables, v, level) : v \in Virt} : t # 0}
InUse == UNION {Reached(level) : level \in 1 .. 4}

\* Every variable has its type, and the pool's pages are tables.
TypeOK ==
  /\ maps \subseteq Regions \cup {CodeAddrs, DynAddrs}
  /\ Cardinality(maps) <= NumMappings
  /\ DOMAIN tables = Tables /\ free \subseteq Tables \ {Root}
  /\ crashed \in {"no", "fault", "assert"} /\ failed \subseteq maps

\* Every table page is in the pool or in use, never both, and in use it is
\* one table on one level: none is lost or freed twice (pt_unmap, pool.h).
TablesAccounted ==
  /\ InUse \cup free = Tables /\ InUse \cap free = {}
  /\ \A k, l \in 1 .. 4 : k # l => Reached(k) \cap Reached(l) = {}
  /\ \A level \in 2 .. 4 : \A v, w \in Virt :
       TableFor(tables, v, level) \in Reached(level)
         /\ TableFor(tables, v, level) = TableFor(tables, w, level)
       => v \div Span(level - 1) = w \div Span(level - 1)

\* The processor finds every page of a mapped region where the mapping says,
\* unless mapping the region has failed: then it finds none of them
\* (paging_map_region), and it finds no page outside of the mappings.
WalkMatches ==
  crashed = "no" =>
    \A v \in Virt :
      LET covering == {m \in maps \ failed : v \in VirtPages(m)} IN
      IF covering = {} THEN Walk(tables, v) = 0
      ELSE \A m \in covering : Walk(tables, v) = PhysOf(m, v)

\* A table without entries has been given back, unless it was made for a
\* region that could not be mapped (pt_unmap).
NoEmptyTables ==
  failed = {} => \A t \in InUse : tables[t] # EmptyTable

\* Tables are neither lost nor shared, and given back when empty.
TablesCorrect == TypeOK /\ TablesAccounted /\ NoEmptyTables

\* The tables that mapping region r takes from the pool.
Lacking(t, r) ==
  UNION {{<<level, v \div Span(level - 1)>> :
            v \in {w \in VirtPages(r) : TableFor(t, w, level) = 0}} : level \in 2 .. 4}
Missing(r) == Cardinality(Lacking(tables, r))

\* The kernel stops only for want of a page for the last table of a region
\* (pt_map), or for a mapping of the memory of the page tables that is
\* canonical like the first (phys_to_virt), never for an alias or for a
\* region that the pool suffices for.
CrashExplained ==
  /\ crashed = "fault" => \E r \in maps : Cardinality(free) < Missing(r)
  /\ crashed = "assert" =>
       \E m \in maps \ {DynAddrs} : m.type = "canonical" /\ DynAddrs.pbase \in PhysPages(m)

Abstract == INSTANCE PageMap WITH space <- [v \in Virt |-> Walk(tables, v)]

\* The page tables implement a map to which regions are added and from which
\* they are removed as a whole, whatever fails in between.
ImplementsPageMap == Abstract!Spec
=============================================================================
