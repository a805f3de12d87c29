------------------------------ MODULE Paging ------------------------------
(***************************************************************************)
(* Virtual memory (src/paging.c): the list of address mappings, by which   *)
(* addresses are translated, and the page tables with four levels, whose   *)
(* pages come from a pool (include/tx/pool.h).  Kernel code never runs in  *)
(* two tasks at once, so each call is one step.                            *)
(*                                                                         *)
(* Addresses are counted in pages.  The tables of the model have `Fanout'  *)
(* entries, so that a few pages need several tables on every level; all of *)
(* them lie in the first page of the dynamic memory, as they lie in a      *)
(* small first part of it in the code.  Permissions and cache types are    *)
(* left out: they are written to the entries and never read back.          *)
(***************************************************************************)
EXTENDS Naturals, FiniteSets

CONSTANTS
  Fanout,              \* NUM_PT_ENTRIES (512)
  NumMappings,         \* NUM_ADDR_MAPPINGS (32)
  NumTables,           \* pages in the pool
  Code, Dyn,           \* the virtual pages of code and of dynamic memory
  VBases, PBases, Lens \* the regions that users map begin and end here

ASSUME SizeAssumption ==
  /\ {Fanout, NumMappings, NumTables, Code, Dyn} \subseteq Nat \ {0}
  /\ VBases \cup PBases \cup Lens \subseteq Nat \ {0}

VARIABLES
  maps,     \* global_addr_mappings, those in use
  tables,   \* the tables: an entry is a table, a physical page, or 0 for none
  free,     \* global_pt_page_alloc
  crashed,  \* "no", or what has stopped the kernel
  failed    \* history: the regions for which paging_map_region has failed

vars == <<maps, tables, free, crashed, failed>>

Tables == 1 .. NumTables
Root == 1                    \* global_page_table.pml4
Virt == 0 .. Fanout * Fanout * Fanout * Fanout - 1
Types == {"canonical", "alias"}

Mapping(vbase, pbase, len, type) ==
  [vbase |-> vbase, pbase |-> pbase, len |-> len, type |-> type]

CodeAddrs == Mapping(Code, 1, 1, "canonical")
DynAddrs == Mapping(Dyn, 2, 1, "canonical")

Regions == {Mapping(v, p, n, type) :
              v \in VBases, p \in PBases, n \in Lens, type \in Types}

VirtPages(m) == m.vbase .. m.vbase + m.len - 1
PhysPages(m) == m.pbase .. m.pbase + m.len - 1
PhysOf(m, v) == m.pbase + (v - m.vbase)

\* Addresses have as many bits as the four levels translate, and users map
\* neither the code nor the dynamic memory again.
ASSUME AddressAssumption ==
  /\ \A r \in Regions : VirtPages(r) \subseteq Virt
  /\ {Code, Dyn} \subseteq Virt /\ Code # Dyn
  /\ {CodeAddrs, DynAddrs} \cap Regions = {}

\* What paging_init asserts: room for the two mappings, and in the pool for
\* their tables (it asks for eight at least).
ASSUME RoomAssumption == NumMappings >= 2 /\ NumTables >= 7

Number(ms, type) == Cardinality({m \in ms : m.type = type})

-----------------------------------------------------------------------------
(***************************************************************************)
(* Address mappings.                                                       *)
(***************************************************************************)
\* add_addr_mapping: no overlap of virtual pages, few enough of physical ones
\* (the new mapping does not count), and a free entry.
Accepts(new) ==
  LET same == {m \in maps : PhysPages(m) \cap PhysPages(new) # {}}
      canonical == Number(same, "canonical")
      aliases == Number(same, "alias")
  IN
  /\ \A m \in maps : VirtPages(m) \cap VirtPages(new) = {}
  /\ canonical = 1 \/ (canonical = 0 /\ aliases <= 1)
  /\ Cardinality(maps) < NumMappings

\* mutant: an alias beside the canonical mapping is refused.
TranslatableNoAlias(ms, p) ==
  LET at == {m \in ms : p \in PhysPages(m)} IN
  \/ Number(at, "canonical") = 1 /\ Number(at, "alias") = 0
  \/ Number(at, "canonical") = 0 /\ Number(at, "alias") = 1

\* remove_addr_mapping
Removed(r) == maps \ {r}

\* The assertion of phys_to_virt for physical page p, given the mappings ms.
Translatable(ms, p) ==
  LET at == {m \in ms : p \in PhysPages(m)} IN
  \/ Number(at, "canonical") = 1
  \/ Number(at, "canonical") = 0 /\ Number(at, "alias") = 1

\* pt_get translates the address of each table that it enters.
CanEnter(ms) == Translatable(ms, DynAddrs.pbase)

-----------------------------------------------------------------------------
(***************************************************************************)
(* Page tables.  A memory m is [tables, free, status]; level 1 is the PML4 *)
(* and level 4 the table whose entries are physical pages.                 *)
(***************************************************************************)
EmptyTable == [i \in 0 .. Fanout - 1 |-> 0]
Span(level) == <<Fanout * Fanout * Fanout, Fanout * Fanout, Fanout, 1>>[level]
Index(v, level) == (v \div Span(level)) % Fanout
Memory == [tables |-> tables, free |-> free, status |-> "ok"]

\* pool_new; the order in which pages are handed out is left open.
Pool == Tables

\* pool_alloc: the page is cleared.
PoolAlloc(m) ==
  LET page == CHOOSE t \in m.free : TRUE IN
  [page |-> page,
   memory |-> [m EXCEPT !.tables[page] = EmptyTable, !.free = @ \ {page}]]

\* pool_free
PoolFree(m, page) == [m EXCEPT !.free = @ \cup {page}]

\* pt_get: what the table `at', of the given level, has for v; 0 for nothing.
Entry(t, at, v, level) == IF at = 0 THEN 0 ELSE t[at][Index(v, level)]

\* The table of the given level on the way to v, 0 if there is none.
TableFor(t, v, level) ==
  LET pdpt == Entry(t, Root, v, 1)
      pd   == Entry(t, pdpt, v, 2)
      pt   == Entry(t, pd, v, 3)
  IN  <<Root, pdpt, pd, pt>>[level]

\* What the processor finds.
Walk(t, v) == Entry(t, TableFor(t, v, 4), v, 4)

\* pt_get_or_alloc, for the entry of the given level.  pt_map misses that the
\* last table could not be allocated, and writes through a NULL pointer.
GetOrAlloc(ms, m, v, level) ==
  LET at == TableFor(m.tables, v, level)
      entry == Entry(m.tables, at, v, level)
      new == PoolAlloc(m)
  IN
  CASE m.status # "ok" -> m
    [] m.status = "ok" /\ entry # 0 ->
         IF CanEnter(ms) THEN m ELSE [m EXCEPT !.status = "assert"]
    [] m.status = "ok" /\ entry = 0 /\ m.free = {} ->
         [m EXCEPT !.status = IF level = 3 THEN "fault" ELSE "ENOMEM"]
    [] OTHER ->
         [new.memory EXCEPT !.tables[at][Index(v, level)] = new.page]

\* The tables of all levels on the way to v.
AllTables(ms, m, v) ==
  LET pdpt == GetOrAlloc(ms, m, v, 1)
      pd   == GetOrAlloc(ms, pdpt, v, 2)
  IN  GetOrAlloc(ms, pd, v, 3)

\* mutant: the table that is found is taken to be a new one.
PtMapOther(ms, m, v, p) ==
  LET found == AllTables(ms, m, v)
      at == TableFor(found.tables, v, 4)
  IN
  IF found.status # "ok" THEN found
  ELSE [found EXCEPT !.tables[at] = [EmptyTable EXCEPT ![Index(v, 4)] = p]]

\* pt_map
PtMap(ms, m, v, p) ==
  LET found == AllTables(ms, m, v)
      at == TableFor(found.tables, v, 4)
  IN
  IF found.status # "ok" THEN found
  ELSE [found EXCEPT !.tables[at][Index(v, 4)] = p]

\* mutant: an empty table is unlinked and not given back.
FreeIfEmptyLeaks(m, v, level) ==
  LET child == TableFor(m.tables, v, level)
      parent == TableFor(m.tables, v, level - 1)
  IN
  IF m.tables[child] = EmptyTable
  THEN [m EXCEPT !.tables[parent][Index(v, level - 1)] = 0] ELSE m

\* pt_is_empty and pool_free in pt_unmap, for the table of the given level.
FreeIfEmpty(m, v, level) ==
  LET child == TableFor(m.tables, v, level)
      parent == TableFor(m.tables, v, level - 1)
  IN
  IF m.tables[child] = EmptyTable
  THEN PoolFree([m EXCEPT !.tables[parent][Index(v, level - 1)] = 0], child)
  ELSE m

\* pt_unmap: it fails if there is no entry; tables left empty are given back.
PtUnmap(ms, m, v) ==
  LET at == TableFor(m.tables, v, 4) IN
  IF TableFor(m.tables, v, 2) # 0 /\ ~CanEnter(ms) THEN [m EXCEPT !.status = "assert"]
  ELSE IF Walk(m.tables, v) = 0 THEN [m EXCEPT !.status = "EINVAL"]
  ELSE LET cleared == [m EXCEPT !.tables[at][Index(v, 4)] = 0]
       IN  FreeIfEmpty(FreeIfEmpty(FreeIfEmpty(cleared, v, 4), v, 3), v, 2)

-----------------------------------------------------------------------------
(***************************************************************************)
(* The interface: Map and Unmap apply a call to the pages of a region in   *)
(* order; MapRegion and UnmapRegion are the functions of paging.h.         *)
(***************************************************************************)
MapPages(ms, m, r) ==
  LET after[i \in 0 .. r.len] ==
        IF i = 0 THEN m
        ELSE IF after[i - 1].status # "ok" THEN after[i - 1]
        ELSE PtMap(ms, after[i - 1], r.vbase + i - 1, r.pbase + i - 1)
  IN  after[r.len]

UnmapPages(ms, m, r) ==
  LET after[i \in 0 .. r.len] ==
        IF i = 0 THEN m
        ELSE IF after[i - 1].status # "ok" THEN after[i - 1]
        ELSE PtUnmap(ms, after[i - 1], r.vbase + i - 1)
  IN  after[r.len]

\* The loop after a failure goes on although pages were never mapped.
UnmapAnyPages(ms, m, r) ==
  LET after[i \in 0 .. r.len] ==
        IF i = 0 THEN m
        ELSE IF after[i - 1].status = "assert" THEN after[i - 1]
        ELSE PtUnmap(ms, [after[i - 1] EXCEPT !.status = "ok"], r.vbase + i - 1)
  IN  after[r.len]

\* pool_new, then paging_init: the code and the dynamic memory are mapped.
Init ==
  LET ms == {CodeAddrs, DynAddrs}
      empty == [tables |-> [t \in Tables |-> EmptyTable],
                free |-> Pool \ {Root}, status |-> "ok"]
      m == MapPages(ms, MapPages(ms, empty, CodeAddrs), DynAddrs)
  IN
  /\ maps = ms
  /\ tables = m.tables /\ free = m.free
  /\ crashed = "no" /\ failed = {}

\* What was written before the kernel stops is left out.
Crash(status) ==
  /\ crashed' = status
  /\ UNCHANGED <<tables, free, failed>>

Write(m) ==
  /\ tables' = m.tables /\ free' = m.free
  /\ UNCHANGED crashed

\* mutant: the pages that were mapped before the failure stay.
MapRegionStays(r) ==
  LET ms == maps \cup {r}
      m == MapPages(ms, Memory, r)
  IN
  /\ crashed = "no" /\ Accepts(r)
  /\ maps' = ms
  /\ IF m.status \in {"fault", "assert"} THEN Crash(m.status)
     ELSE /\ Write(m)
          /\ failed' = IF m.status = "ok" THEN failed ELSE failed \cup {r}

\* paging_map_region: on failure the pages are unmapped, and the address
\* mapping stays.
MapRegion(r) ==
  LET ms == maps \cup {r}
      m == MapPages(ms, Memory, r)
      ended == IF m.status = "ENOMEM" THEN UnmapAnyPages(ms, m, r) ELSE m
  IN
  /\ crashed = "no" /\ Accepts(r)
  /\ maps' = ms
  /\ IF ended.status \in {"fault", "assert"} THEN Crash(ended.status)
     ELSE /\ Write(ended)
          /\ failed' = IF m.status = "ok" THEN failed ELSE failed \cup {r}

\* paging_unmap_region, for a region that was mapped.
UnmapRegion(r) ==
  LET m == UnmapPages(maps, Memory, r) IN
  /\ crashed = "no" /\ r \in maps \cap Regions
  /\ IF m.status = "assert" THEN Crash("assert") /\ UNCHANGED maps
     ELSE /\ Write(m)
          /\ maps' = IF m.status = "ok" THEN Removed(r) ELSE maps
          /\ UNCHANGED failed

Next == \E r \in Regions : MapRegion(r) \/ UnmapRegion(r)

Spec == Init /\ [][Next]_vars
=============================================================================
