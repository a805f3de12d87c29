---------------------------- MODULE BuddyProps -----------------------------
(***************************************************************************)
(* What callers of the buddy allocator rely on, and what they get.         *)
(***************************************************************************)
EXTENDS Buddy

\* Types; every block, free or in use, starts at a multiple of its size.
Aligned(addr, ord) == addr % 2^ord = 0

TypeOK ==
  /\ avail \in [Ord -> Seq(Page)]
  /\ \A ord \in Ord : \A addr \in ToSet(avail[ord]) : Aligned(addr, ord)
  /\ bitmap \subseteq Page
  /\ inUse \subseteq Block
  /\ \A b \in inUse : Aligned(b.addr, b.ord)
  /\ misjudged \in BOOLEAN

FreeBlocks == UNION {{[addr |-> a, ord |-> k] : a \in ToSet(avail[k])} : k \in Ord}
FreePages == UNION {Pages(b.addr, b.ord) : b \in FreeBlocks}
InUsePages == UNION {Pages(b.addr, b.ord) : b \in inUse}

\* No page is lost, and no two blocks, free or in use, have a page in common.
PagesAccounted ==
  /\ InUsePages \cup FreePages = Page
  /\ \A b, c \in inUse : b # c => Pages(b.addr, b.ord) \cap Pages(c.addr, c.ord) = {}
  /\ \A b, c \in FreeBlocks : b # c => Pages(b.addr, b.ord) \cap Pages(c.addr, c.ord) = {}

\* The bitmap, which coalescing goes by, marks the pages on the free lists.
\* (The whole memory as one block is never marked nor looked up.)
BitmapMarksFree == inUse # {} => bitmap = FreePages

\* Whatever block is freed next, dlist_remove is called for entries of free
\* lists only and not for a page in the middle of a block.
OnlyEntriesUnlinked ==
  \A b \in inUse : Gone(b) \subseteq UNION {ToSet(avail[k]) : k \in Ord}

\* When all is given back, the memory is one block again: nothing stays
\* fragmented.
WholeAgain == inUse = {} => FreeBlocks = {[addr |-> 0, ord |-> MaxOrd]}

\* In whatever order callers allocate and free, the free lists and the bitmap
\* describe the memory that is not in use, until a free is misjudged.
FreeListsCorrect ==
  /\ TypeOK
  /\ ~misjudged => PagesAccounted /\ BitmapMarksFree /\ OnlyEntriesUnlinked /\ WholeAgain

\* Pages that a caller holds get on a free list (to be handed out a second
\* time) exactly when a free merges with a buddy that is not free as a block of
\* the same order.  is_avail, which looks at one page and not at the order, is
\* the only cause, and it always has that effect.
InUseTakenByMisjudged == misjudged <=> InUsePages \cap FreePages # {}
=============================================================================
