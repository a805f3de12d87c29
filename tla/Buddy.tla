------------------------------- MODULE Buddy -------------------------------
(***************************************************************************)
(* The buddy allocator of src/buddy.c, which hands out blocks of 2^ord     *)
(* pages.  A block is named by its first page.  The free lists and the     *)
(* bitmap are the allocator's own state; the blocks in use are what its    *)
(* callers hold.                                                           *)
(*                                                                         *)
(* The splitting and the coalescing loop are given by what they compute: a *)
(* block only ever merges downwards to an aligned address, so the block    *)
(* reached at order k starts at the page rounded down to a multiple of 2^k.*)
(*                                                                         *)
(* Callers free in any order.  The coalescing loop asks only whether the   *)
(* first page of the buddy is available, never whether the buddy is free   *)
(* as a block of the same order, so it can take pages that are in use.     *)
(* The model ends there: the free lists, whose links lie in the free       *)
(* blocks themselves, then run through memory that callers write to.       *)
(***************************************************************************)
EXTENDS Integers, Sequences, SequencesExt

CONSTANTS
  MaxOrd,   \* buddy->max_ord: the memory has 2^MaxOrd pages
  Orders    \* the orders callers ask for

ASSUME MaxOrdAssumption == MaxOrd \in Nat
ASSUME OrdersAssumption == Orders \subseteq 0 .. MaxOrd

VARIABLES
  avail,     \* avail[ord]: the free list of each order, head first
  bitmap,    \* the pages marked available
  inUse,     \* the blocks callers hold
  misjudged  \* a free has merged with a buddy that was not free as a block

vars == <<avail, bitmap, inUse, misjudged>>

Ord == 0 .. MaxOrd
Page == 0 .. 2^MaxOrd - 1
Pages(addr, ord) == addr .. addr + 2^ord - 1
Block == [addr : Page, ord : Ord]

-----------------------------------------------------------------------------
\* buddy_init: one block of all the memory, which the bitmap does not mark.
Init ==
  /\ avail = [ord \in Ord |-> IF ord = MaxOrd THEN <<0>> ELSE << >>]
  /\ bitmap = {}
  /\ inUse = {}
  /\ misjudged = FALSE

\* The order of the block that buddy_alloc_raw splits: the first, from the
\* requested one upwards, with a free block.
Fitting(req) == {ord \in req .. MaxOrd : avail[ord] # << >>}
SmallestFitting(req) ==
  CHOOSE ord \in Fitting(req) : \A other \in Fitting(req) : ord <= other

\* Mutant of Remainders: the lower half goes to the free list.
RemaindersLower(ret, req, ord) == [k \in req .. ord - 1 |-> ret]

\* split_block: the upper halves that are cut off, by order.
Remainders(ret, req, ord) == [k \in req .. ord - 1 |-> ret + 2^k]

\* buddy_alloc_raw
Alloc(req) ==
  /\ Fitting(req) # {}
  /\ LET ord == SmallestFitting(req)
         ret == Head(avail[ord])
         rem == Remainders(ret, req, ord)
     IN  /\ avail' = [k \in Ord |->
                        IF k = ord THEN Tail(avail[k])
                        ELSE IF k \in DOMAIN rem THEN <<rem[k]>> \o avail[k]
                        ELSE avail[k]]
         /\ bitmap' = (bitmap \ Pages(ret, ord))
                        \cup UNION {Pages(rem[k], k) : k \in DOMAIN rem}
         /\ inUse' = inUse \cup {[addr |-> ret, ord |-> req]}
         /\ UNCHANGED misjudged

\* get_buddy
BuddyOf(addr, ord) ==
  IF addr % 2^(ord + 1) = 0 THEN addr + 2^ord ELSE addr - 2^ord

\* The block that coalescing has reached at order k, and its buddy.
Merged(addr, k) == addr - (addr % 2^k)
MergedBuddy(addr, k) == BuddyOf(Merged(addr, k), k)

\* Mutant of Coalesces: a block never merges into the largest one.
CoalescesTooLittle(addr, k) == k < MaxOrd - 1 /\ MergedBuddy(addr, k) \in bitmap

\* The condition of the coalescing loop: is_avail looks at the first page.
Coalesces(addr, k) == k < MaxOrd /\ MergedBuddy(addr, k) \in bitmap

\* The order at which the loop stops.
FinalOrd(addr, ord) ==
  CHOOSE k \in ord .. MaxOrd :
    ~Coalesces(addr, k) /\ \A j \in ord .. k - 1 : Coalesces(addr, j)

\* set_avail on the merged block
MarkedAfterFree(addr, ord, final) == bitmap \cup Pages(Merged(addr, final), final)

\* dlist_remove, of every block of `gone' that is in the list.
Without(list, gone) ==
  LET kept[n \in 0 .. Len(list)] ==
        IF n = 0 THEN << >>
        ELSE IF list[n] \in gone THEN kept[n - 1] ELSE Append(kept[n - 1], list[n])
  IN  kept[Len(list)]

\* The buddies the loop merges with when block b is freed: their orders, and
\* the pages at which dlist_remove is called.
MergedOrds(b) == b.ord .. FinalOrd(b.addr, b.ord) - 1
Gone(b) == {MergedBuddy(b.addr, k) : k \in MergedOrds(b)}

(***************************************************************************)
(* buddy_free_raw.  Every buddy merged with is unlinked from the list it   *)
(* is in, whichever that is.                                               *)
(***************************************************************************)
Free(b) ==
  LET final == FinalOrd(b.addr, b.ord)
      rest  == [k \in Ord |-> Without(avail[k], Gone(b))]
  IN  /\ avail' = [rest EXCEPT ![final] = <<Merged(b.addr, final)>> \o @]
      /\ bitmap' = MarkedAfterFree(b.addr, b.ord, final)
      /\ inUse' = inUse \ {b}
      /\ misjudged' = \E k \in MergedOrds(b) : MergedBuddy(b.addr, k) \notin ToSet(avail[k])

Next ==
  /\ ~misjudged
  /\ \/ \E req \in Orders : Alloc(req)
     \/ \E b \in inUse : Free(b)

Spec == Init /\ [][Next]_vars
=============================================================================
