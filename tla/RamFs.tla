------------------------------- MODULE RamFs -------------------------------
(***************************************************************************)
(* The RAM file system of src/ramfs.c: nodes linked to a tree, a buffer of *)
(* data for every file, and the memory both are taken from.                *)
(*                                                                         *)
(* A call never sleeps, so every call is one step.  Nodes are never freed: *)
(* a node is named by the order in which it was taken from the pool, and a *)
(* pointer that is NULL is 0.  Paths are parsed: a path is the sequence of *)
(* its components, and is looked up from any node, not only from the root. *)
(* ram_fs_open and ram_fs_read change nothing; the one is Lookup, the      *)
(* other returns a part of Contents.                                       *)
(***************************************************************************)
EXTENDS Naturals, Sequences, SequencesExt

CONSTANTS
  Name,         \* names of files and directories
  Byte,
  Garbage,      \* what memory that was never written holds
  MaxNodes,     \* RAM_FS_MAX_NODES_NUM
  PageSize,     \* RAM_FS_DEFAULT_FILE_SIZE, and the unit of allocations
  MemPages,     \* the pages the allocator has for names and data
  ScratchPaths, \* the path names the scratch arena has room for
  MaxPath,      \* bound: components of a path
  MaxChunk,     \* bound: bytes passed to a write
  MaxFile       \* bound: length of a file

ASSUME BytesAssumption == Garbage \notin Byte
ASSUME SizesAssumption ==
  /\ MaxNodes \in Nat \ {0} /\ PageSize \in Nat \ {0}
  /\ MemPages \in Nat /\ ScratchPaths \in Nat
  /\ MaxPath \in Nat /\ MaxChunk \in Nat /\ MaxFile \in Nat

VARIABLES
  nodes,        \* the nodes taken from the pool, the root first
  mem,          \* pages allocated for names and data
  crashed       \* the kernel has crashed

fsVars == <<nodes, mem, crashed>>

Root == 1
Ids == 1 .. Len(nodes)
Paths == UNION {[1 .. n -> Name] : n \in 1 .. MaxPath}
Chunks == UNION {[1 .. n -> Byte] : n \in 0 .. MaxChunk}
Prefix(p, n) == SubSeq(p, 1, n)
Lesser(a, b) == IF a < b THEN a ELSE b
Greater(a, b) == IF a > b THEN a ELSE b

\* struct ram_fs_node; `buf' is the array of node->data, `len' its length.
NewNode(name, type) ==
  [name |-> name, type |-> type, first |-> 0, next |-> 0,
   buf |-> << >>, len |-> 0]

FsInit ==
  /\ nodes = <<NewNode("", "DIR")>>
  /\ mem = 0
  /\ crashed = FALSE

Crash == crashed' = TRUE /\ UNCHANGED <<nodes, mem>>

-----------------------------------------------------------------------------
\* ram_fs_node_lookup_at: along a directory, and down where the name fits.
LookupAt(p, start) ==
  LET at[c \in 0 .. Len(nodes)] ==
        [i \in 1 .. Len(p) |->
           IF c = 0 THEN 0
           ELSE IF nodes[c].name # p[i] THEN at[nodes[c].next][i]
           ELSE IF i = Len(p) THEN c
           ELSE IF nodes[c].type = "DIR" THEN at[nodes[c].first][i + 1] ELSE 0]
  IN  at[start][1]

Lookup(root, p) == IF p = << >> THEN root ELSE LookupAt(p, nodes[root].first)

\* The entries of a directory, in their order.
Entries(dir) ==
  LET from[c \in 0 .. Len(nodes)] ==
        IF c = 0 THEN << >> ELSE <<c>> \o from[nodes[c].next]
  IN  from[nodes[dir].first]

\* How many components of p lead to a node that exists, not counting the last.
Existing(root, p) ==
  CHOOSE n \in 0 .. Len(p) - 1 :
    /\ Lookup(root, Prefix(p, n)) # 0
    /\ \A k \in n + 1 .. Len(p) - 1 : Lookup(root, Prefix(p, k)) = 0

-----------------------------------------------------------------------------
\* A new node becomes the last entry of its directory.
Linked(dir, new) ==
  LET entries == Entries(dir)
  IN  IF entries = << >> THEN [nodes EXCEPT ![dir].first = new]
      ELSE [nodes EXCEPT ![entries[Len(entries)]].next = new]

\* What is made for the names of p from number n + 1 on: directories, each with
\* the next one as its only entry, and, if the nodes last, `leaf' at the end.
Made(p, n, count, leaf) ==
  [k \in 1 .. count |->
     IF n + k = Len(p) THEN leaf
     ELSE [NewNode(p[n + k], "DIR") EXCEPT
             !.first = IF k < count THEN Len(nodes) + k + 1 ELSE 0]]

(***************************************************************************)
(* ram_fs_create_common: with `recursive' it calls itself for the parent,  *)
(* as long as there is none.  Every such call takes a path name from the   *)
(* scratch arena, which crashes if it is used up.  A name that cannot be   *)
(* allocated is written to address 0.  If the nodes are used up, the       *)
(* directories made so far stay.  ram_fs_create_file then allocates the    *)
(* data; if that fails, the node stays without.                            *)
(***************************************************************************)
Create(root, p, type, recursive) ==
  LET n      == Existing(root, p)
      dir    == Lookup(root, Prefix(p, n))
      wanted == Len(p) - n
      count  == Lesser(wanted, MaxNodes - Len(nodes))
      data   == IF type = "FILE" /\ count = wanted /\ mem + count < MemPages
                THEN [i \in 1 .. PageSize |-> Garbage] ELSE << >>
      leaf   == [NewNode(p[Len(p)], type) EXCEPT !.buf = data]
  IN  /\ wanted > 1 => recursive
      /\ \/ wanted - 1 > ScratchPaths /\ Crash
         \/ /\ wanted - 1 <= ScratchPaths
            /\ nodes[dir].type = "DIR"
            /\ wanted = 1 => \A c \in ToSet(Entries(dir)) : nodes[c].name # p[Len(p)]
            /\ count > 0
            /\ \/ mem + count > MemPages /\ Crash
               \/ /\ mem + count <= MemPages
                  /\ nodes' = Linked(dir, Len(nodes) + 1) \o Made(p, n, count, leaf)
                  /\ mem' = mem + count + (IF data = << >> THEN 0 ELSE 1)
                  /\ UNCHANGED crashed

-----------------------------------------------------------------------------
Contents(n) == SubSeq(nodes[n].buf, 1, nodes[n].len)

\* The capacity a buffer of length cap is enlarged to if it has to hold need.
Capacity(cap, need) ==
  IF need <= cap THEN cap
  ELSE LET Fits(k) == cap * 2^k >= need
       IN  cap * 2^(CHOOSE k \in 1 .. need : Fits(k) /\ \A j \in 1 .. k - 1 : ~Fits(j))

\* Mutant of Enlarged: the data is not copied to the new buffer.
EnlargedEmpty(n, cap) == [i \in 1 .. cap |-> Garbage]

\* The buffer of a file, copied to a larger one if need be.
Enlarged(n, cap) ==
  [i \in 1 .. cap |->
     IF cap = Len(nodes[n].buf) \/ i <= nodes[n].len THEN nodes[n].buf[i]
     ELSE Garbage]

\* Mutant of PagesAfter: the old buffer is not freed.
PagesAfterLeak(old, cap) == IF cap = old THEN mem ELSE mem + cap \div PageSize

\* The pages in use after a buffer was replaced by one of capacity cap.
PagesAfter(old, cap) == mem - old \div PageSize + cap \div PageSize

(***************************************************************************)
(* ram_fs_write.  The new buffer of a file that grows is allocated before  *)
(* the old one is freed; if that fails the file stays as it is.  The       *)
(* assertion that a file has data fails for one that could not get any.    *)
(***************************************************************************)
Write(n, bytes, off) ==
  LET old == Len(nodes[n].buf)
      cap == Capacity(old, off + Len(bytes))
  IN  /\ nodes[n].type = "FILE"
      /\ \/ old = 0 /\ Crash
         \/ /\ old # 0
            /\ off <= nodes[n].len
            /\ cap = old \/ mem + cap \div PageSize <= MemPages
            /\ nodes' = [nodes EXCEPT
                 ![n].buf = [i \in 1 .. cap |->
                               IF i > off /\ i <= off + Len(bytes)
                               THEN bytes[i - off] ELSE Enlarged(n, cap)[i]],
                 ![n].len = Greater(@, off + Len(bytes))]
            /\ mem' = PagesAfter(old, cap)
            /\ UNCHANGED crashed

-----------------------------------------------------------------------------
\* crash() stops the processor for good.
Halted == crashed /\ UNCHANGED fsVars

FsNext ==
  \/ Halted
  \/ /\ ~crashed
     /\ \/ \E root \in Ids, p \in Paths, type \in {"DIR", "FILE"}, rec \in BOOLEAN :
             Create(root, p, type, rec)
        \/ \E n \in Ids, bytes \in Chunks, off \in 0 .. MaxFile :
             off + Len(bytes) <= MaxFile /\ Write(n, bytes, off)

FsSpec == FsInit /\ [][FsNext]_fsVars
=============================================================================
