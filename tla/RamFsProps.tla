---------------------------- MODULE RamFsProps -----------------------------
(***************************************************************************)
(* What users of the RAM file system rely on.                              *)
(***************************************************************************)
EXTENDS RamFs, FiniteSets, TLC

\* Names are interchangeable, and so are the values of bytes.
NameAndByteSymmetry == Permutations(Name) \cup Permutations(Byte)

\* Types; the length of a file is within its buffer.
FsTypeOK ==
  /\ Len(nodes) <= MaxNodes
  /\ \A n \in Ids :
       /\ nodes[n].name \in (IF n = Root THEN {""} ELSE Name)
       /\ nodes[n].type \in {"DIR", "FILE"}
       /\ nodes[n].first \in 0 .. Len(nodes) /\ nodes[n].next \in 0 .. Len(nodes)
       /\ nodes[n].buf \in Seq(Byte \cup {Garbage})
       /\ nodes[n].len \in 0 .. Len(nodes[n].buf)
  /\ mem \in 0 .. MemPages
  /\ crashed \in BOOLEAN

\* All paths from the root that can lead to a node: no tree is deeper than it
\* has nodes.
TreePaths == UNION {[1 .. k -> Name] : k \in 0 .. MaxNodes - 1}

\* Every node that was taken from the pool is found, under exactly one path:
\* none is lost, and none hides another of its name.
EveryNodeFound ==
  \A n \in Ids : Cardinality({p \in TreePaths : Lookup(Root, p) = n}) = 1

\* The memory in use is that of the names and of the files' buffers: growing
\* files give back what they had.
MemoryAccounted ==
  LET pages[k \in 0 .. Len(nodes)] ==
        IF k = 0 THEN 0 ELSE pages[k - 1] + Len(nodes[k].buf) \div PageSize
  IN  mem = Len(nodes) - 1 + pages[Len(nodes)]

\* No node and no memory is lost by any sequence of calls, failing ones
\* included.
NothingLost == FsTypeOK /\ EveryNodeFound /\ MemoryAccounted

\* The tree behind the links.
Tree ==
  [p \in {q \in TreePaths : Lookup(Root, q) # 0} |->
     LET n == Lookup(Root, p)
     IN  IF nodes[n].type = "DIR" THEN [type |-> "DIR"]
         ELSE [type |-> "FILE", bytes |-> Contents(n)]]

Store == INSTANCE FileStore WITH Path <- TreePaths, Chunk <- Chunks, tree <- Tree

\* The linked nodes implement the tree of FileStore: a call changes nothing but
\* what is found under the paths it is about, and bytes are read as written.
ImplementsStore == Store!Spec
=============================================================================
