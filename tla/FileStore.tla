----------------------------- MODULE FileStore -----------------------------
(***************************************************************************)
(* What a user of the RAM file system may rely on: a tree, given by what   *)
(* is found under every path.  A failing operation leaves no trace except  *)
(* that directories on the way to a new node, or the new file without any  *)
(* data, may have been made.                                               *)
(***************************************************************************)
EXTENDS Naturals, Sequences, FiniteSets

CONSTANTS
  Path,    \* the paths in use: a prefix-closed set of sequences of names
  Chunk    \* the byte sequences passed to a write

VARIABLE tree

Dir == [type |-> "DIR"]
File(bytes) == [type |-> "FILE", bytes |-> bytes]

Prefix(p, n) == SubSeq(p, 1, n)
Longer(a, b) == IF a > b THEN a ELSE b

\* `old' with `bytes' laid over it from position off on.
Overwritten(old, bytes, off) ==
  [i \in 1 .. Longer(Len(old), off + Len(bytes)) |->
     IF i > off /\ i <= off + Len(bytes) THEN bytes[i - off] ELSE old[i]]

\* The tree t and, in addition, `more'.
With(t, more) ==
  [q \in DOMAIN t \cup DOMAIN more |-> IF q \in DOMAIN t THEN t[q] ELSE more[q]]

Init == tree = [p \in {<< >>} |-> Dir]

\* The last nodes on the way to p, which are missing, are made: directories,
\* and `leaf' at the end.
Make(p, leaf) ==
  LET new == {Prefix(p, k) : k \in 1 .. Len(p)} \ DOMAIN tree
  IN  /\ p \in new
      /\ tree[Prefix(p, Len(p) - Cardinality(new))] = Dir
      /\ tree' = With(tree, [q \in new |-> IF q = p THEN leaf ELSE Dir])

Write(p, bytes, off) ==
  /\ p \in DOMAIN tree
  /\ tree[p].type = "FILE"
  /\ off <= Len(tree[p].bytes)
  /\ tree' = [tree EXCEPT ![p] = File(Overwritten(@.bytes, bytes, off))]

Next ==
  \/ \E p \in {q \in DOMAIN tree : tree[q].type = "FILE"} :
       \E off \in 0 .. Len(tree[p].bytes), bytes \in Chunk : Write(p, bytes, off)
  \/ \E p \in Path, leaf \in {Dir, File(<< >>)} : Make(p, leaf)

Spec == Init /\ [][Next]_tree
=============================================================================
