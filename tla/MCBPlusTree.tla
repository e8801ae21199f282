---------------------------- MODULE MCBPlusTree -----------------------------
(* Instances of the B+ tree for TLC.                                         *)
EXTENDS BPlusTree

\* An empty tree, one leaf, a root over two full leaves, and two levels of
\* directories of which the last one has a single leaf.
SmallAndTall == { {}, {3, 4}, {2, 3, 5, 6, 8, 9}, {2, 3, 4, 6, 7, 8, 9, 10, 12, 13} }
=============================================================================
