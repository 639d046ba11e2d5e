--------------------------- MODULE MCFileIntegrity ---------------------------
(***************************************************************************)
(* The scanner for TLC, and the Merkle root against its definition from the *)
(* root down.                                                               *)
(***************************************************************************)
EXTENDS FileIntegrityInvariant

\* The longest contents that the assumptions below look at.
MaxLeaves == 6

SomeContents == BoundedSeq(Blocks, MaxLeaves)

\* The node that stands for 2^h blocks of c from block i: the two halves, or the
\* left one twice if the right one is past the end.
RECURSIVE Node(_, _, _)
Node(c, i, h) ==
  IF h = 0 THEN <<c[i]>>
  ELSE LET half == 2 ^ (h - 1)
           left == Node(c, i, h - 1)
       IN  <<left, IF i + half <= Len(c) THEN Node(c, i + half, h - 1) ELSE left>>

Height(c) == CHOOSE h \in 0 .. Len(c) : 2 ^ h >= Len(c) /\ \A g \in 0 .. h - 1 : 2 ^ g < Len(c)

\* Level by level, compute_merkle_root arrives at the root of the tree.
ASSUME MerkleRootIsTree ==
  \A c \in SomeContents : MerkleRoot(c) = IF c = <<>> THEN <<>> ELSE Node(c, 1, Height(c))

\* Contents of one length have different roots.
ASSUME RootsTellContents ==
  \A c, d \in SomeContents : Len(c) = Len(d) /\ c # d => MerkleRoot(c) # MerkleRoot(d)

\* Contents of different lengths need not: the last block counts twice.
ASSUME LastBlockTwice ==
  \A x, y, z \in Blocks : MerkleRoot(<<x, y, z>>) = MerkleRoot(<<x, y, z, z>>)
=============================================================================
