------------------------ MODULE FileIntegrityProofs ------------------------
(***************************************************************************)
(* Proofs about FileIntegrity: the invariant of a walk, that a file nobody  *)
(* touches is described exactly, and what the Merkle root tells apart, for  *)
(* every set of files, every block and every number of changes.             *)
(***************************************************************************)
EXTENDS FileIntegrityInvariant, WellFoundedInduction, TLAPS

USE BoundsAssumption, NoneAssumption

-----------------------------------------------------------------------------
(* Contents *)

LEMMA ContentsFacts ==
  ASSUME NEW c \in Contents
  PROVE  c \in Seq(Blocks) /\ Len(c) \in Nat /\ Len(c) <= MaxBlocks
<1>1. PICK m \in 0 .. MaxBlocks : c \in [1 .. m -> Blocks]
  BY DEF Contents, BoundedSeq, SeqOf
<1> QED
  BY <1>1

LEMMA IsContent ==
  ASSUME NEW c \in Seq(Blocks), Len(c) <= MaxBlocks
  PROVE  c \in Contents
<1>1. Len(c) \in 0 .. MaxBlocks /\ c \in [1 .. Len(c) -> Blocks]
  OBVIOUS
<1> QED
  BY <1>1 DEF Contents, BoundedSeq, SeqOf

LEMMA EmptyFacts == <<>> \in Contents
<1>1. <<>> \in Seq(Blocks) /\ Len(<<>>) <= MaxBlocks
  OBVIOUS
<1> QED
  BY <1>1, IsContent

\* Reading on: one more block of a content, in its place.
LEMMA ReadOn ==
  ASSUME NEW s \in Contents, NEW c \in Contents, Len(s) < Len(c)
  PROVE  /\ Append(s, c[Len(s) + 1]) \in Contents
         /\ Append(s, c[Len(s) + 1]) # <<>>
         /\ IsPrefix(s, c) => IsPrefix(Append(s, c[Len(s) + 1]), c)
<1>1. s \in Seq(Blocks) /\ c \in Seq(Blocks) /\ Len(c) <= MaxBlocks
  BY ContentsFacts
<1> DEFINE r == Append(s, c[Len(s) + 1])
<1>0. c[Len(s) + 1] \in Blocks
  BY <1>1
<1>2. r \in Seq(Blocks) /\ Len(r) = Len(s) + 1 /\ r # <<>>
  BY <1>1, <1>0
<1>3. r \in Contents
  <2>1. Len(r) <= MaxBlocks
    BY <1>1, <1>2
  <2> HIDE DEF r
  <2> QED
    BY <1>2, <2>1, IsContent
<1>4. ASSUME IsPrefix(s, c) PROVE IsPrefix(r, c)
  <2>1. \A i \in 1 .. Len(s) : s[i] = c[i]
    BY <1>1, <1>4 DEF IsPrefix
  <2>2. \A i \in 1 .. Len(r) : r[i] = c[i]
    BY <2>1, <1>1
  <2>3. SubSeq(r, 1, Len(r)) = SubSeq(c, 1, Len(r))
    BY <1>1, <1>2, <2>2
  <2> QED
    BY <1>1, <1>2, <2>3 DEF IsPrefix
<1> QED
  BY <1>2, <1>3, <1>4

\* A prefix that is as long as the content is the content.
LEMMA ReadAll ==
  ASSUME NEW s \in Contents, NEW c \in Contents, IsPrefix(s, c), Len(s) >= Len(c)
  PROVE  s = c
<1>1. s \in Seq(Blocks) /\ c \in Seq(Blocks)
  BY ContentsFacts
<1>2. Len(s) = Len(c) /\ \A i \in 1 .. Len(s) : s[i] = c[i]
  BY <1>1 DEF IsPrefix
<1> QED
  BY <1>1, <1>2

LEMMA RootFacts == None \in Roots /\ \A c \in Contents : MerkleRoot(c) \in Roots
  BY DEF Roots

LEMMA NothingRead == \A c \in Contents : IsPrefix(<<>>, c)
  BY ContentsFacts DEF IsPrefix

-----------------------------------------------------------------------------
(* Other programs *)

LEMMA InitInv == Init => ScanInv
<1> SUFFICES ASSUME Init PROVE ScanInv
  OBVIOUS
<1>1. TypeOK
  <2>1. read \in Contents /\ data \in [Inodes -> Contents]
    BY EmptyFacts DEF Init
  <2>2. root \in Roots /\ size \in 0 .. MaxBlocks /\ changes \in 0 .. MaxChanges
    BY RootFacts DEF Init
  <2> QED
    BY <2>1, <2>2 DEF Init, TypeOK
<1>2. DiskInv /\ CallInv /\ QuietInv
  BY DEF Init, DiskInv, Present, CallInv, QuietInv
<1> QED
  BY <1>1, <1>2 DEF ScanInv

\* What is known of a quiet file stays true while its name and content do.
LEMMA QuietFrame ==
  ASSUME QuietInv, UNCHANGED scan,
         quiet' => quiet /\ inode'[file] = inode[file] /\ data'[inode[file]] = data[inode[file]]
  PROVE  QuietInv'
<1> SUFFICES ASSUME quiet', at' # "walk"
             PROVE  /\ Present(file)'
                    /\ at' \in {"hash", "merkle"} => fd' = inode'[file'] /\ IsPrefix(read', ContentOf(file)')
                    /\ at' # "hash" => hash' = ContentOf(file)'
                    /\ at' \in {"stat", "upsert", "publish"} => root' = MerkleRoot(ContentOf(file)')
                    /\ at' \in {"upsert", "publish"} => size' = Len(ContentOf(file)')
  BY DEF QuietInv, ContentOf
<1>1. UNCHANGED <<at, file, fd, read, hash, root, size>>
  BY DEF scan
<1>2. ContentOf(file)' = ContentOf(file) /\ Present(file)' = Present(file)
  BY <1>1 DEF ContentOf, Present
<1>3. quiet /\ at # "walk" /\ inode'[file'] = inode[file]
  BY <1>1
<1> QED
  BY <1>1, <1>2, <1>3 DEF QuietInv

\* Whatever another program writes, it is none of the open quiet file.
LEMMA ReplaceStep ==
  ASSUME ScanInv, NEW f \in Files, NEW c \in Contents, Replace(f, c)
  PROVE  ScanInv'
<1>1. PICK i \in Unused : inode' = [inode EXCEPT ![f] = i] /\ data' = [data EXCEPT ![i] = c]
  BY DEF Replace
<1>2. i \in Inodes /\ \A g \in Files : inode[g] # i
  BY <1>1 DEF Unused
<1>3. TypeOK'
  BY <1>1, <1>2 DEF ScanInv, TypeOK, Replace, Change, scan
<1>4. DiskInv'
  BY <1>1, <1>2 DEF ScanInv, TypeOK, DiskInv, Present
<1>5. CallInv'
  BY DEF ScanInv, CallInv, Replace, scan
<1>6. ASSUME quiet'
      PROVE  quiet /\ inode'[file] = inode[file] /\ data'[inode[file]] = data[inode[file]]
  <2>1. quiet /\ f # file /\ file \in Files
    BY <1>6 DEF Replace, Change, ScanInv, TypeOK
  <2> QED
    BY <1>1, <1>2, <2>1 DEF ScanInv, TypeOK
<1>7. QuietInv'
  BY <1>6, QuietFrame DEF ScanInv, Replace
<1> QED
  BY <1>3, <1>4, <1>5, <1>7 DEF ScanInv

LEMMA UnlinkStep ==
  ASSUME ScanInv, NEW f \in Files, Unlink(f)
  PROVE  ScanInv'
<1>1. TypeOK'
  BY DEF ScanInv, TypeOK, Unlink, Change, scan
<1>2. DiskInv'
  BY DEF ScanInv, TypeOK, DiskInv, Present, Unlink
<1>3. CallInv'
  BY DEF ScanInv, CallInv, Unlink, scan
<1>4. ASSUME quiet'
      PROVE  quiet /\ inode'[file] = inode[file] /\ data'[inode[file]] = data[inode[file]]
  BY <1>4 DEF Unlink, Change, ScanInv, TypeOK
<1>5. QuietInv'
  BY <1>4, QuietFrame DEF ScanInv, Unlink
<1> QED
  BY <1>1, <1>2, <1>3, <1>5 DEF ScanInv

LEMMA WriteStep ==
  ASSUME ScanInv, NEW f \in Files, Write(f)
  PROVE  ScanInv'
<1>1. PICK new \in Contents : data' = [data EXCEPT ![inode[f]] = new]
  BY DEF Write
<1>2. TypeOK'
  BY <1>1 DEF ScanInv, TypeOK, Write, Change, scan
<1>3. DiskInv'
  BY DEF ScanInv, DiskInv, Present, Write
<1>4. CallInv'
  BY DEF ScanInv, CallInv, Write, scan
<1>5. ASSUME quiet'
      PROVE  quiet /\ inode'[file] = inode[file] /\ data'[inode[file]] = data[inode[file]]
  <2>1. quiet /\ f # file /\ file \in Files /\ inode' = inode /\ inode[f] # None
    BY <1>5 DEF Write, Change, ScanInv, TypeOK
  <2>2. inode[f] # inode[file]
    BY <2>1 DEF ScanInv, DiskInv, Present
  <2> QED
    BY <1>1, <2>1, <2>2 DEF ScanInv, TypeOK
<1>6. QuietInv'
  BY <1>5, QuietFrame DEF ScanInv, Write
<1> QED
  BY <1>2, <1>3, <1>4, <1>6 DEF ScanInv

-----------------------------------------------------------------------------
(* The scanner *)

\* A scan step leaves the files alone.
LEMMA DiskFrame ==
  ASSUME DiskInv, UNCHANGED disk
  PROVE  DiskInv'
  BY DEF DiskInv, disk, Present

\* An open file is the one fd names; a file is open while it is read.
LEMMA OpenFacts ==
  ASSUME ScanInv, at \in {"hash", "merkle"}
  PROVE  fd \in Inodes /\ data[fd] \in Contents
  BY DEF ScanInv, TypeOK, CallInv

LEMMA WalkStep ==
  ASSUME ScanInv, NEW f \in Files, Skip(f) \/ Open(f)
  PROVE  ScanInv'
<1>1. CASE Skip(f)
  <2>1. TypeOK' /\ CallInv'
    BY <1>1 DEF Skip, disk, ScanInv, TypeOK, CallInv
  <2>2. QuietInv'
    BY <1>1 DEF Skip, QuietInv
  <2> QED
    BY <1>1, <2>1, <2>2, DiskFrame DEF Skip, ScanInv
<1>2. CASE Open(f)
  <2>1. TypeOK' /\ CallInv'
    BY <1>2 DEF Open, disk, ScanInv, TypeOK, CallInv
  <2>2. read = <<>> /\ data[inode[f]] \in Contents
    BY <1>2 DEF Open, ScanInv, TypeOK, CallInv
  <2>3. QuietInv'
    BY <1>2, <2>2, NothingRead DEF Open, disk, QuietInv, Present, ContentOf
  <2> QED
    BY <1>2, <2>1, <2>3, DiskFrame DEF Open, ScanInv
<1> QED
  BY <1>1, <1>2

LEMMA ReadStep ==
  ASSUME ScanInv, ReadBlock
  PROVE  ScanInv'
<1>1. fd \in Inodes /\ data[fd] \in Contents /\ read \in Contents
  BY OpenFacts DEF ReadBlock, ScanInv, TypeOK
<1>2. Len(read) < Len(data[fd])
  BY <1>1, ContentsFacts DEF ReadBlock, AtEnd
<1>3. read' \in Contents /\ read' # <<>>
  BY <1>1, <1>2, ReadOn DEF ReadBlock
<1>4. IsPrefix(read, data[fd]) => IsPrefix(read', data[fd])
  BY <1>1, <1>2, ReadOn DEF ReadBlock
<1>5. TypeOK' /\ CallInv'
  BY <1>3 DEF ReadBlock, disk, ScanInv, TypeOK, CallInv
<1>6. QuietInv'
  BY <1>4 DEF ReadBlock, disk, ScanInv, QuietInv, Present, ContentOf
<1> QED
  BY <1>5, <1>6, DiskFrame DEF ReadBlock, ScanInv

\* The last block of a quiet file was read: the digest is the one of its content.
LEMMA EndFacts ==
  ASSUME ScanInv, at \in {"hash", "merkle"}, AtEnd, quiet
  PROVE  read = ContentOf(file)
<1>1. fd \in Inodes /\ data[fd] \in Contents /\ read \in Contents
  BY OpenFacts DEF ScanInv, TypeOK
<1>2. IsPrefix(read, data[fd]) /\ ContentOf(file) = data[fd]
  BY DEF ScanInv, QuietInv, ContentOf
<1>3. Len(read) >= Len(data[fd])
  BY DEF AtEnd
<1> QED
  BY <1>1, <1>2, <1>3, ReadAll

LEMMA EndHashStep ==
  ASSUME ScanInv, EndHash
  PROVE  ScanInv'
<1>1. quiet => read = ContentOf(file)
  BY EndFacts DEF EndHash
<1>2. TypeOK' /\ CallInv'
  BY EmptyFacts DEF EndHash, disk, ScanInv, TypeOK, CallInv
<1>3. QuietInv'
  BY <1>1 DEF EndHash, disk, ScanInv, QuietInv, Present, ContentOf
<1> QED
  BY <1>2, <1>3, DiskFrame DEF EndHash, ScanInv

LEMMA ReopenStep ==
  ASSUME ScanInv, Reopen \/ ReopenFails
  PROVE  ScanInv'
<1>1. CASE Reopen
  <2>1. TypeOK' /\ CallInv'
    BY <1>1 DEF Reopen, disk, ScanInv, TypeOK, CallInv
  <2>2. read = <<>> /\ data[inode[file]] \in Contents
    BY <1>1 DEF Reopen, ScanInv, TypeOK, CallInv
  <2>3. QuietInv'
    BY <1>1, <2>2, NothingRead DEF Reopen, disk, ScanInv, QuietInv, Present, ContentOf
  <2> QED
    BY <1>1, <2>1, <2>3, DiskFrame DEF Reopen, ScanInv
<1>2. CASE ReopenFails
  <2>1. TypeOK' /\ CallInv'
    BY <1>2, RootFacts DEF ReopenFails, disk, ScanInv, TypeOK, CallInv
  <2>2. ~quiet
    BY <1>2 DEF ReopenFails, ScanInv, QuietInv, Present
  <2>3. QuietInv'
    BY <1>2, <2>2 DEF ReopenFails, QuietInv
  <2> QED
    BY <1>2, <2>1, <2>3, DiskFrame DEF ReopenFails, ScanInv
<1> QED
  BY <1>1, <1>2

LEMMA EndMerkleStep ==
  ASSUME ScanInv, EndMerkle
  PROVE  ScanInv'
<1>1. quiet => read = ContentOf(file)
  BY EndFacts DEF EndMerkle
<1>2. TypeOK' /\ CallInv'
  BY EmptyFacts, RootFacts DEF EndMerkle, disk, ScanInv, TypeOK, CallInv
<1>3. QuietInv'
  BY <1>1 DEF EndMerkle, disk, ScanInv, QuietInv, Present, ContentOf
<1> QED
  BY <1>2, <1>3, DiskFrame DEF EndMerkle, ScanInv

LEMMA StatStep ==
  ASSUME ScanInv, Stat
  PROVE  ScanInv'
<1>1. inode[file] # None => Len(data[inode[file]]) \in 0 .. MaxBlocks
  BY ContentsFacts DEF ScanInv, TypeOK
<1>2. size' \in 0 .. MaxBlocks
  BY <1>1 DEF Stat
<1>3. TypeOK' /\ CallInv'
  BY <1>2 DEF Stat, disk, ScanInv, TypeOK, CallInv
<1>4. QuietInv'
  BY DEF Stat, disk, ScanInv, QuietInv, Present, ContentOf
<1> QED
  BY <1>3, <1>4, DiskFrame DEF Stat, ScanInv

LEMMA UpsertStep ==
  ASSUME ScanInv, Upsert \/ UpsertFails
  PROVE  ScanInv'
<1>1. UNCHANGED disk /\ UNCHANGED <<todo, file, fd, read, hash, root, size, event, quiet>> /\ at = "upsert" /\ at' = "publish"
  BY DEF Upsert, UpsertFails
<1>2. entry' \in [Files -> [hash : Contents, root : Roots, size : 0 .. MaxBlocks] \cup {None}]
  BY DEF Upsert, UpsertFails, Row, ScanInv, TypeOK, CallInv
<1>3. TypeOK' /\ CallInv'
  BY <1>1, <1>2 DEF disk, ScanInv, TypeOK, CallInv
<1>4. QuietInv'
  BY <1>1 DEF disk, ScanInv, QuietInv, Present, ContentOf
<1> QED
  BY <1>1, <1>3, <1>4, DiskFrame DEF ScanInv

LEMMA PublishStep ==
  ASSUME ScanInv, Publish \/ PublishFails
  PROVE  ScanInv'
<1>1. UNCHANGED disk /\ UNCHANGED <<todo, file, fd, entry>> /\ Return /\ at = "publish"
  BY DEF Publish, PublishFails
<1>2. event' \in [Files -> Contents \cup {None}]
  BY DEF Publish, PublishFails, ScanInv, TypeOK
<1>3. TypeOK' /\ CallInv'
  <2>1. read' \in Contents /\ root' \in Roots /\ size' \in 0 .. MaxBlocks
    BY <1>1, EmptyFacts, RootFacts DEF Return
  <2> QED
    BY <1>1, <1>2, <2>1 DEF disk, Return, ScanInv, TypeOK, CallInv
<1>4. QuietInv'
  BY <1>1 DEF Return, QuietInv
<1> QED
  BY <1>1, <1>3, <1>4, DiskFrame DEF ScanInv

LEMMA RoundStep ==
  ASSUME ScanInv, NextRound
  PROVE  ScanInv'
<1>1. TypeOK' /\ CallInv' /\ QuietInv'
  BY DEF NextRound, disk, ScanInv, TypeOK, CallInv, QuietInv
<1> QED
  BY <1>1, DiskFrame DEF NextRound, ScanInv

LEMMA StepInv == ScanInv /\ [Next]_vars => ScanInv'
<1> SUFFICES ASSUME ScanInv, [Next]_vars PROVE ScanInv'
  OBVIOUS
<1>1. ASSUME NEW f \in Files, Unlink(f) \/ Write(f) \/ \E c \in Contents : Replace(f, c)
      PROVE  ScanInv'
  BY <1>1, UnlinkStep, WriteStep, ReplaceStep
<1>2. ASSUME ScanStep
      PROVE  ScanInv'
  BY <1>2, WalkStep, ReadStep, EndHashStep, ReopenStep, EndMerkleStep, StatStep,
     UpsertStep, PublishStep, RoundStep DEF ScanStep
<1>3. CASE UNCHANGED vars
  BY <1>3 DEF vars, disk, scan, ScanInv, TypeOK, DiskInv, CallInv, QuietInv, Present, ContentOf
<1> QED
  BY <1>1, <1>2, <1>3 DEF Next

-----------------------------------------------------------------------------
(* Theorems *)

\* The invariant of a walk (file_integrity.c:79-99) holds whatever other programs
\* do to the tree, for files of any number and length.
THEOREM ScanInvariance == Spec => []ScanInv
  BY InitInv, StepInv, PTL DEF Spec

LEMMA QuietStep ==
  ScanInv /\ [Next]_vars =>
    [/\ Upsert /\ quiet => entry'[file] = RowOf(ContentOf(file))
     /\ Publish /\ quiet => event'[file] = ContentOf(file)]_vars
<1> SUFFICES ASSUME ScanInv
             PROVE  /\ Upsert /\ quiet => entry'[file] = RowOf(ContentOf(file))
                    /\ Publish /\ quiet => event'[file] = ContentOf(file)
  OBVIOUS
<1>1. ASSUME Upsert, quiet PROVE entry'[file] = RowOf(ContentOf(file))
  <2>1. hash = ContentOf(file) /\ root = MerkleRoot(ContentOf(file)) /\ size = Len(ContentOf(file))
    BY <1>1 DEF ScanInv, QuietInv, Upsert
  <2>2. entry'[file] = Row
    BY <1>1 DEF Upsert, ScanInv, TypeOK
  <2> QED
    BY <2>1, <2>2 DEF Row, RowOf
<1>2. ASSUME Publish, quiet PROVE event'[file] = ContentOf(file)
  BY <1>2 DEF ScanInv, QuietInv, TypeOK, Publish
<1> QED
  BY <1>1, <1>2

\* A file that nobody touches during its file_cb is described exactly by its row
\* and by its event (file_integrity.c:84-94), for files of any number and length
\* and whatever happens to the others meanwhile.
THEOREM QuietFilesAreExact == Spec => QuietFileExact
  BY ScanInvariance, QuietStep, PTL DEF Spec, QuietFileExact


-----------------------------------------------------------------------------
(* The Merkle root.  Induction is over a set of numbers: what holds of 0, and *)
(* of the successor of each number it holds of, holds of all of them.         *)

LEMMA SetInduction ==
  ASSUME NEW S \in SUBSET Nat, 0 \in S, \A n \in S : n + 1 \in S
  PROVE  \A n \in Nat : n \in S
<1> SUFFICES ASSUME Nat \ S # {}
             PROVE  FALSE
  OBVIOUS
<1> DEFINE R == OpToRel(<, Nat)
           T == Nat \ S
<1>1. IsWellFoundedOn(R, Nat)
  BY NatLessThanWellFounded
<1>2. \A x, y \in Nat : x < y => <<x, y>> \in R
  BY DEF OpToRel
<1>3. T \subseteq Nat /\ T # {}
  OBVIOUS
<1>4. PICK x \in T : \A y \in T : <<y, x>> \notin R
  <2> HIDE DEF R, T
  <2> QED  BY <1>1, <1>3, WFMin
<1>5. x # 0 /\ x - 1 \in Nat /\ x - 1 < x /\ x = (x - 1) + 1
  OBVIOUS
<1>6. x - 1 \in T
  BY <1>5
<1>7. QED  BY <1>2, <1>4, <1>5, <1>6

\* compute_merkle_root starts from these, and goes from a level to the next one
\* until one node is left.
Leaves(c) == [i \in 1 .. Len(c) |-> <<c[i]>>]
Up(level) == IF Len(level) > 1 THEN NextLevel(level) ELSE level

\* The levels are those of the loop: the recursive definition defines them.
LEMMA LevelsDefined ==
  ASSUME NEW c \in Seq(Blocks)
  PROVE  Levels(c) = [n \in 0 .. Len(c) |->
                        IF n = 0 THEN Leaves(c) ELSE Up(Levels(c)[n - 1])]
<1> DEFINE Tower(g, n) == g = [m \in 0 .. n |-> IF m = 0 THEN Leaves(c) ELSE Up(g[m - 1])]
           S == {n \in Nat : \E g : Tower(g, n)}
<1>1. 0 \in S
  <2> DEFINE g == [m \in 0 .. 0 |-> Leaves(c)]
  <2>1. Tower(g, 0)
    OBVIOUS
  <2>2. QED  BY <2>1
<1>2. ASSUME NEW n \in S
      PROVE  n + 1 \in S
  <2>1. n \in Nat /\ n + 1 \in Nat
    OBVIOUS
  <2>2. PICK g : Tower(g, n)
    OBVIOUS
  <2> DEFINE h == [m \in 0 .. n + 1 |-> IF m = n + 1 THEN Up(g[n]) ELSE g[m]]
  <2>3. ASSUME NEW m \in 0 .. n + 1
        PROVE  h[m] = IF m = 0 THEN Leaves(c) ELSE Up(h[m - 1])
    <3>1. CASE m = n + 1
      BY <2>1, <3>1
    <3>2. CASE m # n + 1
      <4>1. m \in 0 .. n /\ h[m] = g[m] /\ (m # 0 => h[m - 1] = g[m - 1])
        BY <2>1, <3>2
      <4>2. g[m] = IF m = 0 THEN Leaves(c) ELSE Up(g[m - 1])
        BY <2>2, <4>1
      <4>3. QED  BY <4>1, <4>2
    <3>3. QED  BY <3>1, <3>2
  <2>4. h = [m \in 0 .. n + 1 |-> h[m]]
    OBVIOUS
  <2> HIDE DEF h
  <2>5. Tower(h, n + 1)
    BY <2>3, <2>4
  <2>6. QED  BY <2>1, <2>5
<1>3. S \in SUBSET Nat
  OBVIOUS
<1>4. Len(c) \in S
  <2> HIDE DEF S
  <2> QED  BY <1>1, <1>2, <1>3, SetInduction
<1>5. Levels(c) = CHOOSE g : Tower(g, Len(c))
  BY DEF Levels, Leaves, Up
<1>6. Tower(Levels(c), Len(c))
  BY <1>4, <1>5
<1>7. QED  BY <1>6

\* A level of k nodes.
LevelOf(s, k) == k \in Nat \ {0} /\ s = [i \in 1 .. k |-> s[i]]

LEMMA LevelLength ==
  ASSUME NEW k, NEW s, LevelOf(s, k)
  PROVE  Len(s) = k
<1>1. k \in Nat /\ s = [i \in 1 .. k |-> s[i]]
  BY DEF LevelOf
<1>2. Len([i \in 1 .. k |-> s[i]]) = k
  BY <1>1
<1>3. QED  BY <1>1, <1>2

\* A level of more than one node has fewer nodes above it.
LEMMA UpLength ==
  ASSUME NEW k, NEW s, LevelOf(s, k)
  PROVE  LevelOf(Up(s), IF k > 1 THEN (k + 1) \div 2 ELSE k)
<1>1. k \in Nat \ {0} /\ Len(s) = k
  BY LevelLength DEF LevelOf
<1>2. CASE k > 1
  <2>1. (k + 1) \div 2 \in Nat \ {0}
    BY <1>1, <1>2
  <2>2. Up(s) = [i \in 1 .. (k + 1) \div 2 |->
                   <<s[2 * i - 1], IF 2 * i <= k THEN s[2 * i] ELSE s[2 * i - 1]>>]
    BY <1>1, <1>2 DEF Up, NextLevel
  <2>3. QED  BY <1>2, <2>1, <2>2 DEF LevelOf
<1>3. CASE ~(k > 1)
  BY <1>1, <1>3 DEF Up, LevelOf
<1>4. QED  BY <1>2, <1>3

\* No two levels of k nodes have the same level above them: the nodes of the
\* level below are the halves of its nodes.
LEMMA UpInjective ==
  ASSUME NEW k, NEW s, NEW t, LevelOf(s, k), LevelOf(t, k), Up(s) = Up(t)
  PROVE  s = t
<1>1. k \in Nat \ {0} /\ Len(s) = k /\ Len(t) = k
  BY LevelLength DEF LevelOf
<1>2. CASE k > 1
  <2> DEFINE half == (k + 1) \div 2
             Pair(u, i) == <<u[2 * i - 1], IF 2 * i <= k THEN u[2 * i] ELSE u[2 * i - 1]>>
  <2>1. /\ Up(s) = [i \in 1 .. half |-> Pair(s, i)]
        /\ Up(t) = [i \in 1 .. half |-> Pair(t, i)]
    BY <1>1, <1>2 DEF Up, NextLevel
  <2>2. \A i \in 1 .. half : Pair(s, i) = Pair(t, i)
    <3> HIDE DEF half, Pair
    <3>1. SUFFICES ASSUME NEW i \in 1 .. half
                   PROVE  Pair(s, i) = Pair(t, i)
      OBVIOUS
    <3>2. Up(s)[i] = Pair(s, i) /\ Up(t)[i] = Pair(t, i)
      BY <2>1
    <3>3. QED  BY <3>2
  <2>3. ASSUME NEW i \in 1 .. half
        PROVE  /\ s[2 * i - 1] = t[2 * i - 1]
               /\ 2 * i <= k => s[2 * i] = t[2 * i]
    BY <2>2
  <2>4. ASSUME NEW j \in 1 .. k
        PROVE  s[j] = t[j]
    <3>1. PICK i \in 1 .. half : j = 2 * i - 1 \/ (j = 2 * i /\ 2 * i <= k)
      <4>1. (j + 1) \div 2 \in 1 .. half
        BY <1>1
      <4>2. j = 2 * ((j + 1) \div 2) - 1 \/ j = 2 * ((j + 1) \div 2)
        BY <1>1
      <4>3. QED  BY <1>1, <4>1, <4>2
    <3>2. QED  BY <2>3, <3>1
  <2>5. QED  BY <2>4 DEF LevelOf
<1>3. CASE ~(k > 1)
  BY <1>1, <1>3 DEF Up
<1>4. QED  BY <1>2, <1>3

\* What the levels of two contents of one length have in common: their sizes,
\* which shrink to one, and that they differ if the contents do.
LEMMA LevelsTogether ==
  ASSUME NEW c \in Seq(Blocks), NEW d \in Seq(Blocks), Len(c) = Len(d), c # <<>>
  PROVE  \A n \in 0 .. Len(c) :
           \E k \in Nat : /\ LevelOf(Levels(c)[n], k)
                          /\ LevelOf(Levels(d)[n], k)
                          /\ k = 1 \/ k <= Len(c) - n
                          /\ c # d => Levels(c)[n] # Levels(d)[n]
<1> DEFINE l == Len(c)
           Together(n, k) ==
             /\ LevelOf(Levels(c)[n], k)
             /\ LevelOf(Levels(d)[n], k)
             /\ k = 1 \/ k <= l - n
             /\ c # d => Levels(c)[n] # Levels(d)[n]
           S == {n \in Nat : n <= l => \E k \in Nat : Together(n, k)}
<1>1. l \in Nat /\ l # 0
  OBVIOUS
<1>2. /\ \A n \in 0 .. l :
           Levels(c)[n] = IF n = 0 THEN Leaves(c) ELSE Up(Levels(c)[n - 1])
      /\ \A n \in 0 .. l :
           Levels(d)[n] = IF n = 0 THEN Leaves(d) ELSE Up(Levels(d)[n - 1])
  BY LevelsDefined
<1>3. 0 \in S
  <2>1. Levels(c)[0] = Leaves(c) /\ Levels(d)[0] = Leaves(d)
    BY <1>1, <1>2
  <2>2. LevelOf(Leaves(c), l) /\ LevelOf(Leaves(d), l)
    BY <1>1 DEF LevelOf, Leaves
  <2>3. ASSUME c # d
        PROVE  Leaves(c) # Leaves(d)
    <3>1. PICK i \in 1 .. l : c[i] # d[i]
      BY <2>3
    <3>2. Leaves(c)[i] = <<c[i]>> /\ Leaves(d)[i] = <<d[i]>>
      BY DEF Leaves
    <3>3. QED  BY <3>1, <3>2
  <2>4. Together(0, l)
    BY <1>1, <2>1, <2>2, <2>3
  <2> HIDE DEF Together
  <2>5. QED  BY <1>1, <2>4
<1>4. ASSUME NEW n \in S
      PROVE  n + 1 \in S
  <2>1. SUFFICES ASSUME n + 1 <= l
                 PROVE  \E k \in Nat : Together(n + 1, k)
    OBVIOUS
  <2>2. n \in Nat /\ n <= l /\ n + 1 \in 0 .. l /\ n + 1 # 0 /\ (n + 1) - 1 = n
    BY <1>1, <2>1
  <2>3. PICK k \in Nat : Together(n, k)
    BY <2>2
  <2> DEFINE up == IF k > 1 THEN (k + 1) \div 2 ELSE k
  <2>4. Levels(c)[n + 1] = Up(Levels(c)[n]) /\ Levels(d)[n + 1] = Up(Levels(d)[n])
    BY <1>2, <2>2
  <2>5. LevelOf(Levels(c)[n + 1], up) /\ LevelOf(Levels(d)[n + 1], up)
    BY <2>3, <2>4, UpLength
  <2>6. c # d => Levels(c)[n + 1] # Levels(d)[n + 1]
    BY <2>3, <2>4, UpInjective
  <2>7. up \in Nat /\ (up = 1 \/ up <= l - (n + 1))
    BY <1>1, <2>2, <2>3 DEF LevelOf
  <2> HIDE DEF up
  <2>8. QED  BY <2>5, <2>6, <2>7
<1>5. \A n \in Nat : n \in S
  <2> HIDE DEF S
  <2>1. S \in SUBSET Nat
    BY DEF S
  <2>2. QED  BY <1>3, <1>4, <2>1, SetInduction
<1>6. \A n \in 0 .. l : n \in Nat /\ n <= l
  BY <1>1
<1>7. QED  BY <1>5, <1>6

\* The Merkle root tells contents of one length apart, however long they are
\* (compute_merkle_root, file_integrity.c): with the size beside it in the row, it
\* stands for the content.
THEOREM RootTellsContents ==
  ASSUME NEW c \in Contents, NEW d \in Contents, Len(c) = Len(d), c # d
  PROVE  MerkleRoot(c) # MerkleRoot(d)
<1>1. c \in Seq(Blocks) /\ d \in Seq(Blocks)
  BY ContentsFacts
<1> DEFINE l == Len(c)
<1>2. l \in Nat /\ l \in 0 .. l /\ c # <<>> /\ d # <<>>
  BY <1>1
<1>3. PICK k \in Nat : /\ LevelOf(Levels(c)[l], k)
                       /\ LevelOf(Levels(d)[l], k)
                       /\ k = 1 \/ k <= l - l
                       /\ Levels(c)[l] # Levels(d)[l]
  BY <1>1, <1>2, LevelsTogether
<1>4. k = 1
  BY <1>2, <1>3 DEF LevelOf
<1>5. Levels(c)[l][1] # Levels(d)[l][1]
  BY <1>3, <1>4 DEF LevelOf
<1>6. QED  BY <1>2, <1>5 DEF MerkleRoot

\* An odd last node is paired with itself.
LEMMA OddLevel ==
  ASSUME NEW h \in Nat, NEW s, NEW t, LevelOf(s, 2 * h + 1), LevelOf(t, 2 * h + 2),
         \A i \in 1 .. 2 * h + 1 : t[i] = s[i], t[2 * h + 2] = s[2 * h + 1]
  PROVE  NextLevel(t) = NextLevel(s)
<1> DEFINE n == 2 * h + 1
<1>1. Len(s) = n /\ Len(t) = n + 1
  BY LevelLength
<1>2. (n + 1) \div 2 = h + 1 /\ (n + 1 + 1) \div 2 = h + 1
  OBVIOUS
<1>3. \A i \in 1 .. h + 1 :
        /\ t[2 * i - 1] = s[2 * i - 1]
        /\ (IF 2 * i <= n + 1 THEN t[2 * i] ELSE t[2 * i - 1])
             = IF 2 * i <= n THEN s[2 * i] ELSE s[2 * i - 1]
  <2>1. SUFFICES ASSUME NEW i \in 1 .. h + 1
                 PROVE  /\ t[2 * i - 1] = s[2 * i - 1]
                        /\ (IF 2 * i <= n + 1 THEN t[2 * i] ELSE t[2 * i - 1])
                             = IF 2 * i <= n THEN s[2 * i] ELSE s[2 * i - 1]
    OBVIOUS
  <2>2. CASE i = h + 1
    BY <2>2
  <2>3. CASE i # h + 1
    BY <2>3
  <2>4. QED  BY <2>2, <2>3
<1> HIDE DEF n
<1>4. QED  BY <1>1, <1>2, <1>3 DEF NextLevel

\* The root alone does not: with an odd number of blocks, the last one might as
\* well be there twice.
THEOREM LastBlockCountsTwice ==
  ASSUME NEW c \in Contents, NEW h \in Nat \ {0}, Len(c) = 2 * h + 1,
         NEW d \in Contents, d = Append(c, c[Len(c)])
  PROVE  MerkleRoot(d) = MerkleRoot(c)
<1> DEFINE l == Len(c)
           S == {n \in Nat : n + 1 <= l => Levels(d)[n + 1] = Levels(c)[n + 1]}
<1>1. /\ c \in Seq(Blocks) /\ d \in Seq(Blocks)
      /\ l \in Nat /\ l >= 3 /\ Len(d) = l + 1
      /\ c # <<>> /\ d # <<>>
  <2>1. c \in Seq(Blocks) /\ d \in Seq(Blocks)
    BY ContentsFacts
  <2>2. l \in Nat /\ l = 2 * h + 1
    BY <2>1
  <2>3. l >= 3
    BY <2>2
  <2>4. Len(d) = l + 1
    BY <2>1, <2>2
  <2>5. c # <<>> /\ d # <<>>
    BY <2>2, <2>3, <2>4
  <2>6. QED  BY <2>1, <2>2, <2>3, <2>4, <2>5
<1>2. /\ \A n \in 0 .. l :
           Levels(c)[n] = IF n = 0 THEN Leaves(c) ELSE Up(Levels(c)[n - 1])
      /\ \A n \in 0 .. l + 1 :
           Levels(d)[n] = IF n = 0 THEN Leaves(d) ELSE Up(Levels(d)[n - 1])
  BY <1>1, LevelsDefined
<1>3. Levels(d)[1] = Levels(c)[1]
  <2>1. /\ Levels(c)[0] = Leaves(c) /\ Levels(c)[1] = Up(Leaves(c))
        /\ Levels(d)[0] = Leaves(d) /\ Levels(d)[1] = Up(Leaves(d))
    BY <1>1, <1>2
  <2>2. /\ Len(Leaves(c)) = l /\ Len(Leaves(d)) = l + 1
        /\ \A i \in 1 .. l : Leaves(c)[i] = <<c[i]>> /\ Leaves(d)[i] = <<c[i]>>
        /\ Leaves(d)[l + 1] = <<c[l]>>
    BY <1>1 DEF Leaves
  <2>3. LevelOf(Leaves(c), l) /\ LevelOf(Leaves(d), l + 1)
    BY <1>1 DEF Leaves, LevelOf
  <2>4. Up(Leaves(c)) = NextLevel(Leaves(c)) /\ Up(Leaves(d)) = NextLevel(Leaves(d))
    BY <1>1, <2>2 DEF Up
  <2>5. l = 2 * h + 1 /\ l + 1 = 2 * h + 2 /\ h \in Nat
    OBVIOUS
  <2>6. NextLevel(Leaves(d)) = NextLevel(Leaves(c))
    <3>1. LevelOf(Leaves(c), 2 * h + 1) /\ LevelOf(Leaves(d), 2 * h + 2)
      BY <2>3, <2>5
    <3>2. l \in 1 .. l
      BY <1>1
    <3>3. Leaves(d)[l + 1] = Leaves(c)[l] /\ \A i \in 1 .. l : Leaves(d)[i] = Leaves(c)[i]
      BY <2>2, <3>2
    <3>4. \A i \in 1 .. 2 * h + 1 : Leaves(d)[i] = Leaves(c)[i]
      BY <2>5, <3>3
    <3>5. Leaves(d)[2 * h + 2] = Leaves(c)[2 * h + 1]
      BY <2>5, <3>3
    <3> HIDE DEF l
    <3>6. QED  BY <2>5, <3>1, <3>4, <3>5, OddLevel, Zenon
  <2>7. QED  BY <2>1, <2>4, <2>6
<1>4. 0 \in S
  BY <1>3
<1>5. ASSUME NEW n \in S
      PROVE  n + 1 \in S
  <2>1. SUFFICES ASSUME n + 1 + 1 <= l
                 PROVE  Levels(d)[n + 1 + 1] = Levels(c)[n + 1 + 1]
    OBVIOUS
  <2>2. n + 1 + 1 \in 0 .. l /\ n + 1 + 1 \in 0 .. l + 1 /\ n + 1 + 1 # 0
        /\ (n + 1 + 1) - 1 = n + 1 /\ n + 1 <= l
    BY <1>1, <2>1
  <2>3. Levels(d)[n + 1] = Levels(c)[n + 1]
    BY <2>2
  <2>4. QED  BY <1>2, <2>2, <2>3
<1>6. l - 1 \in S
  <2>1. S \in SUBSET Nat /\ l - 1 \in Nat
    BY <1>1
  <2> HIDE DEF S
  <2>2. QED  BY <1>4, <1>5, <2>1, SetInduction
<1>7. Levels(d)[l] = Levels(c)[l]
  <2>1. (l - 1) + 1 = l /\ l <= l
    BY <1>1
  <2>2. QED  BY <1>6, <2>1
<1>8. Len(Levels(c)[l]) = 1
  <2>1. PICK k \in Nat : LevelOf(Levels(c)[l], k) /\ (k = 1 \/ k <= l - l)
    BY <1>1, LevelsTogether
  <2>2. k = 1
    BY <1>1, <2>1 DEF LevelOf
  <2>3. QED  BY <2>1, <2>2, LevelLength
<1>9. Levels(d)[l + 1] = Levels(c)[l]
  <2>1. l + 1 \in 0 .. l + 1 /\ l + 1 # 0 /\ (l + 1) - 1 = l
    BY <1>1
  <2>2. Levels(d)[l + 1] = Up(Levels(d)[l])
    BY <1>2, <2>1
  <2>3. Up(Levels(c)[l]) = Levels(c)[l]
    BY <1>8 DEF Up
  <2>4. QED  BY <1>7, <2>2, <2>3
<1>10. QED  BY <1>1, <1>9 DEF MerkleRoot
=============================================================================
