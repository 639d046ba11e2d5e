----------------------- MODULE FileIntegrityInvariant -----------------------
(***************************************************************************)
(* What the rows and events of the scanner are worth.                       *)
(***************************************************************************)
EXTENDS FileIntegrity

Roots == {MerkleRoot(c) : c \in Contents} \cup {None}

TypeOK ==
  /\ inode \in [Files -> Inodes \cup {None}]
  /\ data \in [Inodes -> Contents]
  /\ changes \in 0 .. MaxChanges
  /\ todo \subseteq Files
  /\ at \in {"walk", "hash", "reopen", "merkle", "stat", "upsert", "publish"}
  /\ file \in Files
  /\ fd \in Inodes \cup {None}
  /\ read \in Contents
  /\ hash \in Contents \cup {None}
  /\ root \in Roots
  /\ size \in 0 .. MaxBlocks
  /\ entry \in [Files -> [hash : Contents, root : Roots, size : 0 .. MaxBlocks] \cup {None}]
  /\ event \in [Files -> Contents \cup {None}]
  /\ quiet \in BOOLEAN

\* What the file of this name holds, and the row that describes it.
Present(f) == inode[f] # None
ContentOf(f) == data[inode[f]]
RowOf(c) == [hash |-> c, root |-> MerkleRoot(c), size |-> Len(c)]

\* No two names share a file.
DiskInv == \A f, g \in Files : f # g /\ Present(f) => inode[f] # inode[g]

\* A file is open while it is read, and a digest is there once it is computed.
CallInv ==
  /\ fd # None <=> at \in {"hash", "merkle"}
  /\ read # <<>> => at \in {"hash", "merkle"}
  /\ hash = None <=> at \in {"walk", "hash"}

\* While nobody changes the file, whatever was read of it is its own.
QuietInv ==
  quiet /\ at # "walk" =>
    /\ Present(file)
    /\ at \in {"hash", "merkle"} => fd = inode[file] /\ IsPrefix(read, ContentOf(file))
    /\ at # "hash" => hash = ContentOf(file)
    /\ at \in {"stat", "upsert", "publish"} => root = MerkleRoot(ContentOf(file))
    /\ at \in {"upsert", "publish"} => size = Len(ContentOf(file))

\* The inductive invariant of a walk (file_integrity.c:79-99).
ScanInv == TypeOK /\ DiskInv /\ CallInv /\ QuietInv

\* A file that nobody touches during its file_cb (file_integrity.c:84-94) is
\* described exactly, by the row and by the event, whatever it was before.
QuietFileExact ==
  [][/\ Upsert /\ quiet => entry'[file] = RowOf(ContentOf(file))
     /\ Publish /\ quiet => event'[file] = ContentOf(file)]_vars

\* A change is noticed (file_integrity.c:105-108): once other programs leave the
\* files alone, each of them ends up with the row and the event of its content,
\* whatever a walk that raced with the last change had recorded.
ChangesRecorded ==
  <>[][FALSE]_disk =>
    \A f \in Files :
      <>[](Present(f) => entry[f] = RowOf(ContentOf(f)) /\ event[f] = ContentOf(f))
=============================================================================
