--------------------------- MODULE FileIntegrity ---------------------------
(***************************************************************************)
(* The scanner of file_integrity.c, walking a tree that other programs      *)
(* change while it reads (file_scan.c, hash.c).                             *)
(*                                                                         *)
(* file_cb opens a file twice, once for its SHA-256 and once for its Merkle *)
(* root, each time block by block, then stats it by name, stores the row    *)
(* and publishes the hash.  Nothing ties the three looks at the file        *)
(* together, and the row is all that is left of them.                       *)
(*                                                                         *)
(* SHA-256 is taken to be free of collisions: the hash of a content is the  *)
(* content, the hash of a pair of hashes is the pair.  Of the metadata the  *)
(* size stands for all.  A directory opens and reads as an empty file.      *)
(* Paths name regular files or directories, and no two of them the same     *)
(* file: nftw_cb ignores its type flag, so the scanner also follows         *)
(* symbolic links, whose targets share a content, and a FIFO without a      *)
(* writer stops it for ever (file_scan.c:10-14).                            *)
(***************************************************************************)
EXTENDS Naturals, Sequences, SequencesExt

CONSTANTS Files,      \* the paths below /etc, /usr/bin and /var/www
          Blocks,     \* what a block of 4096 bytes may hold
          MaxBlocks,  \* bound: the longest file
          Inodes,     \* bound: the files and replaced files there may be
          MaxChanges, \* bound: what other programs do to the files
          None        \* no inode, no entry, no root, no event

Contents == BoundedSeq(Blocks, MaxBlocks)

ASSUME BoundsAssumption == MaxBlocks \in Nat \ {0} /\ MaxChanges \in Nat /\ None \notin Inodes
ASSUME NoneAssumption == None \notin Contents

VARIABLES
  inode,    \* the directory entries: inode[f] is the file of this name, or None
  data,     \* the contents of an inode
  changes,  \* how often other programs have changed something
  todo,     \* the paths that this walk has yet to visit
  at,       \* where file_cb is
  file,     \* the path it is called for
  fd,       \* the inode it has open
  read,     \* the blocks read since the file was opened
  hash,     \* h
  root,     \* merkle
  size,     \* st.st_size
  entry,    \* table file_entries
  event,    \* the last event published for a path
  quiet     \* history: file has not changed since file_cb was called

disk == <<inode, data, changes>>
scan == <<todo, at, file, fd, read, hash, root, size>>
vars == <<disk, scan, entry, event, quiet>>

Init ==
  /\ inode = [f \in Files |-> None]
  /\ data = [i \in Inodes |-> <<>>]
  /\ changes = 0
  /\ todo = Files
  /\ at = "walk"
  /\ file \in Files
  /\ fd = None /\ read = <<>>
  /\ hash = None /\ root = None /\ size = 0
  /\ entry = [f \in Files |-> None]
  /\ event = [f \in Files |-> None]
  /\ quiet = FALSE

-----------------------------------------------------------------------------
(* compute_merkle_root: the leaves are the hashes of the blocks.  A level     *)
(* pairs its nodes, the last one with itself if their number is odd.          *)

NextLevel(level) ==
  [i \in 1 .. (Len(level) + 1) \div 2 |->
     <<level[2 * i - 1], IF 2 * i <= Len(level) THEN level[2 * i] ELSE level[2 * i - 1]>>]

\* The levels above the leaves of c: one node is left after at most Len(c).
Levels(c) ==
  LET level[n \in 0 .. Len(c)] ==
        IF n = 0 THEN [i \in 1 .. Len(c) |-> <<c[i]>>]
        ELSE IF Len(level[n - 1]) > 1 THEN NextLevel(level[n - 1]) ELSE level[n - 1]
  IN  level

\* The root of an empty file is the hash of nothing.
MerkleRoot(c) == IF c = <<>> THEN <<>> ELSE Levels(c)[Len(c)][1]

-----------------------------------------------------------------------------
(* Other programs *)

Change(f) ==
  /\ changes < MaxChanges
  /\ changes' = changes + 1
  /\ quiet' = (quiet /\ f # file)

Unused == {i \in Inodes : i # fd /\ \A f \in Files : inode[f] # i}

\* A new file takes the name: created, or renamed over an old one.
Replace(f, c) ==
  /\ \E i \in Unused : inode' = [inode EXCEPT ![f] = i] /\ data' = [data EXCEPT ![i] = c]
  /\ Change(f)
  /\ UNCHANGED <<scan, entry, event>>

Unlink(f) ==
  /\ inode[f] # None
  /\ inode' = [inode EXCEPT ![f] = None]
  /\ Change(f)
  /\ UNCHANGED <<data, scan, entry, event>>

\* A program writes in place: a block, a new block at the end, or a truncation.
Write(f) ==
  /\ inode[f] # None
  /\ LET old == data[inode[f]] IN
       \E new \in Contents :
         /\ \/ Len(new) = Len(old) /\ \E i \in DOMAIN old : \A j \in DOMAIN old \ {i} : new[j] = old[j]
            \/ \E b \in Blocks : new = Append(old, b)
            \/ old # <<>> /\ new = Front(old)
         /\ data' = [data EXCEPT ![inode[f]] = new]
  /\ Change(f)
  /\ UNCHANGED <<inode, scan, entry, event>>

-----------------------------------------------------------------------------
(* The scanner *)

\* nftw calls file_cb for a path; sha256_file_hex cannot open it.
Skip(f) ==
  /\ at = "walk" /\ f \in todo /\ inode[f] = None
  /\ todo' = todo \ {f}
  /\ UNCHANGED <<disk, at, file, fd, read, hash, root, size, entry, event, quiet>>

\* sha256_file_hex opens the file; of a FIFO the call would not return.
Open(f) ==
  /\ at = "walk" /\ f \in todo /\ inode[f] # None
  /\ todo' = todo \ {f}
  /\ at' = "hash" /\ file' = f /\ fd' = inode[f] /\ quiet' = TRUE
  /\ UNCHANGED <<disk, read, hash, root, size, entry, event>>

\* A mutant: the last block is not read.
AtEndEarly == Len(read) + 1 >= Len(data[fd])

\* fread returns the next block, or nothing at the end of the file.
AtEnd == Len(read) >= Len(data[fd])

ReadBlock ==
  /\ at \in {"hash", "merkle"} /\ ~AtEnd
  /\ read' = Append(read, data[fd][Len(read) + 1])
  /\ UNCHANGED <<disk, todo, at, file, fd, hash, root, size, entry, event, quiet>>

EndHash ==
  /\ at = "hash" /\ AtEnd
  /\ hash' = read
  /\ fd' = None /\ at' = "reopen" /\ read' = <<>>
  /\ UNCHANGED <<disk, todo, file, root, size, entry, event, quiet>>

\* compute_merkle_root opens the file again, by name.
Reopen ==
  /\ at = "reopen" /\ inode[file] # None
  /\ fd' = inode[file] /\ at' = "merkle"
  /\ UNCHANGED <<disk, todo, file, read, hash, root, size, entry, event, quiet>>

\* It is gone: the row gets an empty Merkle root.
ReopenFails ==
  /\ at = "reopen" /\ inode[file] = None
  /\ root' = None /\ at' = "stat"
  /\ UNCHANGED <<disk, todo, file, fd, read, hash, size, entry, event, quiet>>

EndMerkle ==
  /\ at = "merkle" /\ AtEnd
  /\ root' = MerkleRoot(read)
  /\ fd' = None /\ at' = "stat" /\ read' = <<>>
  /\ UNCHANGED <<disk, todo, file, hash, size, entry, event, quiet>>

\* A stat that fails leaves st as the stack has it, and file_cb goes on.
Stat ==
  /\ at = "stat"
  /\ IF inode[file] # None THEN size' = Len(data[inode[file]])
     ELSE size' \in 0 .. MaxBlocks
  /\ at' = "upsert"
  /\ UNCHANGED <<disk, todo, file, fd, read, hash, root, entry, event, quiet>>

\* A mutant: the two digests are passed in the wrong order.
RowSwapped == [hash |-> root, root |-> hash, size |-> size]

Row == [hash |-> hash, root |-> root, size |-> size]

\* db_update_file_entry replaces the row of the path.
Upsert ==
  /\ at = "upsert"
  /\ entry' = [entry EXCEPT ![file] = Row]
  /\ at' = "publish"
  /\ UNCHANGED <<disk, todo, file, fd, read, hash, root, size, event, quiet>>

\* It fails, and file_cb does not look.
UpsertFails ==
  /\ at = "upsert"
  /\ at' = "publish"
  /\ UNCHANGED <<disk, todo, file, fd, read, hash, root, size, entry, event, quiet>>

\* file_cb returns, and its variables are gone.
Return ==
  /\ at' = "walk" /\ read' = <<>> /\ hash' = None /\ root' = None /\ size' = 0
  /\ quiet' = FALSE

Publish ==
  /\ at = "publish"
  /\ event' = [event EXCEPT ![file] = hash]
  /\ Return
  /\ UNCHANGED <<disk, todo, file, fd, entry>>

\* The bus is full: a log line.
PublishFails ==
  /\ at = "publish"
  /\ Return
  /\ UNCHANGED <<disk, todo, file, fd, entry, event>>

\* A mutant: one walk is all there is.
NextRoundForgotten ==
  /\ at = "walk" /\ todo = {}
  /\ UNCHANGED vars

\* scan_thread sleeps for g_interval and walks again.
NextRound ==
  /\ at = "walk" /\ todo = {}
  /\ todo' = Files
  /\ UNCHANGED <<disk, at, file, fd, read, hash, root, size, entry, event, quiet>>

ScanStep ==
  \/ \E f \in Files : Skip(f) \/ Open(f)
  \/ ReadBlock \/ EndHash \/ Reopen \/ ReopenFails \/ EndMerkle \/ Stat
  \/ Upsert \/ UpsertFails \/ Publish \/ PublishFails \/ NextRound

Next ==
  \/ \E f \in Files : Unlink(f) \/ Write(f) \/ \E c \in Contents : Replace(f, c)
  \/ ScanStep

Spec == Init /\ [][Next]_vars

\* The scan thread runs.  SQLite and the bus refuse a call now and then, not
\* every time.
FairSpec ==
  /\ Spec
  /\ WF_vars(ScanStep)
  /\ \A f \in Files : SF_vars(Upsert /\ file = f) /\ SF_vars(Publish /\ file = f)
=============================================================================
