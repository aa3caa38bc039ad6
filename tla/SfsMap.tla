------------------------------- MODULE SfsMap -------------------------------
(***************************************************************************)
(* The block layer of SFS, the simple file system: the free map, the map   *)
(* from a file's block indices to disk blocks (direct, indirect and        *)
(* doubly-indirect), the inodes in memory with their copies on disk, and   *)
(* the operations that grow, shrink, save and release them: write, read,   *)
(* seek, fsync, sync, open with O_CREAT or O_TRUNC, unlink and close.      *)
(*                                                                         *)
(* The disk is a RAM disk and never sleeps, so on one processor every      *)
(* operation is one step; what remains hard is that an allocation may fail *)
(* at any point of an operation, and that one file is reached through      *)
(* several descriptors, each with a position of its own.  An inode is in   *)
(* memory while somebody holds it; what is changed in it and not marked    *)
(* dirty is lost with the last close.                                      *)
(*                                                                         *)
(* Lengths and positions are in units, BlkSize of them to a block.  The    *)
(* contents of data blocks are left out; those of indirect blocks are not. *)
(* A file has at most one name here; SfsDir has the link counts.           *)
(***************************************************************************)
EXTENDS Integers, FiniteSets, FiniteSetsExt

CONSTANTS
  NBlocks,      \* disk blocks 1 .. NBlocks hold inodes, entries and data
  NDirect,      \* SFS_NDIRECT
  NEntry,       \* SFS_BLK_NENTRY
  BlkSize,      \* SFS_BLKSIZE
  MaxFileSize,  \* SFS_MAX_FILE_SIZE
  Names,        \* file names of the root directory
  Fds,          \* open file slots
  MaxIO,        \* longest read or write
  Seeks         \* bound: the positions that are sought

ASSUME SfsMapAssumption ==
  /\ NBlocks \in Nat /\ NEntry \in Nat \ {0} /\ BlkSize \in Nat \ {0}
  /\ NDirect \in Nat /\ MaxIO \in Nat
  /\ MaxFileSize \in 1 .. BlkSize * (NDirect + NEntry + NEntry * NEntry)

VARIABLES
  sfs,    \* see Init
  name,   \* name -> ino, 0 when there is no such file
  fd      \* slot -> [ino, pos], ino 0 when closed

vars == <<sfs, name, fd>>

Blocks == 1 .. NBlocks
NoEntries == [i \in 0 .. NEntry - 1 |-> 0]
NoInode == [nlinks |-> -1]
NewInode == [nlinks |-> 0, blocks |-> 0, size |-> 0, indirect |-> 0,
             db_indirect |-> 0, direct |-> [i \in 0 .. NDirect - 1 |-> 0]]
Closed == [ino |-> 0, pos |-> 0]

MarkDirty(s, f) == [s EXCEPT !.dirty = @ \cup {f}]
Panicked(s, why) == IF s.panic = "" THEN [s EXCEPT !.panic = why] ELSE s

\* The outcome of a step that may run out of blocks.
Done(s, ino) == [s |-> s, ok |-> TRUE, ino |-> ino]
NoSpace(s) == [s |-> s, ok |-> FALSE, ino |-> 0]

-----------------------------------------------------------------------------
(* The free map *)

\* A block is cleared when it is allocated; nobody reads it while it is free, and
\* sfs_block_free clears it here.
sfs_block_alloc(s) ==
  IF s.free = {} THEN NoSpace(s)
  ELSE LET b == Min(s.free)
       IN  Done([s EXCEPT !.free = @ \ {b}, !.unused = @ - 1], b)

sfs_block_free(s, b) ==
  IF b \notin Blocks \/ b \in s.free THEN Panicked(s, "block_inuse")
  ELSE [s EXCEPT !.free = @ \cup {b}, !.unused = @ + 1, !.forgot = @ \ {b},
                 !.ent[b] = NoEntries, !.disk[b] = NoInode]

-----------------------------------------------------------------------------
(* The block map.  sfs_bmap_get_sub returns the entry block as ent too.    *)

Sub(r, ent) == [s |-> r.s, ok |-> r.ok, ino |-> r.ino, ent |-> ent]
EntryOf(s, ent, index) == IF ent = 0 THEN 0 ELSE s.ent[ent][index]
EntryBlock(s, ent) == IF ent # 0 THEN Done(s, ent) ELSE sfs_block_alloc(s)

\* The entry at index of block e set to the new block b.
SetEntry(b, e, index) ==
  IF b.ok THEN Sub(Done([b.s EXCEPT !.ent[e][index] = b.ino], b.ino), e) ELSE Sub(b, 0)

sfs_bmap_get_sub_KeepEnt(s, ent, index, create) ==
  LET WithEnt(e) == IF ~e.ok THEN Sub(e, ent)
                    ELSE SetEntry(sfs_block_alloc(e.s), e.ino, index)
  IN  IF EntryOf(s, ent, index) # 0 \/ ~create
      THEN Sub(Done(s, EntryOf(s, ent, index)), ent)
      ELSE WithEnt(EntryBlock(s, ent))

\* A failure gives back the entry block that was just allocated.
sfs_bmap_get_sub(s, ent, index, create) ==
  LET Cleanup(t, e) == IF ent # 0 THEN t ELSE sfs_block_free(t, e)
      WithEnt(e) == IF ~e.ok THEN Sub(e, ent)
                    ELSE IF e.s.free = {} THEN Sub(NoSpace(Cleanup(e.s, e.ino)), ent)
                    ELSE SetEntry(sfs_block_alloc(e.s), e.ino, index)
  IN  IF EntryOf(s, ent, index) # 0 \/ ~create
      THEN Sub(Done(s, EntryOf(s, ent, index)), ent)
      ELSE WithEnt(EntryBlock(s, ent))

GetDirect(s, f, index, create) ==
  LET Set(b) == IF ~b.ok THEN b
                ELSE Done(MarkDirty([b.s EXCEPT !.din[f].direct[index] = b.ino], f), b.ino)
  IN  IF s.din[f].direct[index] # 0 \/ ~create THEN Done(s, s.din[f].direct[index])
      ELSE Set(sfs_block_alloc(s))

\* *field = ent, where the field of the inode has changed.
SetIndirect(s, f, ent) ==
  IF ent = s.din[f].indirect THEN s
  ELSE MarkDirty([s EXCEPT !.din[f].indirect = ent], f)

SetDoubly(s, f, ent) ==
  IF ent = s.din[f].db_indirect THEN s
  ELSE MarkDirty([s EXCEPT !.din[f].db_indirect = ent], f)

GetIndirect(s, f, index, create) ==
  LET Set(g) == IF ~g.ok THEN g ELSE Done(SetIndirect(g.s, f, g.ent), g.ino)
  IN  Set(sfs_bmap_get_sub(s, s.din[f].indirect, index, create))

\* The second level stays with the file when the block itself cannot be had.
GetDoubly(s, f, index, create) ==
  LET Inner(g, t) == IF g.ino = 0 THEN Done(t, 0)
                     ELSE sfs_bmap_get_sub(t, g.ino, index % NEntry, create)
      Outer(g) == IF ~g.ok THEN g ELSE Inner(g, SetDoubly(g.s, f, g.ent))
  IN  Outer(sfs_bmap_get_sub(s, s.din[f].db_indirect, index \div NEntry, create))

sfs_bmap_get(s, f, index, create) ==
  CASE index < NDirect -> GetDirect(s, f, index, create)
    [] index >= NDirect /\ index < NDirect + NEntry ->
         GetIndirect(s, f, index - NDirect, create)
    [] OTHER -> GetDoubly(s, f, index - NDirect - NEntry, create)

sfs_bmap_free_sub(s, ent, index) ==
  LET b == s.ent[ent][index]
  IN  IF ent \in s.free THEN Panicked(s, "block_inuse")
      ELSE IF b = 0 THEN s
      ELSE sfs_block_free([s EXCEPT !.ent[ent][index] = 0], b)

sfs_bmap_free(s, f, index) ==
  LET din == s.din[f]
      i == index - NDirect - NEntry
      l2 == EntryOf(s, din.db_indirect, i \div NEntry)
  IN  CASE index < NDirect ->
             IF din.direct[index] = 0 THEN s
             ELSE sfs_block_free(MarkDirty([s EXCEPT !.din[f].direct[index] = 0], f),
                                 din.direct[index])
        [] index >= NDirect /\ index < NDirect + NEntry ->
             IF din.indirect = 0 THEN s
             ELSE sfs_bmap_free_sub(s, din.indirect, index - NDirect)
        [] OTHER -> IF l2 = 0 THEN s ELSE sfs_bmap_free_sub(s, l2, i % NEntry)

\* din->blocks++, and no sin->dirty = 1: README, section 3
Counted(s, f, create) == IF create THEN [s EXCEPT !.din[f].blocks = @ + 1] ELSE s

sfs_bmap_load_CountFirst(s, f, index) ==
  LET create == index = s.din[f].blocks
  IN  IF index > s.din[f].blocks THEN NoSpace(Panicked(s, "index_in_map"))
      ELSE sfs_bmap_get(Counted(s, f, create), f, index, create)

sfs_bmap_load(s, f, index) ==
  LET create == index = s.din[f].blocks
      Loaded(g) == IF ~g.ok THEN g
                   ELSE IF g.ino = 0 THEN NoSpace(Panicked(g.s, "block_inuse"))
                   ELSE Done(Counted([g.s EXCEPT !.forgot = @ \ {g.ino}], f, create), g.ino)
  IN  IF index > s.din[f].blocks THEN NoSpace(Panicked(s, "index_in_map"))
      ELSE Loaded(sfs_bmap_get(s, f, index, create))

sfs_bmap_truncate(s, f) ==
  MarkDirty([sfs_bmap_free(s, f, s.din[f].blocks - 1) EXCEPT !.din[f].blocks = @ - 1], f)

\* Blocks first .. last loaded in order, up to the first that fails: upto is
\* the first index not loaded.
LoadBlocks(s, f, first, last) ==
  LET Loaded(g, i) == [s |-> g.s, ok |-> g.ok, upto |-> IF g.ok THEN i + 1 ELSE i]
      Then(done, i) == IF done.ok THEN Loaded(sfs_bmap_load(done.s, f, i), i) ELSE done
      load[i \in Nat] == IF i <= first THEN [s |-> s, ok |-> TRUE, upto |-> first]
                         ELSE Then(load[i - 1], i - 1)
  IN  load[last + 1]

\* The last n blocks of f given back, one by one from the end.
TruncateBlocks(s, f, n) ==
  LET t[i \in Nat] == IF i = 0 THEN s ELSE sfs_bmap_truncate(t[i - 1], f)
  IN  t[n]

-----------------------------------------------------------------------------
(* The operations of a file *)

RaiseSize_NoMark(s, f, end) == [s EXCEPT !.din[f].size = Max({@, end})]

RaiseSize(s, f, end) ==
  IF end <= s.din[f].size THEN s ELSE MarkDirty([s EXCEPT !.din[f].size = end], f)

\* sfs_io: reads end at the size of the file; a write that runs out of
\* blocks keeps what it has written.  Returns the state and the length done.
sfs_io(s, f, offset, len, write) ==
  LET size == s.din[f].size
      want == Min({offset + len, MaxFileSize})
      endpos == IF write THEN want ELSE Min({want, size})
      Out(t, alen) == [s |-> RaiseSize(t, f, offset + alen), alen |-> alen]
      Finish(l) == Out(l.s, IF l.ok THEN endpos - offset
                            ELSE Max({0, l.upto * BlkSize - offset}))
  IN  IF offset >= MaxFileSize \/ len = 0 \/ (~write /\ offset >= size)
      THEN [s |-> s, alen |-> 0]
      ELSE Finish(LoadBlocks(s, f, offset \div BlkSize, (endpos - 1) \div BlkSize))

sfs_truncfile(s, f, len) ==
  LET din == s.din[f]
      tblks == (len + BlkSize - 1) \div BlkSize
      Resized(t) == Done(MarkDirty([t EXCEPT !.din[f].size = len], f), 0)
      Grown(l) == IF l.ok THEN Resized(l.s) ELSE NoSpace(l.s)
  IN  IF din.size = len
      THEN Done(IF tblks = din.blocks THEN s ELSE Panicked(s, "size_blocks"), 0)
      ELSE IF din.blocks < tblks THEN Grown(LoadBlocks(s, f, din.blocks, tblks - 1))
      ELSE Resized(TruncateBlocks(s, f, din.blocks - tblks))

sfs_tryseek(s, f, pos) ==
  IF pos >= MaxFileSize THEN NoSpace(s)
  ELSE IF pos > s.din[f].size THEN sfs_truncfile(s, f, pos)
  ELSE Done(s, 0)

-----------------------------------------------------------------------------
(* Inodes in memory and on disk *)

Loaded(s) == {f \in Blocks : s.din[f] # NoInode}

\* for the inodes F: one without links is not saved, it is about to go
sfs_fsync(s, F) ==
  LET saved == {f \in F \cap s.dirty : s.din[f].nlinks # 0}
  IN  [s EXCEPT !.dirty = @ \ saved,
                !.disk = [f \in Blocks |-> IF f \in saved THEN s.din[f] ELSE @[f]]]

sfs_load_inode(s, f) ==
  IF f \in Loaded(s) THEN s
  ELSE IF f \in s.free \/ s.disk[f].nlinks <= 0 THEN Panicked(s, "load_inode")
  ELSE [s EXCEPT !.din[f] = s.disk[f]]

\* The blocks that din->blocks counts and the copy on disk does not.
Uncounted(s, f) ==
  {sfs_bmap_get(s, f, i, FALSE).ino : i \in s.disk[f].blocks .. s.din[f].blocks - 1}

\* The inode leaves memory, with what was not saved; forgot remembers it.
DropInode(s, f) == [s EXCEPT !.din[f] = NoInode, !.dirty = @ \ {f}]
Forget(s, f) == DropInode([s EXCEPT !.forgot = @ \cup Uncounted(s, f)], f)

FreeEnt(s, e) == IF e = 0 THEN s ELSE sfs_block_free(s, e)
FreeAll(s, db) ==
  LET t[i \in Nat] == IF i = 0 THEN s ELSE sfs_bmap_free_sub(t[i - 1], db, i - 1)
  IN  IF db = 0 THEN s ELSE t[NEntry]

\* Reached with the last reference: an inode with no link gives back its
\* data blocks from the end, then itself, its indirect block, the blocks the
\* doubly-indirect one names, and that one; any other is saved if it is dirty.
sfs_reclaim(s, f) ==
  LET din == s.din[f]
      Inode(t) == FreeEnt(sfs_block_free(t, f), din.indirect)
      Doubly(t) == FreeEnt(FreeAll(t, din.db_indirect), din.db_indirect)
  IN  IF din.nlinks # 0 THEN Forget(sfs_fsync(s, {f}), f)
      ELSE DropInode(Doubly(Inode(TruncateBlocks(s, f, din.blocks))), f)

\* vop_ref_dec, where others hold f too; vop_open_dec and then that.
RefDec(s, f, others) == IF others = {} THEN sfs_reclaim(s, f) ELSE s
vfs_close(s, f, others) ==
  RefDec(IF others = {} THEN sfs_fsync(s, {f}) ELSE s, f, others)
OthersOf(x) == {y \in Fds \ {x} : fd[y].ino = fd[x].ino}

-----------------------------------------------------------------------------
Init ==
  /\ sfs = [free |-> Blocks, unused |-> NBlocks,
            ent |-> [b \in Blocks |-> NoEntries],
            disk |-> [b \in Blocks |-> NoInode],    \* the inodes on disk
            din |-> [b \in Blocks |-> NoInode],     \* the ones in memory
            dirty |-> {},
            forgot |-> {},      \* history: the blocks of Forget
            panic |-> ""]
  /\ name = [n \in Names |-> 0]
  /\ fd = [x \in Fds |-> Closed]

\* sfs_create of a new file: its inode takes a block.  The directory entry
\* is SfsDir's, and always finds room here.
Create(x, n) ==
  LET b == sfs_block_alloc(sfs)
  IN  /\ name[n] = 0 /\ fd[x] = Closed /\ b.ok
      /\ sfs' = MarkDirty([b.s EXCEPT !.din[b.ino] = [NewInode EXCEPT !.nlinks = 1]], b.ino)
      /\ name' = [name EXCEPT ![n] = b.ino]
      /\ fd' = [fd EXCEPT ![x] = [ino |-> b.ino, pos |-> 0]]

\* vfs_open of an existing file, with O_TRUNC or without.
Open(x, n, trunc) ==
  /\ name[n] # 0 /\ fd[x] = Closed
  /\ \E s \in {sfs_load_inode(sfs, name[n])} :
       sfs' = IF trunc THEN sfs_truncfile(s, name[n], 0).s ELSE s
  /\ fd' = [fd EXCEPT ![x] = [ino |-> name[n], pos |-> 0]]
  /\ UNCHANGED name

FileIO(x, len, write) ==
  /\ fd[x] # Closed
  /\ \E r \in {sfs_io(sfs, fd[x].ino, fd[x].pos, len, write)} :
       /\ sfs' = r.s
       /\ fd' = [fd EXCEPT ![x].pos = @ + r.alen]
  /\ UNCHANGED name

FileSeek(x, pos) ==
  /\ fd[x] # Closed
  /\ \E r \in {sfs_tryseek(sfs, fd[x].ino, pos)} :
       /\ sfs' = r.s
       /\ fd' = IF r.ok THEN [fd EXCEPT ![x].pos = pos] ELSE fd
  /\ UNCHANGED name

FileClose(x) ==
  /\ fd[x] # Closed
  /\ sfs' = vfs_close(sfs, fd[x].ino, OthersOf(x))
  /\ fd' = [fd EXCEPT ![x] = Closed]
  /\ UNCHANGED name

\* sfs_unlink of the only name; the lookup's reference is dropped at the end.
Unlink(n) ==
  LET f == name[n]
      s == MarkDirty([sfs_load_inode(sfs, f) EXCEPT !.din[f].nlinks = 0], f)
  IN  /\ f # 0
      /\ sfs' = RefDec(s, f, {y \in Fds : fd[y].ino = f})
      /\ name' = [name EXCEPT ![n] = 0]
      /\ UNCHANGED fd

\* sfs_fsync of one file, and sfs_sync of all; the free map and the super block
\* are read from the disk by a mount only.
Fsync(x) ==
  /\ fd[x] # Closed
  /\ sfs' = sfs_fsync(sfs, {fd[x].ino})
  /\ UNCHANGED <<name, fd>>

Sync == sfs' = sfs_fsync(sfs, Loaded(sfs)) /\ UNCHANGED <<name, fd>>

Next ==
  /\ sfs.panic = ""
  /\ \/ \E x \in Fds, n \in Names : Create(x, n)
     \/ \E x \in Fds, n \in Names, trunc \in BOOLEAN : Open(x, n, trunc)
     \/ \E x \in Fds, len \in 1 .. MaxIO, write \in BOOLEAN : FileIO(x, len, write)
     \/ \E x \in Fds, pos \in Seeks : FileSeek(x, pos)
     \/ \E x \in Fds : FileClose(x) \/ Fsync(x)
     \/ Sync
     \/ \E n \in Names : Unlink(n)

Spec == Init /\ [][Next]_vars

-----------------------------------------------------------------------------
(* Properties *)

\* The files, and the inode of each: the one in memory if there is one.
Files == Loaded(sfs) \cup ({name[n] : n \in Names} \ {0})
InodeOf(f) == IF f \in Loaded(sfs) THEN sfs.din[f] ELSE sfs.disk[f]

\* Every place of file f that may name a block, with the block it names.
PlacesOf(f) ==
  LET din == InodeOf(f)
      In(ent, tag, j) ==
        IF ent = 0 THEN {}
        ELSE {<<tag, j, i, sfs.ent[ent][i]>> : i \in 0 .. NEntry - 1}
      l2 == In(din.db_indirect, "level2", 0)
  IN  {<<"inode", 0, 0, f>>, <<"indirect", 0, 0, din.indirect>>,
       <<"db_indirect", 0, 0, din.db_indirect>>}
      \cup {<<"direct", 0, i, din.direct[i]>> : i \in 0 .. NDirect - 1}
      \cup In(din.indirect, "single", 0) \cup l2
      \cup UNION {In(p[4], "doubly", p[3]) : p \in l2}

\* What the block map gives for each index of f without creating anything.
Mapped(f, index) ==
  sfs_bmap_get([sfs EXCEPT !.din[f] = InodeOf(f)], f, index, FALSE).ino

\* No block has two owners: a block that a file names has exactly one place in
\* exactly one file and is not free, whatever failed on the way, across close,
\* write-back and reload of the inode, and unused_blocks counts the free ones
\* (sfs_block_alloc, sfs_block_free).  No block is lost either, but for those
\* that a last close forgot (Forget): an unlinked file gives all others back
\* (sfs_reclaim).  An inode is in memory exactly while it is open.
BlocksAccounted ==
  LET places == UNION {{<<f, p>> : p \in {q \in PlacesOf(f) : q[4] # 0}} : f \in Files}
      named == {p[2][4] : p \in places}
  IN  /\ named \cap sfs.free = {}
      /\ Cardinality(places) = Cardinality(named)
      /\ Blocks = named \cup sfs.free \cup sfs.forgot
      /\ sfs.unused = Cardinality(sfs.free)
      /\ sfs.panic = "" => Loaded(sfs) = {fd[x].ino : x \in Fds} \ {0}

\* The map of a file is as long as its block count: every index below
\* din->blocks is mapped to a block, also after an allocation failed half way
\* down the doubly-indirect levels, and an index from there on is mapped only to
\* a block that was forgotten when the inode was dropped
\* (sfs_bmap_load_nolock raises the count, sfs_bmap_truncate_nolock lowers it).
MapExact ==
  \A f \in Files : \A i \in 0 .. NDirect + NEntry + NEntry * NEntry - 1 :
    Mapped(f, i) \in (IF i < InodeOf(f).blocks THEN Blocks \ sfs.forgot
                                              ELSE {0} \cup sfs.forgot)

\* The dirty mark: an inode in memory that is not marked differs from its copy on
\* disk in the block count at most, and then it counts more, so that what a last
\* close or a sync leaves unsaved is a count and never a link, a size or the
\* place of a block (sfs_bmap_get_nolock, sfs_io_nolock, sfs_truncfile).
CleanSaved ==
  \A f \in Loaded(sfs) \ sfs.dirty :
    /\ sfs.disk[f] = [sfs.din[f] EXCEPT !.blocks = sfs.disk[f].blocks]
    /\ sfs.disk[f].blocks <= sfs.din[f].blocks

\* sfs_bmap_load_nolock, "assert(index <= din->blocks)": nobody reads or
\* writes past the block after the last.  It does not hold: opening a file
\* with O_TRUNC leaves the positions of its other descriptors where they were.
IndexInMap == sfs.panic # "index_in_map"

\* sfs_truncfile, "assert(tblks == din->blocks)": a file of a given size has
\* the blocks of that size.  It does not hold: a seek past the end that runs
\* out of blocks keeps the blocks it got, and O_TRUNC of the empty file fails.
BlocksOfSize == sfs.panic # "size_blocks"

\* A file is never longer than its blocks.  It does not hold: a write at a
\* position past the end that gets no block still raises the size (sfs_io_nolock).
SizeMapped ==
  sfs.panic = "" => \A f \in Files : InodeOf(f).size <= BlkSize * InodeOf(f).blocks

\* sfs.h, "true if inode modified": what a last close drops from memory is on
\* disk.  It does not hold: sfs_bmap_load_nolock counts a block and does not mark
\* the inode, and a growth that fails afterwards does not mark it either.
NothingForgotten == sfs.forgot = {}
=============================================================================
