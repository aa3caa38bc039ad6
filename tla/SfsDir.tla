------------------------------- MODULE SfsDir -------------------------------
(***************************************************************************)
(* The name space of SFS: directories and their slots, link counts, the    *)
(* '.' and '..' links, create, mkdir, link, unlink and rename, and the     *)
(* release of an inode when both its last link and its last holder (an     *)
(* open file or a current directory) are gone.                             *)
(*                                                                         *)
(* As in SfsMap every operation is one step.  An inode takes one disk      *)
(* block, and so does every slot a directory ever used: the disk may be    *)
(* full when an inode or a new slot is needed, in the middle of a rename   *)
(* too.  The data blocks of files are SfsMap's.                            *)
(***************************************************************************)
EXTENDS Integers, FiniteSets, FiniteSetsExt, Sequences

CONSTANTS
  Inos,      \* inode numbers other than the root's, a finite set
  Root,      \* SFS_BLKN_ROOT
  Names,     \* names of directory entries
  Procs,     \* processes, each with a current directory
  Fds,       \* open file slots
  NBlocks    \* disk blocks for inodes and directory slots

VARIABLES
  inode,   \* ino -> disk inode with its directory slots, or Free
  pwd,     \* process -> ino of its current directory
  open,    \* slot -> ino of the open file or directory, None when closed
  hung     \* an operation waits for a lock it holds

vars == <<inode, pwd, open, hung>>

All == Inos \cup {Root}
Free == [type |-> "free"]
Empty == [ino |-> "none", name |-> "none"]
None == "none"

NewInode(type) == [type |-> type, nlinks |-> 0, parent |-> None, slots |-> 0,
                   removed |-> FALSE, ent |-> <<>>]

Live(I) == {i \in All : I[i] # Free}
Dirs(I) == {i \in Live(I) : I[i].type = "dir"}

\* Blocks left by the inodes and the slots in use.
Space(I) == NBlocks - MapThenSumSet(LAMBDA i : 1 + Len(I[i].ent), Live(I))

-----------------------------------------------------------------------------
(* Directory slots *)

\* sfs_dirent_search_nolock: the slot of a name, and a slot to use for a new
\* one: the last empty one, or else the one after the last.
SlotsOf(I, d, n) == {s \in 1 .. Len(I[d].ent) : I[d].ent[s].name = n}
EmptySlot(I, d) ==
  LET e == SlotsOf(I, d, "none")
  IN  IF e # {} THEN Max(e) ELSE Len(I[d].ent) + 1

Has(I, d, n) == SlotsOf(I, d, n) # {}
SlotOf(I, d, n) == Min(SlotsOf(I, d, n))
Target(I, d, n) == I[d].ent[SlotOf(I, d, n)].ino

\* sfs_dirent_write_nolock: a slot past the last needs a block.
CanWrite(I, d, s) == s <= Len(I[d].ent) \/ Space(I) > 0
sfs_dirent_write(I, d, s, e) ==
  [I EXCEPT ![d].ent = IF s <= Len(@) THEN [@ EXCEPT ![s] = e] ELSE Append(@, e)]

nlinks_inc(I, i) == [I EXCEPT ![i].nlinks = @ + 1]
nlinks_dec(I, i) == [I EXCEPT ![i].nlinks = @ - 1]

sfs_dirent_link(I, d, s, i, n) ==
  nlinks_inc([sfs_dirent_write(I, d, s, [ino |-> i, name |-> n])
                EXCEPT ![d].slots = @ + 1], i)

sfs_dirent_unlink(I, d, s, i) ==
  nlinks_dec([sfs_dirent_write(I, d, s, Empty) EXCEPT ![d].slots = @ - 1], i)

\* vop_ref_dec of an inode, then sfs_reclaim when nobody holds it: an inode
\* without links goes back to the disk, a directory with all its slots.
HeldBy(w, o) == {w[p] : p \in Procs} \cup {o[x] : x \in Fds}
Held == HeldBy(pwd, open)
Put(I, i, held) ==
  IF i \notin held /\ I[i] # Free /\ I[i].nlinks = 0 THEN [I EXCEPT ![i] = Free] ELSE I

-----------------------------------------------------------------------------
(* Path lookup: from the root or a current directory through entries and   *)
(* '..'.  A removed directory has no entries (trylock_sin), but still its  *)
(* '..'; loading an inode that is free trips an assertion.                 *)

From(i) ==
  IF i \notin Dirs(inode) THEN {}
  ELSE ({inode[i].parent} \cup
        IF inode[i].removed THEN {}
        ELSE {inode[i].ent[s].ino : s \in 1 .. Len(inode[i].ent)}) \ {None}

Found(p) ==
  LET reach[k \in Nat] ==
        IF k = 0 THEN {Root, pwd[p]}
        ELSE LET r == reach[k - 1] IN r \cup UNION {From(i) : i \in r}
  IN  reach[Cardinality(All)] \cap Live(inode)

\* The directories p can name that are not removed, as trylock_sin demands.
Usable(p) == {d \in Found(p) \cap Dirs(inode) : ~inode[d].removed}

-----------------------------------------------------------------------------
(* The operations on a directory d *)

\* sfs_dirent_create_inode and sfs_dirent_link_nolock: the new inode i is
\* linked, or given back when the directory gets no block for its slot.
Made(type, d, n, i) ==
  LET made == [inode EXCEPT ![i] = NewInode(type)]
      s == EmptySlot(made, d)
  IN  IF CanWrite(made, d, s) THEN sfs_dirent_link(made, d, s, i, n) ELSE inode

sfs_mkdir(d, n, i) ==
  LET I == Made("dir", d, n, i)
  IN  IF I[i] = Free THEN I
      ELSE nlinks_inc(nlinks_inc([I EXCEPT ![i].parent = d], i), d)

sfs_unlink_KeepUsable(d, n) ==
  LET i == Target(inode, d, n)
      I == sfs_dirent_unlink(inode, d, SlotOf(inode, d, n), i)
  IN  IF inode[i].type # "dir" THEN I
      ELSE IF inode[i].slots # 0 THEN inode
      ELSE nlinks_dec(nlinks_dec(I, i), d)

sfs_unlink(d, n) ==
  LET i == Target(inode, d, n)
      I == sfs_dirent_unlink(inode, d, SlotOf(inode, d, n), i)
  IN  IF inode[i].type # "dir" THEN I
      ELSE IF inode[i].slots # 0 THEN inode
      ELSE nlinks_dec(nlinks_dec([I EXCEPT ![i].removed = TRUE], i), d)

sfs_rename1(d, n, n2) ==
  LET s == SlotOf(inode, d, n)
  IN  IF Has(inode, d, n2) THEN inode
      ELSE sfs_dirent_write(inode, d, s, [inode[d].ent[s] EXCEPT !.name = n2])

sfs_rename2_NoRecover(d, n, d2, n2) ==
  LET i == Target(inode, d, n)
      isdir == inode[i].type = "dir"
      s1 == SlotOf(inode, d, n)
      s2 == EmptySlot(inode, d2)
      U == sfs_dirent_unlink(inode, d, s1, i)
      V == IF isdir THEN nlinks_dec(U, d) ELSE U
      L == sfs_dirent_link(V, d2, s2, i, n2)
  IN  IF Has(inode, d2, n2) THEN inode
      ELSE IF ~CanWrite(V, d2, s2) THEN sfs_dirent_link(V, d, s1, i, n)
      ELSE IF isdir THEN [nlinks_inc(L, d2) EXCEPT ![i].parent = d2]
      ELSE L

\* To another directory: unlinked from the old one first, and linked there
\* again when the new one gets no block.
sfs_rename2(d, n, d2, n2) ==
  LET i == Target(inode, d, n)
      isdir == inode[i].type = "dir"
      s1 == SlotOf(inode, d, n)
      s2 == EmptySlot(inode, d2)
      U == sfs_dirent_unlink(inode, d, s1, i)
      V == IF isdir THEN nlinks_dec(U, d) ELSE U
      R == sfs_dirent_link(V, d, s1, i, n)
      L == sfs_dirent_link(V, d2, s2, i, n2)
  IN  IF Has(inode, d2, n2) THEN inode
      ELSE IF ~CanWrite(V, d2, s2) THEN IF isdir THEN nlinks_inc(R, d) ELSE R
      ELSE IF isdir THEN [nlinks_inc(L, d2) EXCEPT ![i].parent = d2]
      ELSE L

-----------------------------------------------------------------------------
(* The system calls *)

\* The root as mksfs makes it: '.' and '..' are its own.
Init ==
  /\ inode = [i \in All |-> IF i = Root
                THEN [NewInode("dir") EXCEPT !.nlinks = 2, !.parent = Root]
                ELSE Free]
  /\ pwd = [p \in Procs |-> Root]
  /\ open = [x \in Fds |-> None]
  /\ hung = FALSE

\* open with O_CREAT: an existing file is opened, a new one made.
Create(x, d, n) ==
  /\ open[x] = None
  /\ \/ /\ Has(inode, d, n) /\ inode[Target(inode, d, n)].type = "file"
        /\ open' = [open EXCEPT ![x] = Target(inode, d, n)]
        /\ UNCHANGED inode
     \/ /\ ~Has(inode, d, n) /\ Space(inode) > 0
        /\ \E i \in All \ Live(inode) :
             /\ inode' = Made("file", d, n, i)
             /\ open' = IF inode'[i] = Free THEN open ELSE [open EXCEPT ![x] = i]
  /\ UNCHANGED <<pwd, hung>>

\* open without O_CREAT, of a file or a directory.
Open(x, i) ==
  /\ open[x] = None
  /\ open' = [open EXCEPT ![x] = i]
  /\ UNCHANGED <<inode, pwd, hung>>

Close(x) ==
  /\ open[x] # None
  /\ open' = [open EXCEPT ![x] = None]
  /\ inode' = Put(inode, open[x], HeldBy(pwd, open'))
  /\ UNCHANGED <<pwd, hung>>

Chdir(p, d) ==
  /\ d \in Dirs(inode) /\ d # pwd[p]
  /\ pwd' = [pwd EXCEPT ![p] = d]
  /\ inode' = Put(inode, pwd[p], HeldBy(pwd', open))
  /\ UNCHANGED <<open, hung>>

Mkdir(d, n) ==
  /\ ~Has(inode, d, n) /\ Space(inode) > 0
  /\ \E i \in All \ Live(inode) : inode' = sfs_mkdir(d, n, i)
  /\ UNCHANGED <<pwd, open, hung>>

Link(i, d, n) ==
  /\ i \notin Dirs(inode) /\ ~Has(inode, d, n)
  /\ CanWrite(inode, d, EmptySlot(inode, d))
  /\ inode' = sfs_dirent_link(inode, d, EmptySlot(inode, d), i, n)
  /\ UNCHANGED <<pwd, open, hung>>

\* The lock of the directory to remove is taken while that of d is held.
Unlink(d, n) ==
  /\ Has(inode, d, n)
  /\ IF Target(inode, d, n) = d
     THEN hung' = TRUE /\ UNCHANGED inode
     ELSE /\ inode' = Put(sfs_unlink(d, n), Target(inode, d, n), Held)
          /\ UNCHANGED hung
  /\ UNCHANGED <<pwd, open>>

Rename(d, n, d2, n2) ==
  /\ Has(inode, d, n)
  /\ inode' = IF d = d2 THEN sfs_rename1(d, n, n2)
              ELSE Put(sfs_rename2(d, n, d2, n2), Target(inode, d, n), Held)
  /\ UNCHANGED <<pwd, open, hung>>

Next ==
  /\ ~hung
  /\ \/ \E x \in Fds : Close(x)
     \/ \E p \in Procs : \E i \in Found(p) : Chdir(p, i) \/ \E x \in Fds : Open(x, i)
     \/ \E p \in Procs : \E d \in Usable(p), n \in Names :
          \/ \E x \in Fds : Create(x, d, n)
          \/ Mkdir(d, n)
          \/ \E i \in Found(p) : Link(i, d, n)
          \/ Unlink(d, n)
          \/ \E d2 \in Usable(p), n2 \in Names : Rename(d, n, d2, n2)

Spec == Init /\ [][Next]_vars

-----------------------------------------------------------------------------
(* Properties *)

\* The entries that name inode i, and the directories whose '..' is i.
Entries(i) == {e \in Dirs(inode) \X (1 .. Cardinality(Names)) :
                 e[2] <= Len(inode[e[1]].ent) /\ inode[e[1]].ent[e[2]].ino = i}
Children(i) == {d \in Dirs(inode) : ~inode[d].removed /\ inode[d].parent = i}

\* Link counts are exact after any sequence of operations, the ones that ran
\* out of blocks half way included: a file has one link for each entry that
\* names it; a directory also one for its '.' and one for the '..' of each
\* subdirectory; a removed directory has none and nothing in it; the slot
\* count is that of the used slots (sfs_dirent_link_nolock,
\* sfs_dirent_unlink_nolock, sfs_rename2_nolock).
LinksExact ==
  \A i \in Live(inode) :
    LET dots == IF inode[i].type = "dir" /\ ~inode[i].removed
                THEN 1 + Cardinality(Children(i)) ELSE 0
    IN  /\ inode[i].nlinks = Cardinality(Entries(i)) + dots
        /\ inode[i].slots = Len(inode[i].ent) - Cardinality(SlotsOf(inode, i, "none"))
        /\ inode[i].removed => inode[i].nlinks = 0 /\ inode[i].slots = 0

\* An entry never names an inode that was given back, an inode that is linked
\* or held is never given back, and one that is neither always is
\* (sfs_reclaim); no directory has a name twice; the '..' of a linked
\* directory is the directory with its only entry, also after renames.
NamesSound ==
  /\ \A d \in Dirs(inode) : \A s, t \in 1 .. Len(inode[d].ent) :
       inode[d].ent[s] # Empty =>
         /\ inode[d].ent[s].ino \in Live(inode)
         /\ inode[d].ent[s].name = inode[d].ent[t].name => s = t
  /\ Held \subseteq Live(inode) \cup {None}
  /\ \A i \in Live(inode) \ Held : i = Root \/ Entries(i) # {}
  /\ \A d \in Dirs(inode) \ {Root} : ~inode[d].removed =>
       {e[1] : e \in Entries(d)} = {inode[d].parent} /\ Cardinality(Entries(d)) = 1

\* Every linked inode can be reached from the root.  It does not hold: rename
\* moves a directory into one of its own subdirectories (sfs_rename2_nolock
\* does not look at where the new parent is).
Tree ==
  LET up[k \in Nat] == IF k = 0 THEN {Root}
                       ELSE LET u == up[k - 1]
                            IN  u \cup {d \in Dirs(inode) : inode[d].parent \in u}
  IN  \A d \in Dirs(inode) : inode[d].removed \/ d \in up[Cardinality(All)]

\* sfs_load_inode, "assert(sfs_block_inuse(sfs, ino))", for '..': the parent of
\* a directory somebody stands in exists.  It does not hold: a removed current
\* directory does not hold its parent, which may be removed after it.
ParentLive ==
  \A p \in Procs : inode[inode[pwd[p]].parent] # Free
=============================================================================
