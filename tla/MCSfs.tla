-------------------------------- MODULE MCSfs -------------------------------
(***************************************************************************)
(* SFS on small instances: the block layer (SfsMap) twice, with two        *)
(* descriptors on a small disk and with one descriptor on a disk where a   *)
(* file reaches its doubly-indirect blocks, and the name space (SfsDir).   *)
(* Each behaviour is one of one of the three; which says of which.         *)
(***************************************************************************)
EXTENDS SfsMap, TLC

CONSTANTS Inos, Root, EntryNames, Procs, DirFds, DirBlocks   \* of SfsDir

VARIABLES which, inode, pwd, open, hung

Deep == INSTANCE SfsMap WITH
    NBlocks <- 10, NDirect <- 1, NEntry <- 2, BlkSize <- 2, MaxFileSize <- 13,
    MaxIO <- 3, Seeks <- {0, 7, 11, 13}, Fds <- {"f"}
Dir == INSTANCE SfsDir WITH
    Names <- EntryNames, Fds <- DirFds, NBlocks <- DirBlocks

dirVars == <<inode, pwd, open, hung>>
Unused(x) == x = "unused"

SfsInit ==
    \/ /\ which \in {"shared", "deep"}
       /\ IF which = "shared" THEN Init ELSE Deep!Init
       /\ Unused(inode) /\ Unused(pwd) /\ Unused(open) /\ Unused(hung)
    \/ /\ which = "dir" /\ Dir!Init
       /\ Unused(sfs) /\ Unused(name) /\ Unused(fd)

SfsNext ==
    \/ which = "shared" /\ Next /\ UNCHANGED <<which, dirVars>>
    \/ which = "deep" /\ Deep!Next /\ UNCHANGED <<which, dirVars>>
    \/ which = "dir" /\ Dir!Next /\ UNCHANGED <<which, vars>>

SfsSpec == SfsInit /\ [][SfsNext]_<<which, vars, dirVars>>

\* No definition tells descriptors, inode numbers or entry names apart.
Symmetry == Permutations(Fds) \cup Permutations(Inos) \cup Permutations(EntryNames)

\* SfsMap!BlocksAccounted: every block in use has exactly one owner, and an
\* operation that fails, or the last close of an unlinked file, loses none but
\* those whose count was dropped with an inode that was not marked dirty.
DiskAccounted ==
    /\ which = "shared" => BlocksAccounted
    /\ which = "deep" => Deep!BlocksAccounted

\* SfsMap!MapExact: the indices below a file's block count are mapped, and no
\* others are but to blocks whose count was dropped.  SfsMap!CleanSaved: of an
\* inode that is not marked dirty all but such a count is on disk.
FileMapExact ==
    /\ which = "shared" => MapExact /\ CleanSaved
    /\ which = "deep" => Deep!MapExact /\ Deep!CleanSaved

\* SfsDir!LinksExact: link and slot counts are exact after every operation.
LinkCountsExact == which = "dir" => Dir!LinksExact

\* SfsDir!NamesSound: no entry names an inode that was given back, nothing
\* linked or held is given back, and '..' is where the entry is.
NameSpaceSound == which = "dir" => Dir!NamesSound
=============================================================================
