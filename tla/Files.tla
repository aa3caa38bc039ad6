------------------------------- MODULE Files --------------------------------
(***************************************************************************)
(* The open-file tables (fs/file.c, fs/fs.c), the read and write loops of  *)
(* fs/sysfile.c and the pipe behind them (Pipe), on one processor, with    *)
(* fork, exit, threads that share a table (CLONE_FS) and do_kill.  The     *)
(* code between two calls of schedule() is one action, and any process     *)
(* that is not asleep may run next: read and write give the processor up   *)
(* in the pipe's wait queues and, between two rounds of their loops, in    *)
(* lock_mm; user code gives it up at any time.                             *)
(*                                                                         *)
(* readable and writable are what the end of the pipe in f.node says.      *)
(***************************************************************************)
EXTENDS Naturals, SequencesExt, FiniteSets

CONSTANTS
    Procs,      \* the processes
    Tables,     \* the fs_structs
    NEntry,     \* FS_STRUCT_NENTRY
    BufSize,    \* PIPE_BUFSIZE
    Lens,       \* the lengths of reads and writes
    MaxStream   \* bound: the bytes written to one pipe

ASSUME BufSizeAssumption == BufSize \in Nat \ {0}

VARIABLES
    asleep,     \* the processes with state PROC_SLEEPING, wait_state WT_PIPE
    wakeup_flags,   \* see WaitQueue
    kern,       \* the pipe (see Pipe), and kern.file[t][fd], the entries
    fs_count,   \* fs_struct->fs_count
    fs_struct,  \* the table of each process
    pc,         \* where each process is
    call,       \* the descriptor and the bytes left of its read or write
    killed      \* PF_EXITING

INSTANCE Pipe

callVars == <<fs_count, fs_struct, killed>>
vars == <<asleep, wakeup_flags, kern, callVars, pc, call>>

Fds == 0..NEntry - 1
NoFile == [status |-> "FD_NONE", count |-> 0, node |-> "none"]
NoCall == [fd |-> 0, left |-> 0, moved |-> 0]
Waits == {"read_wait", "write_wait"}    \* inside schedule()

\* One process with an empty table; the other slots are free.
FInit ==
    \E p \in Procs, t \in Tables :
        /\ asleep = {}
        /\ wakeup_flags = [q \in Procs |-> "WT_INTERRUPTED"]
        /\ kern = [file |-> [u \in Tables |-> [fd \in Fds |-> NoFile]]] @@ NoPipe
        /\ fs_count = [u \in Tables |-> IF u = t THEN 1 ELSE 0]
        /\ fs_struct = [q \in Procs |-> IF q = p THEN t ELSE "none"]
        /\ pc = [q \in Procs |-> IF q = p THEN "user" ELSE "free"]
        /\ call = [q \in Procs |-> NoCall]
        /\ killed = {}

----------------------------------------------------------------------------
(* file.c, on the objects o                                                *)

File(o, t, fd) == o.file[t][fd]
SetFile(o, t, fd, f) == [o EXCEPT !.file[t][fd] = f]

filemap_free(o, t, fd) ==
    LET f == File(o, t, fd)
        c == IF f.status = "FD_CLOSED" THEN vfs_close(o, f.node) ELSE o
    IN  SetFile(c, t, fd, NoFile)

fopen_count_dec(o, t, fd) ==
    LET f == File(o, t, fd)
        d == SetFile(o, t, fd, [f EXCEPT !.count = @ - 1])
    IN  IF f.count = 1 THEN filemap_free(d, t, fd) ELSE d

filemap_acquire_None(o, t, fd) == o
filemap_acquire(o, t, fd) == [o EXCEPT !.file[t][fd].count = @ + 1]

filemap_release(o, t, fd) ==
    LET f == File(o, t, fd)
    IN  IF f.status \in {"FD_OPENED", "FD_CLOSED"} /\ f.count > 0
        THEN fopen_count_dec(o, t, fd)
        ELSE Asserted(o, FALSE, "filemap_release")

filemap_close(o, t, fd) ==
    IF File(o, t, fd).count > 0
    THEN fopen_count_dec([o EXCEPT !.file[t][fd].status = "FD_CLOSED"], t, fd)
    ELSE Asserted(o, FALSE, "filemap_close")

filemap_dup_NoRef(o, t, fd, f) ==
    SetFile(o, t, fd, [status |-> "FD_OPENED", count |-> 1, node |-> f.node])

\* filemap_dup into an entry that is FD_INIT, from the entry f
filemap_dup(o, t, fd, f) ==
    SetFile(inode_inc(o, f.node), t, fd,
            [status |-> "FD_OPENED", count |-> 1, node |-> f.node])

\* what dup_fs does with an entry that was closed while it is in use
filemap_dup_close(o, t, fd, f) ==
    SetFile(inode_inc(o, f.node), t, fd,
            [status |-> "FD_CLOSED", count |-> 0, node |-> f.node])

\* filemap_alloc(NO_FD)
FreeFds(o, t) == {fd \in Fds : File(o, t, fd).status = "FD_NONE"}
Lowest(S) == CHOOSE fd \in S : \A e \in S : fd <= e

\* dup_fs and fs_destroy from entry fd on
RECURSIVE dup_fs(_, _, _, _)
dup_fs(o, to, from, fd) ==
    IF fd = NEntry THEN o
    ELSE LET f == File(o, from, fd)
             d == CASE f.status = "FD_OPENED" -> filemap_dup(o, to, fd, f)
                    [] f.status = "FD_CLOSED" -> filemap_dup_close(o, to, fd, f)
                    [] OTHER -> o
         IN  dup_fs(d, to, from, fd + 1)

RECURSIVE fs_destroy(_, _, _)
fs_destroy(o, t, fd) ==
    IF fd = NEntry \/ o.panic # "none" THEN o
    ELSE LET c == IF File(o, t, fd).status = "FD_OPENED"
                  THEN filemap_close(o, t, fd) ELSE o
         IN  fs_destroy(Asserted(c, File(c, t, fd).status = "FD_NONE", "fs_destroy"),
                        t, fd + 1)

----------------------------------------------------------------------------
(* Steps                                                                   *)

Active(p) == p \notin asleep /\ kern.panic = "none"
At(p, l) == Active(p) /\ pc[p] = l
Table(p) == fs_struct[p]
CallFile(p) == File(kern, Table(p), call[p].fd)

\* The objects become o and the processes o.woken are woken; p goes on at l,
\* asleep or not (pipe_state_wait up to its schedule()), with a new wait_t.
Become(p, o, l, c, sleeps) ==
    /\ kern' = [o EXCEPT !.woken = {}]
    /\ asleep' = (asleep \ o.woken) \cup (IF sleeps THEN {p} ELSE {})
    /\ wakeup_flags' = [q \in Procs |-> IF q = p THEN "WT_INTERRUPTED"
                                        ELSE IF q \in o.woken THEN "WT_PIPE"
                                        ELSE wakeup_flags[q]]
    /\ pc' = [pc EXCEPT ![p] = l]
    /\ call' = [call EXCEPT ![p] = c]

Continue(p, o, l, c) == Become(p, o, l, c, FALSE)
Sleep(p, o, l, c) == Become(p, o, l, c, TRUE)

\* The end of file_read and file_write after a call c that moved c.moved bytes:
\* filemap_release, and another round of sysfile's loop ("read" or "write")
\* if bytes are left and this round moved some.
FileDone(p, o, l, c) ==
    LET more == c.left > 0 /\ c.moved > 0
    IN  Continue(p, filemap_release(o, Table(p), c.fd), IF more THEN l ELSE "user",
                 IF more THEN [c EXCEPT !.moved = 0] ELSE NoCall)

\* pipe_state_read and pipe_state_write from try_again on
ReadTry(p, o, c) ==
    IF ReadBlocks(o)
    THEN Sleep(p, [o EXCEPT !.readers = Append(@, p)], "read_wait", c)
    ELSE LET r == ReadPass(o, c.left)
         IN  FileDone(p, r.k, "read", [c EXCEPT !.left = @ - r.got, !.moved = r.got])

WriteTry(p, o, c) ==
    LET w == WritePass(o, c.left)
        d == [c EXCEPT !.left = @ - w.got, !.moved = @ + w.got]
    IN  IF WriteBlocks(o, c.left)
        THEN Sleep(p, [w.k EXCEPT !.writers = Append(@, p)], "write_wait", d)
        ELSE FileDone(p, w.k, "write", d)

\* file_read and file_write: the descriptor is looked up in every round
Opened(p, c, end) ==
    LET f == File(kern, Table(p), c.fd) IN f.status = "FD_OPENED" /\ f.node = end

FileRead(p, c) ==
    IF Opened(p, c, "r")
    THEN ReadTry(p, filemap_acquire(kern, Table(p), c.fd), c)
    ELSE Continue(p, kern, "user", NoCall)

FileWrite(p, c) ==
    IF Opened(p, c, "w")
    THEN WriteTry(p, filemap_acquire(kern, Table(p), c.fd), c)
    ELSE Continue(p, kern, "user", NoCall)

----------------------------------------------------------------------------
(* System calls.  One that only returns an error changes nothing.          *)

\* sysfile_pipe -> file_pipe; one pipe at a time
FilePipe(p) ==
    LET t == Table(p)
        r == Lowest(FreeFds(kern, t))
        w == Lowest(FreeFds(kern, t) \ {r})
        New(n) == [status |-> "FD_OPENED", count |-> 1, node |-> n]
    IN  /\ At(p, "user")
        /\ kern.state_refs = 0
        /\ Cardinality(FreeFds(kern, t)) >= 2
        /\ Continue(p, SetFile(SetFile(pipe_open(kern), t, r, New("r")), t, w, New("w")),
                    "user", NoCall)
        /\ UNCHANGED callVars

FileClose(p, fd) ==
    /\ At(p, "user")
    /\ File(kern, Table(p), fd).status = "FD_OPENED"
    /\ Continue(p, filemap_close(kern, Table(p), fd), "user", NoCall)
    /\ UNCHANGED callVars

FileDup(p, fd1, fd2) ==
    /\ At(p, "user")
    /\ File(kern, Table(p), fd1).status = "FD_OPENED"
    /\ fd2 \in FreeFds(kern, Table(p))
    /\ Continue(p, filemap_dup(kern, Table(p), fd2, File(kern, Table(p), fd1)),
                "user", NoCall)
    /\ UNCHANGED callVars

\* sysfile_read: nothing between file_testfd and file_read blocks
SysRead(p, fd, n) ==
    LET c == [fd |-> fd, left |-> n, moved |-> 0]
    IN  /\ At(p, "user") /\ Opened(p, c, "r")
        /\ FileRead(p, c)
        /\ UNCHANGED callVars

ReadAgain(p) == At(p, "read") /\ FileRead(p, call[p]) /\ UNCHANGED callVars

\* sysfile_write: lock_mm comes before file_write
SysWrite(p, fd, n) ==
    LET c == [fd |-> fd, left |-> n, moved |-> 0]
    IN  /\ At(p, "user") /\ Opened(p, c, "w")
        /\ kern.wpos + n <= MaxStream
        /\ Continue(p, kern, "write", c)
        /\ UNCHANGED callVars

WriteAgain(p) ==
    /\ At(p, "write")
    /\ kern.wpos + call[p].left <= MaxStream
    /\ FileWrite(p, call[p])
    /\ UNCHANGED callVars

\* pipe_state_wait after schedule(): wait_current_del, then try_again or out
ReadWoken(p) ==
    LET o == [kern EXCEPT !.readers = Remove(@, p)]
    IN  /\ At(p, "read_wait")
        /\ IF wakeup_flags[p] = "WT_PIPE" THEN ReadTry(p, o, call[p])
                                          ELSE FileDone(p, o, "read", call[p])
        /\ UNCHANGED callVars

WriteWoken(p) ==
    LET o == [kern EXCEPT !.writers = Remove(@, p)]
    IN  /\ At(p, "write_wait")
        /\ IF wakeup_flags[p] = "WT_PIPE" THEN WriteTry(p, o, call[p])
                                          ELSE FileDone(p, o, "write", call[p])
        /\ UNCHANGED callVars

\* do_fork: copy_fs with CLONE_FS, and without
ForkThread(p, q) ==
    /\ At(p, "user") /\ pc[q] = "free"
    /\ fs_struct' = [fs_struct EXCEPT ![q] = Table(p)]
    /\ fs_count' = [fs_count EXCEPT ![Table(p)] = @ + 1]
    /\ pc' = [pc EXCEPT ![q] = "user"]
    /\ UNCHANGED <<asleep, wakeup_flags, kern, call, killed>>

ForkProcess(p, q, t) ==
    /\ At(p, "user") /\ pc[q] = "free" /\ fs_count[t] = 0
    /\ kern' = dup_fs(kern, t, Table(p), 0)
    /\ fs_struct' = [fs_struct EXCEPT ![q] = t]
    /\ fs_count' = [fs_count EXCEPT ![t] = 1]
    /\ pc' = [pc EXCEPT ![q] = "user"]
    /\ UNCHANGED <<asleep, wakeup_flags, call, killed>>

\* __do_exit -> put_fs, and schedule(); the slot is free for another fork
Exit(p) ==
    LET o == IF fs_count[Table(p)] = 1 THEN fs_destroy(kern, Table(p), 0) ELSE kern
    IN  /\ At(p, "user")
        /\ Continue(p, o, "free", NoCall)
        /\ fs_count' = [fs_count EXCEPT ![Table(p)] = @ - 1]
        /\ fs_struct' = [fs_struct EXCEPT ![p] = "none"]
        /\ killed' = killed \ {p}

\* __do_kill by a running process; bound: one killed process at a time
Kill(q) ==
    /\ kern.panic = "none"
    /\ asleep # {p \in Procs : pc[p] # "free"}
    /\ pc[q] # "free" /\ killed = {}
    /\ killed' = killed \cup {q}
    /\ asleep' = asleep \ {q}
    /\ UNCHANGED <<wakeup_flags, kern, fs_count, fs_struct, pc, call>>

FNext ==
    \E p \in Procs :
        \/ FilePipe(p) \/ Exit(p) \/ Kill(p)
        \/ ReadAgain(p) \/ WriteAgain(p) \/ ReadWoken(p) \/ WriteWoken(p)
        \/ \E fd \in Fds : FileClose(p, fd) \/ \E e \in Fds : FileDup(p, fd, e)
        \/ \E fd \in Fds, n \in Lens : SysRead(p, fd, n) \/ SysWrite(p, fd, n)
        \/ \E q \in Procs : ForkThread(p, q) \/ \E t \in Tables : ForkProcess(p, q, t)

FSpec == FInit /\ [][FNext]_vars

----------------------------------------------------------------------------
(* Properties                                                              *)

Live == {t \in Tables : fs_count[t] > 0}
Entries == Live \X Fds
EntryOf(e) == File(kern, e[1], e[2])
\* the processes inside file_read or file_write on entry e
Users(e) == {p \in Procs : pc[p] \in Waits /\ <<Table(p), call[p].fd>> = e}
Of(n) == {e \in Entries : EntryOf(e).node = n}

\* Reference counts are exact at every level: a table counts its processes, an
\* entry its descriptor and the calls in progress on it, an inode the entries
\* that name it (both counts), the pipe its inodes; and the pipe is closed
\* exactly when one of its ends has no entry left.
CountsExact ==
    /\ \A t \in Tables :
         fs_count[t] = Cardinality({p \in Procs : pc[p] # "free" /\ Table(p) = t})
    /\ kern.panic = "none" =>
         /\ \A e \in Entries :
              EntryOf(e).count = Cardinality(Users(e))
                                 + (IF EntryOf(e).status = "FD_OPENED" THEN 1 ELSE 0)
         /\ \A n \in Ends : kern.ref[n] = Cardinality(Of(n)) /\ kern.opens[n] = kern.ref[n]
         /\ kern.state_refs = Cardinality({n \in Ends : kern.ref[n] > 0})
         /\ kern.isclosed <=> kern.state_refs = 1

\* No unread byte is overwritten: what a reader will get is the stream as it
\* was written, and there is never more of it than the buffer holds.
StreamIntact ==
    /\ kern.wpos - kern.rpos \in 0..BufSize
    /\ \A i \in kern.rpos..kern.wpos - 1 : kern.buf[i % BufSize] = i

\* A process sleeps in the pipe only for a reason: the buffer is empty (full)
\* and both ends are open, and it is in the queue that the other side wakes.
SleeperReachable ==
    \A p \in Procs : p \in asleep =>
        /\ ~kern.isclosed
        /\ pc[p] = "read_wait"  => is_empty(kern) /\ Contains(kern.readers, p)
        /\ pc[p] = "write_wait" => is_full(kern)  /\ Contains(kern.writers, p)

\* The assertions of file.c, inode.c and pipe_state.c hold; among them that
\* nobody waits on a pipe that is freed.
LayersSound == kern.panic \in {"none", "fs_destroy"}

\* fs.c:65 assert(file->status == FD_NONE): closing the open descriptors of a
\* table nobody uses leaves it empty.  (Broken by dup_fs of an entry that was
\* closed while a read is in progress: README, section 3.)
FsDestroyClean == kern.panic # "fs_destroy"

\* do_kill wakes its victim, so a killed process does not sleep in the pipe.
\* (Broken by a writer that had stored some bytes: sysfile_write goes on with
\* the rest, and sleeps again where no second do_kill wakes it.)
KilledAwake == killed \cap asleep = {}
=============================================================================
