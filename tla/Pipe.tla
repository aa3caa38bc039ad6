-------------------------------- MODULE Pipe ---------------------------------
(***************************************************************************)
(* The buffer of fs/pipe/pipe_state.c and the two inodes that share it     *)
(* (pipe_inode.c, vfs/inode.c).  Every C function is an operator from the  *)
(* kernel objects k before the call to those after it; a module that calls *)
(* them (Files) adds the fields of its own objects.  k.woken collects the  *)
(* processes the call wakes, k.panic names an assertion that failed.       *)
(*                                                                         *)
(* A byte is the position in the stream it was written at.                 *)
(***************************************************************************)
EXTENDS Naturals, Sequences, SequencesExt

CONSTANT BufSize    \* PIPE_BUFSIZE

Ends == {"r", "w"}  \* the inodes of a pipe: PIN_RDONLY and PIN_WRONLY

\* The pipe's part of the kernel objects when there is no pipe
NoPipe ==
    [rpos |-> 0, wpos |-> 0, buf |-> [i \in 0..BufSize - 1 |-> 0],
     isclosed |-> FALSE, state_refs |-> 0,
     readers |-> <<>>, writers |-> <<>>,
     ref |-> [n \in Ends |-> 0], opens |-> [n \in Ends |-> 0],
     woken |-> {}, panic |-> "none"]

Asserted(k, ok, name) == IF ok THEN k ELSE [k EXCEPT !.panic = name]

is_empty(k) == k.rpos = k.wpos
is_full_OffByOne(k) == k.wpos - k.rpos > BufSize
is_full(k) == k.wpos - k.rpos >= BufSize

\* pipe_state_wakeup -> wakeup_queue: everybody, and off the queue
wakeup_reader(k) == [k EXCEPT !.woken = @ \cup ToSet(k.readers), !.readers = <<>>]
wakeup_writer(k) == [k EXCEPT !.woken = @ \cup ToSet(k.writers), !.writers = <<>>]

pipe_state_close_ReadersOnly(k) == wakeup_reader([k EXCEPT !.isclosed = TRUE])
pipe_state_close(k) == wakeup_writer(wakeup_reader([k EXCEPT !.isclosed = TRUE]))

\* the last reference frees the state
pipe_state_release(k) ==
    IF k.state_refs > 1 THEN [k EXCEPT !.state_refs = @ - 1]
    ELSE Asserted([k EXCEPT !.rpos = 0, !.wpos = 0, !.buf = NoPipe.buf,
                            !.isclosed = FALSE, !.state_refs = 0],
                  k.readers = <<>> /\ k.writers = <<>>, "pipe_state_release")

\* pipe_open: the state, and an inode for each end, open once
pipe_open(k) ==
    [k EXCEPT !.state_refs = 2,
              !.ref = [n \in Ends |-> 1], !.opens = [n \in Ends |-> 1]]

\* inode_open_dec -> pipe_inode_close, inode_ref_dec -> pipe_inode_reclaim
inode_open_dec(k, n) ==
    LET d == [Asserted(k, k.opens[n] > 0, "inode_open_dec") EXCEPT !.opens[n] = @ - 1]
    IN  IF d.opens[n] = 0 THEN pipe_state_close(d) ELSE d

inode_ref_dec(k, n) ==
    LET d == [Asserted(k, k.ref[n] > 0, "inode_ref_dec") EXCEPT !.ref[n] = @ - 1]
    IN  IF d.ref[n] # 0 THEN d
        ELSE Asserted(pipe_state_release(d), d.opens[n] = 0, "inode_kill")

vfs_close(k, n) == inode_ref_dec(inode_open_dec(k, n), n)

inode_inc(k, n) == [k EXCEPT !.ref[n] = @ + 1, !.opens[n] = @ + 1]

----------------------------------------------------------------------------
(* One pass of pipe_state_read and pipe_state_write, from try_again to the *)
(* return or to the call of schedule(): nothing between lock_state and     *)
(* unlock_state gives up the processor.  n bytes are asked for; got is     *)
(* what the pass moves.                                                    *)

ReadBlocks(k) == is_empty(k) /\ ~k.isclosed

ReadPass(k, n) ==
    LET got == IF n < k.wpos - k.rpos THEN n ELSE k.wpos - k.rpos
        r   == [k EXCEPT !.rpos = @ + got]
    IN  [k |-> IF got = 0 THEN r ELSE wakeup_writer(r), got |-> got]

\* the for loop stores bytes until n are stored or the buffer is full
RECURSIVE Store(_, _)
Store(k, n) ==
    IF n = 0 \/ is_full(k) THEN [k |-> k, got |-> 0]
    ELSE LET s == Store([k EXCEPT !.buf[k.wpos % BufSize] = k.wpos,
                                  !.wpos = @ + 1], n - 1)
         IN  [s EXCEPT !.got = @ + 1]

\* Both ends of the loop wake the readers: the writer is about to wait, or
\* has stored its last byte.
WritePass(k, n) ==
    IF k.isclosed THEN [k |-> k, got |-> 0]
    ELSE [Store(k, n) EXCEPT !.k = wakeup_reader(@)]

WriteBlocks(k, n) == ~k.isclosed /\ Store(k, n).got < n
=============================================================================
