------------------------------ MODULE MCFiles -------------------------------
(***************************************************************************)
(* Open-file tables and a pipe on small instances: two tables and a pipe   *)
(* of one byte, and one table whose threads go around a longer buffer      *)
(* twice.  which says of which instance a behaviour is one.                *)
(***************************************************************************)
EXTENDS Files

CONSTANTS StreamBuf, StreamLens, StreamMax  \* of the second instance

VARIABLE which

Stream == INSTANCE Files WITH
    Tables <- {"t"}, BufSize <- StreamBuf, Lens <- StreamLens, MaxStream <- StreamMax

FilesInit ==
    \/ which = "tables" /\ FInit
    \/ which = "stream" /\ Stream!FInit

FilesNext ==
    \/ which = "tables" /\ FNext /\ UNCHANGED which
    \/ which = "stream" /\ Stream!FNext /\ UNCHANGED which

FilesSpec == FilesInit /\ [][FilesNext]_<<which, vars>>

\* No definition tells one process, or one table, from another.
Symmetry == Permutations(Procs) \cup Permutations(Tables)

\* Files!CountsExact: the reference counts of tables, entries, inodes and the
\* pipe are exact, and the pipe is closed when an end has no entry left.
FileCountsExact ==
    /\ which = "tables" => CountsExact
    /\ which = "stream" => Stream!CountsExact

\* Files!StreamIntact: no unread byte of the pipe is overwritten, also where the
\* positions have gone around the buffer and two writers wait for room.
PipeStreamIntact ==
    /\ which = "tables" => StreamIntact
    /\ which = "stream" => Stream!StreamIntact

\* Files!SleeperReachable: who sleeps in the pipe has a reason to, and is in the
\* queue that the other side wakes.
PipeSleepersReachable ==
    /\ which = "tables" => SleeperReachable
    /\ which = "stream" => Stream!SleeperReachable

\* Files!LayersSound: the assertions of the layers hold.
FileLayersSound == LayersSound
=============================================================================
