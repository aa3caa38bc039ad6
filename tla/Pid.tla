--------------------------------- MODULE Pid ---------------------------------
(***************************************************************************)
(* The process identifiers: get_pid of process/proc.c, with its callers    *)
(* do_fork and do_wait.  Both change proc_list and the static variables    *)
(* under proc_lock, so one call of get_pid runs at a time and no process   *)
(* is reaped during it; the steps are those of its scan of proc_list.      *)
(* The idle processes (pids 0 .. NCPU - 1) are not in proc_list.           *)
(***************************************************************************)
EXTENDS Naturals, Sequences

CONSTANTS
    NCPU,
    MAX_PROCESS,
    MAX_PID

\* static_assert(MAX_PID > MAX_PROCESS), and there is room for init
ASSUME PidConstants ==
    /\ NCPU \in Nat \ {0} /\ MAX_PROCESS \in Nat /\ MAX_PID \in Nat
    /\ NCPU < MAX_PROCESS /\ MAX_PROCESS < MAX_PID

VARIABLES
    proc_list,  \* the pids of the processes, latest first
    last_pid,   \* the pid given last
    next_safe,  \* no pid between last_pid and next_safe is in use
    le          \* the place the scan is at, 0 outside get_pid

vars == <<proc_list, last_pid, next_safe, le>>

Init ==
    /\ proc_list = <<>>
    /\ last_pid = MAX_PID
    /\ next_safe = MAX_PID
    /\ le = 0

nr_process == NCPU + Len(proc_list)

\* proc->pid = get_pid(); set_links
Given(pid) == proc_list' = <<pid>> \o proc_list

\* do_fork: not too many processes
MayFork == le = 0 /\ nr_process < MAX_PROCESS

\* if (++last_pid >= MAX_PID): start again behind the idle processes
ForkWraps ==
    /\ MayFork
    /\ last_pid + 1 >= MAX_PID
    /\ last_pid' = NCPU
    /\ next_safe' = MAX_PID
    /\ le' = 1
    /\ UNCHANGED proc_list

\* if (last_pid >= next_safe)
Unsafe == last_pid + 1 >= next_safe

ForkScans ==
    /\ MayFork
    /\ last_pid + 1 < MAX_PID
    /\ Unsafe
    /\ last_pid' = last_pid + 1
    /\ next_safe' = MAX_PID
    /\ le' = 1
    /\ UNCHANGED proc_list

ForkSafe ==
    /\ MayFork
    /\ last_pid + 1 < MAX_PID
    /\ ~Unsafe
    /\ last_pid' = last_pid + 1
    /\ Given(last_pid + 1)
    /\ UNCHANGED <<next_safe, le>>

----------------------------------------------------------------------------
(* The scan: le is at a process.                                           *)

Scanning == le \in 1..Len(proc_list)

Repeats_Continue ==
    /\ Scanning
    /\ proc_list[le] = last_pid
    /\ last_pid + 1 >= next_safe
    /\ last_pid' = IF last_pid + 1 >= MAX_PID THEN 1 ELSE last_pid + 1
    /\ next_safe' = MAX_PID
    /\ le' = le + 1
    /\ UNCHANGED proc_list

Repeats_NoWrap ==
    /\ Scanning
    /\ proc_list[le] = last_pid
    /\ last_pid + 1 >= next_safe
    /\ last_pid' = last_pid + 1
    /\ next_safe' = MAX_PID
    /\ le' = 1
    /\ UNCHANGED proc_list

Repeats_NoIncrement ==
    /\ Scanning
    /\ proc_list[le] = last_pid
    /\ last_pid + 1 >= next_safe
    /\ last_pid' = last_pid
    /\ next_safe' = MAX_PID
    /\ le' = 1
    /\ UNCHANGED proc_list

\* The pid is in use: try the next one, from the start if next_safe is reached.
Repeats ==
    /\ Scanning
    /\ proc_list[le] = last_pid
    /\ last_pid + 1 >= next_safe
    /\ last_pid' = IF last_pid + 1 >= MAX_PID THEN 1 ELSE last_pid + 1
    /\ next_safe' = MAX_PID
    /\ le' = 1
    /\ UNCHANGED proc_list

TakesNext ==
    /\ Scanning
    /\ proc_list[le] = last_pid
    /\ last_pid + 1 < next_safe
    /\ last_pid' = last_pid + 1
    /\ le' = le + 1
    /\ UNCHANGED <<proc_list, next_safe>>

\* The bound that a pid in use puts on the safe ones.
Bound(pid) == IF pid > last_pid /\ next_safe > pid THEN pid ELSE next_safe

Passes ==
    /\ Scanning
    /\ proc_list[le] # last_pid
    /\ next_safe' = Bound(proc_list[le])
    /\ le' = le + 1
    /\ UNCHANGED <<proc_list, last_pid>>

\* return last_pid
Returns ==
    /\ le = Len(proc_list) + 1
    /\ Given(last_pid)
    /\ le' = 0
    /\ UNCHANGED <<last_pid, next_safe>>

----------------------------------------------------------------------------
Removed(s, i) == SubSeq(s, 1, i - 1) \o SubSeq(s, i + 1, Len(s))

\* do_wait reaps a process (never init): unhash_proc, remove_links
Reap(i) ==
    /\ le = 0
    /\ i \in 1..Len(proc_list)
    /\ proc_list[i] # NCPU
    /\ proc_list' = Removed(proc_list, i)
    /\ UNCHANGED <<last_pid, next_safe, le>>

Scan == Repeats \/ TakesNext \/ Passes \/ Returns

Next ==
    \/ ForkWraps \/ ForkScans \/ ForkSafe
    \/ Scan
    \/ \E i \in 1..MAX_PROCESS : Reap(i)

Spec == Init /\ [][Next]_vars

\* get_pid is straight-line code with interrupts off.
FairSpec == Spec /\ WF_vars(Scan)

----------------------------------------------------------------------------
(* Properties                                                              *)

\* Every variable has its type; pids are those find_proc accepts.
TypeOK ==
    /\ proc_list \in Seq(1..MAX_PID - 1)
    /\ last_pid \in 1..MAX_PID
    /\ next_safe \in 1..MAX_PID
    /\ le \in Nat /\ le <= Len(proc_list) + 1

\* "get_pid - alloc a unique pid for process": no two processes have the same
\* pid, although most calls rely on the next_safe of an earlier scan.
UniquePids ==
    \A i, j \in 1..Len(proc_list) : proc_list[i] = proc_list[j] => i = j

\* The range get_pid hands out without a scan is free, whoever was forked and
\* reaped since the scan.
RangeFree ==
    le = 0 => \A i \in 1..Len(proc_list) :
                  proc_list[i] <= last_pid \/ next_safe <= proc_list[i]

\* While it scans, no process it has passed has the pid it is about to return
\* or one it would return without a scan.
ScanInv ==
    le > 0 =>
        /\ last_pid < next_safe
        /\ \A i \in 1..Len(proc_list) :
               i < le => proc_list[i] < last_pid \/ next_safe <= proc_list[i]

PidInv == TypeOK /\ UniquePids /\ RangeFree /\ ScanInv

\* get_pid finds a pid: there are more pids than processes.
GetPidReturns == le > 0 ~> le = 0

\* assert(proc->pid >= NCPU) in wakeup_proc: the pids below NCPU are those of
\* the idle processes, and every do_fork calls wakeup_proc.  (Broken with two
\* processors: README, section 3.)
NoIdlePid == \A i \in 1..Len(proc_list) : proc_list[i] >= NCPU
=============================================================================
