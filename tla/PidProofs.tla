------------------------------ MODULE PidProofs ------------------------------
(***************************************************************************)
(* Process identifiers are unique, for any number of processors, processes *)
(* and pids.  PidInv is inductive: outside get_pid no pid between last_pid *)
(* and next_safe is in use; inside, the same holds of the processes the    *)
(* scan has passed, last_pid included.                                     *)
(***************************************************************************)
EXTENDS Pid, SequenceTheorems, TLAPS

Pids == 1..MAX_PID - 1

\* A list with a pid put in front (set_links).
LEMMA GivenList ==
    ASSUME NEW s \in Seq(Pids), NEW pid \in Pids
    PROVE  /\ <<pid>> \o s \in Seq(Pids)
           /\ Len(<<pid>> \o s) = Len(s) + 1
           /\ \A i \in 1..Len(s) + 1 :
                  (<<pid>> \o s)[i] = IF i = 1 THEN pid ELSE s[i - 1]
  OBVIOUS

\* A list with one process taken out (remove_links).
LEMMA RemovedList ==
    ASSUME NEW s \in Seq(Pids), NEW k \in 1..Len(s)
    PROVE  /\ Removed(s, k) \in Seq(Pids)
           /\ Len(Removed(s, k)) = Len(s) - 1
           /\ \A i \in 1..Len(s) - 1 :
                  Removed(s, k)[i] = IF i < k THEN s[i] ELSE s[i + 1]
  <1> DEFINE a == SubSeq(s, 1, k - 1)
             b == SubSeq(s, k + 1, Len(s))
  <1>1. a \in Seq(Pids) /\ Len(a) = k - 1 /\ \A i \in 1..k - 1 : a[i] = s[i]
    OBVIOUS
  <1>2. b \in Seq(Pids) /\ Len(b) = Len(s) - k /\ \A i \in 1..Len(s) - k : b[i] = s[i + k]
    OBVIOUS
  <1>3. Removed(s, k) = a \o b
    BY DEF Removed
  <1> HIDE DEF a, b
  <1>4. a \o b \in Seq(Pids) /\ Len(a \o b) = Len(s) - 1
    <2>1. Len(a \o b) = Len(a) + Len(b)  BY <1>1, <1>2, ConcatProperties
    <2>2. Len(a) + Len(b) = Len(s) - 1  BY <1>1, <1>2
    <2>3. a \o b \in Seq(Pids)  BY <1>1, <1>2
    <2>4. QED  BY <2>1, <2>2, <2>3
  <1>5. \A i \in 1..Len(s) - 1 : (a \o b)[i] = IF i < k THEN a[i] ELSE b[i - (k - 1)]
    BY <1>1, <1>2
  <1>6. ASSUME NEW i \in 1..Len(s) - 1
        PROVE  Removed(s, k)[i] = IF i < k THEN s[i] ELSE s[i + 1]
    <2>1. CASE i < k  BY <2>1, <1>1, <1>3, <1>5
    <2>2. CASE i >= k
      <3>1. i - (k - 1) \in 1..Len(s) - k  BY <2>2
      <3>2. b[i - (k - 1)] = s[i - (k - 1) + k]  BY <3>1, <1>2
      <3>3. i - (k - 1) + k = i + 1 /\ ~(i < k)  BY <2>2
      <3>4. (a \o b)[i] = b[i - (k - 1)]  BY <3>3, <1>5
      <3>5. QED  BY <3>2, <3>3, <3>4, <1>3
    <2>3. QED  BY <2>1, <2>2
  <1>7. QED  BY <1>3, <1>4, <1>6

\* The state before the first fork satisfies the invariant.
LEMMA InitPidInv == Init => PidInv
  BY PidConstants DEF Init, PidInv, TypeOK, UniquePids, RangeFree, ScanInv

\* Handing out a pid that no process has, when the range behind it is free,
\* keeps the invariant: ForkSafe and the return of get_pid.
LEMMA GivenInv ==
    ASSUME PidInv, NEW pid \in Pids, Given(pid),
           last_pid' = pid, next_safe' = next_safe, le' = 0,
           \A i \in 1..Len(proc_list) :
               proc_list[i] < pid \/ next_safe <= proc_list[i],
           pid < next_safe
    PROVE  PidInv'
  <1> DEFINE new == <<pid>> \o proc_list
  <1>1. proc_list \in Seq(Pids)
    BY DEF PidInv, TypeOK, Pids
  <1>2. /\ new \in Seq(Pids) /\ Len(new) = Len(proc_list) + 1
        /\ \A i \in 1..Len(proc_list) + 1 :
               new[i] = IF i = 1 THEN pid ELSE proc_list[i - 1]
    BY <1>1, GivenList
  <1>3. proc_list' = new
    BY DEF Given
  <1> HIDE DEF new
  <1>4. TypeOK'
    BY <1>2, <1>3, PidConstants DEF PidInv, TypeOK, Pids
  <1>5. UniquePids'
    <2>1. SUFFICES ASSUME NEW i \in 1..Len(new), NEW j \in 1..Len(new), new[i] = new[j]
                   PROVE  i = j
      BY <1>3 DEF UniquePids
    <2>2. \A m \in 2..Len(new) : new[m] # pid
      <3>1. ASSUME NEW m \in 2..Len(new) PROVE new[m] # pid
        <4>1. m - 1 \in 1..Len(proc_list) /\ new[m] = proc_list[m - 1]
          BY <1>1, <1>2
        <4>2. proc_list[m - 1] \in Nat
          BY <4>1, <1>1, PidConstants DEF Pids
        <4>3. QED  BY <4>1, <4>2, PidConstants DEF Pids, PidInv, TypeOK
      <3>2. QED  BY <3>1
    <2>3. CASE i = 1 \/ j = 1
      BY <2>1, <2>2, <2>3, <1>1, <1>2
    <2>4. CASE i # 1 /\ j # 1
      BY <2>1, <2>4, <1>1, <1>2 DEF PidInv, UniquePids
    <2>5. QED  BY <2>3, <2>4
  <1>6. RangeFree'
    <2>1. SUFFICES ASSUME NEW i \in 1..Len(new)
                   PROVE  new[i] <= pid \/ next_safe <= new[i]
      BY <1>3 DEF RangeFree
    <2>2. CASE i = 1  BY <2>2, <1>1, <1>2, PidConstants DEF Pids
    <2>3. CASE i # 1
      <3>1. i - 1 \in 1..Len(proc_list) /\ new[i] = proc_list[i - 1]
        BY <2>3, <1>1, <1>2
      <3>2. proc_list[i - 1] \in Nat
        BY <3>1, <1>1, PidConstants DEF Pids
      <3>3. QED  BY <3>1, <3>2, PidConstants DEF Pids
    <2>4. QED  BY <2>2, <2>3
  <1>7. ScanInv'
    BY DEF ScanInv
  <1>8. QED  BY <1>4, <1>5, <1>6, <1>7 DEF PidInv

\* Starting a scan: nothing has been passed yet.
LEMMA ScanStarts ==
    ASSUME PidInv, ForkWraps \/ ForkScans
    PROVE  PidInv'
  BY PidConstants
  DEF PidInv, TypeOK, UniquePids, RangeFree, ScanInv, ForkWraps, ForkScans, MayFork

\* A pid given without a scan comes from the free range.
LEMMA SafeStep ==
    ASSUME PidInv, ForkSafe
    PROVE  PidInv'
  <1>1. /\ last_pid + 1 \in Pids /\ last_pid + 1 < next_safe
        /\ Given(last_pid + 1) /\ last_pid' = last_pid + 1 /\ next_safe' = next_safe
        /\ le = 0 /\ le' = 0
    BY PidConstants DEF PidInv, TypeOK, ForkSafe, MayFork, Unsafe, Pids
  <1>2. ASSUME NEW i \in 1..Len(proc_list)
        PROVE  proc_list[i] < last_pid + 1 \/ next_safe <= proc_list[i]
    <2>1. proc_list[i] \in Nat
      BY PidConstants DEF PidInv, TypeOK
    <2>2. QED  BY <1>1, <2>1 DEF PidInv, TypeOK, RangeFree
  <1>3. QED  BY <1>1, <1>2, GivenInv

\* A step of the scan extends what it knows by one process, or starts over.
LEMMA ScanStep ==
    ASSUME PidInv, Repeats \/ TakesNext \/ Passes
    PROVE  PidInv'
  <1>1. /\ le \in 1..Len(proc_list) /\ proc_list' = proc_list
        /\ Len(proc_list) \in Nat /\ le > 0 /\ last_pid < next_safe
        /\ last_pid \in 1..MAX_PID /\ next_safe \in 1..MAX_PID /\ MAX_PID \in Nat
        /\ \A i \in 1..Len(proc_list) : proc_list[i] \in Nat /\ proc_list[i] < MAX_PID
    BY PidConstants
    DEF PidInv, TypeOK, ScanInv, Repeats, TakesNext, Passes, Scanning
  <1>2. UniquePids' /\ RangeFree'
    <2>1. le' > 0
      BY <1>1 DEF Repeats, TakesNext, Passes
    <2>2. QED  BY <1>1, <2>1 DEF PidInv, UniquePids, RangeFree
  <1>3. CASE Repeats
    BY <1>1, <1>2, <1>3, PidConstants DEF PidInv, TypeOK, ScanInv, Repeats
  <1>4. CASE TakesNext
    <2>1. TypeOK'
      BY <1>1, <1>4, PidConstants DEF PidInv, TypeOK, TakesNext
    <2>2. ASSUME NEW i \in 1..Len(proc_list), i < le + 1
          PROVE  proc_list[i] < last_pid + 1 \/ next_safe <= proc_list[i]
      <3>1. CASE i = le  BY <1>1, <1>4, <3>1 DEF TakesNext
      <3>2. CASE i < le  BY <1>1, <3>2 DEF PidInv, ScanInv
      <3>3. QED  BY <1>1, <2>2, <3>1, <3>2
    <2>3. ScanInv'
      BY <1>1, <1>4, <2>2 DEF ScanInv, TakesNext
    <2>4. QED  BY <1>2, <2>1, <2>3 DEF PidInv
  <1>5. CASE Passes
    <2>1. TypeOK' /\ last_pid' < next_safe'
      BY <1>1, <1>5, PidConstants DEF PidInv, TypeOK, Passes, Bound
    <2>2. ASSUME NEW i \in 1..Len(proc_list), i < le + 1
          PROVE  proc_list[i] < last_pid \/ next_safe' <= proc_list[i]
      <3>1. CASE i = le  BY <1>1, <1>5, <3>1 DEF Passes, Bound
      <3>2. CASE i < le  BY <1>1, <1>5, <3>2 DEF PidInv, ScanInv, Passes, Bound
      <3>3. QED  BY <1>1, <2>2, <3>1, <3>2
    <2>3. ScanInv'
      BY <1>1, <1>5, <2>1, <2>2 DEF ScanInv, Passes
    <2>4. QED  BY <1>2, <2>1, <2>3 DEF PidInv
  <1>6. QED  BY <1>3, <1>4, <1>5

\* The scan has passed everybody when get_pid returns.
LEMMA ReturnStep ==
    ASSUME PidInv, Returns
    PROVE  PidInv'
  <1>1. /\ last_pid \in Pids /\ last_pid < next_safe /\ Len(proc_list) \in Nat
        /\ Given(last_pid) /\ last_pid' = last_pid /\ next_safe' = next_safe /\ le' = 0
        /\ le = Len(proc_list) + 1
    BY PidConstants DEF PidInv, TypeOK, ScanInv, Returns, Pids
  <1>2. \A i \in 1..Len(proc_list) : proc_list[i] < last_pid \/ next_safe <= proc_list[i]
    BY <1>1 DEF PidInv, ScanInv
  <1>3. QED  BY <1>1, <1>2, GivenInv

\* Reaping a process only frees its pid.
LEMMA ReapStep ==
    ASSUME PidInv, NEW k \in 1..MAX_PROCESS, Reap(k)
    PROVE  PidInv'
  <1> DEFINE new == Removed(proc_list, k)
  <1>1. /\ proc_list \in Seq(Pids) /\ k \in 1..Len(proc_list) /\ proc_list' = new
        /\ last_pid' = last_pid /\ next_safe' = next_safe /\ le = 0 /\ le' = 0
    BY DEF PidInv, TypeOK, Pids, Reap
  <1>2. /\ new \in Seq(Pids) /\ Len(new) = Len(proc_list) - 1
        /\ \A i \in 1..Len(proc_list) - 1 :
               new[i] = IF i < k THEN proc_list[i] ELSE proc_list[i + 1]
    BY <1>1, RemovedList
  <1> HIDE DEF new
  <1>3. TypeOK'
    BY <1>1, <1>2 DEF PidInv, TypeOK, Pids
  <1>4. UniquePids'
    <2>1. SUFFICES ASSUME NEW i \in 1..Len(new), NEW j \in 1..Len(new), new[i] = new[j]
                   PROVE  i = j
      BY <1>1 DEF UniquePids
    <2>2. QED  BY <2>1, <1>1, <1>2 DEF PidInv, UniquePids
  <1>5. RangeFree'
    <2>1. SUFFICES ASSUME NEW i \in 1..Len(new)
                   PROVE  new[i] <= last_pid \/ next_safe <= new[i]
      BY <1>1 DEF RangeFree
    <2>2. QED  BY <1>1, <1>2 DEF PidInv, RangeFree
  <1>6. ScanInv'
    BY <1>1 DEF ScanInv
  <1>7. QED  BY <1>3, <1>4, <1>5, <1>6 DEF PidInv

\* PidInv is inductive.
LEMMA NextPidInv == PidInv /\ [Next]_vars => PidInv'
  <1> SUFFICES ASSUME PidInv, [Next]_vars PROVE PidInv'
    OBVIOUS
  <1>1. CASE ForkWraps \/ ForkScans  BY <1>1, ScanStarts
  <1>2. CASE ForkSafe  BY <1>2, SafeStep
  <1>3. CASE Repeats \/ TakesNext \/ Passes  BY <1>3, ScanStep
  <1>4. CASE Returns  BY <1>4, ReturnStep
  <1>5. CASE \E i \in 1..MAX_PROCESS : Reap(i)  BY <1>5, ReapStep
  <1>6. CASE UNCHANGED vars
    BY <1>6 DEF vars, PidInv, TypeOK, UniquePids, RangeFree, ScanInv
  <1>7. QED  BY <1>1, <1>2, <1>3, <1>4, <1>5, <1>6 DEF Next, Scan

\* get_pid never gives a pid that is in use: no two processes share one, also
\* when the pid comes from a range that an earlier scan found free.
THEOREM PidsUnique == Spec => [](TypeOK /\ UniquePids /\ RangeFree)
  <1>1. PidInv => TypeOK /\ UniquePids /\ RangeFree
    BY DEF PidInv
  <1>2. QED  BY <1>1, InitPidInv, NextPidInv, PTL DEF Spec
=============================================================================
