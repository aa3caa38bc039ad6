--------------------------- MODULE WaitQueueProofs ---------------------------
(***************************************************************************)
(* What the operations of a wait queue do to the set of processes in it.   *)
(***************************************************************************)
EXTENDS WaitQueue, TLAPS

\* wait_queue_add puts one process into the queue and keeps the others.
LEMMA AddMembers ==
    ASSUME NEW q \in Seq(Procs), NEW p \in Procs
    PROVE  /\ WaitQueueAdd(q, p) \in Seq(Procs)
           /\ WaitQueueAdd(q, p) # <<>>
           /\ \A r : WaitInQueue(WaitQueueAdd(q, p), r) <=> WaitInQueue(q, r) \/ r = p
  <1> DEFINE a == Append(q, p)
  <1>1. /\ a \in Seq(Procs) /\ Len(a) = Len(q) + 1 /\ Len(q) \in Nat
        /\ a[Len(q) + 1] = p /\ \A i \in 1..Len(q) : a[i] = q[i]
    OBVIOUS
  <1> HIDE DEF a
  <1>2. a # <<>>
    BY <1>1
  <1>3. \A r : WaitInQueue(a, r) <=> WaitInQueue(q, r) \/ r = p
    BY <1>1 DEF WaitInQueue
  <1> QED
    BY <1>1, <1>2, <1>3 DEF a, WaitQueueAdd

\* A process that is not in the queue can be added without a duplicate.
LEMMA AddNoDuplicates ==
    ASSUME NEW q \in Seq(Procs), NEW p \in Procs, NoDuplicates(q), ~WaitInQueue(q, p)
    PROVE  NoDuplicates(WaitQueueAdd(q, p))
  <1> DEFINE a == Append(q, p)
  <1>1. /\ Len(a) = Len(q) + 1 /\ Len(q) \in Nat
        /\ a[Len(q) + 1] = p /\ \A i \in 1..Len(q) : a[i] = q[i]
    OBVIOUS
  <1> HIDE DEF a
  <1>2. NoDuplicates(a)
    BY <1>1 DEF NoDuplicates, WaitInQueue
  <1> QED
    BY <1>2 DEF a, WaitQueueAdd

\* Taking the first waiter takes that process out and keeps the others.
LEMMA TailMembers ==
    ASSUME NEW q \in Seq(Procs), q # <<>>, NoDuplicates(q)
    PROVE  /\ Head(q) \in Procs /\ WaitInQueue(q, Head(q))
           /\ Tail(q) \in Seq(Procs)
           /\ NoDuplicates(Tail(q))
           /\ \A r : WaitInQueue(Tail(q), r) <=> WaitInQueue(q, r) /\ r # Head(q)
  <1> DEFINE t == Tail(q)
             h == Head(q)
  <1>1. /\ t \in Seq(Procs) /\ Len(q) \in Nat \ {0} /\ Len(t) = Len(q) - 1
        /\ h = q[1] /\ h \in Procs
        /\ \A i \in 1..Len(t) : t[i] = q[i + 1]
    OBVIOUS
  <1> HIDE DEF t, h
  <1>2. WaitInQueue(q, h)
    BY <1>1 DEF WaitInQueue
  <1>3. NoDuplicates(t)
    BY <1>1 DEF NoDuplicates
  <1>4. ASSUME NEW r, WaitInQueue(t, r) PROVE WaitInQueue(q, r) /\ r # h
    <2>1. PICK i \in 1..Len(t) : t[i] = r
      BY <1>4 DEF WaitInQueue
    <2>2. i + 1 \in 1..Len(q) /\ q[i + 1] = r /\ i + 1 # 1 /\ 1 \in 1..Len(q)
      BY <1>1, <2>1
    <2> QED
      BY <1>1, <2>2 DEF WaitInQueue, NoDuplicates
  <1>5. ASSUME NEW r, WaitInQueue(q, r), r # h PROVE WaitInQueue(t, r)
    <2>1. PICK i \in 1..Len(q) : q[i] = r
      BY <1>5 DEF WaitInQueue
    <2>2. i - 1 \in 1..Len(t) /\ (i - 1) + 1 = i
      BY <1>1, <1>5, <2>1
    <2>3. t[i - 1] = r
      BY <1>1, <2>1, <2>2
    <2> QED
      BY <2>2, <2>3 DEF WaitInQueue
  <1> QED
    BY <1>1, <1>2, <1>3, <1>4, <1>5 DEF t, h
=============================================================================
