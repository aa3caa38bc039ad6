----------------------------- MODULE TimerList ------------------------------
(***************************************************************************)
(* The timer list of one processor (schedule/sched.c).  A timer stores the *)
(* ticks that remain after the timer before it has expired, so that a tick *)
(* touches only the first one.  A process has at most one timer (a timer_t *)
(* on its kernel stack), which is represented by the process.              *)
(***************************************************************************)
EXTENDS Integers, Sequences, FiniteSets

CONSTANTS
    Procs,
    Width       \* bits of the unsigned int timer->expires

ASSUME WidthAssumption == Width \in Nat \ {0}

VARIABLES
    tl,         \* cpus[].timer_list, the timer that expires first first
    expires     \* timer->expires; keeps its last value when out of the list

timerVars == <<tl, expires>>

Word == 0 .. 2^Width - 1

InList(l, p) == \E i \in 1..Len(l) : l[i] = p
Index(l, p) == CHOOSE i \in 1..Len(l) : l[i] = p

TimerInit ==
    /\ tl = <<>>
    /\ expires = [p \in Procs |-> 0]

\* The loop of __add_timer on the list l: <<the place of a timer due in e
\* ticks, the ticks that are left of e there>>.
Walk(l, x, e) ==
    LET walk[i \in 1..Len(l) + 1, r \in Word] ==
            IF i > Len(l) \/ r < x[l[i]]
            THEN <<i, r>>
            ELSE walk[i + 1, r - x[l[i]]]
    IN  walk[1, e]

\* __add_timer of p's timer, with expires = e > 0, to the list l with the
\* differences x
Added(l, x, p, e) ==
    LET at == Walk(l, x, e)[1]
        left == Walk(l, x, e)[2]
    IN  [tl |-> SubSeq(l, 1, at - 1) \o <<p>> \o SubSeq(l, at, Len(l)),
         expires |-> [q \in Procs |->
              CASE q = p -> left
                [] at <= Len(l) /\ q = l[at] -> (x[q] - left) % 2^Width
                [] OTHER -> x[q]]]

Unlinked(l, p) ==
    LET i == Index(l, p)
    IN  SubSeq(l, 1, i - 1) \o SubSeq(l, i + 1, Len(l))

Deleted_Drop(l, x, p) ==
    IF InList(l, p) THEN [tl |-> Unlinked(l, p), expires |-> x]
                    ELSE [tl |-> l, expires |-> x]

\* __del_timer: the ticks of the timer go to its successor
Deleted(l, x, p) ==
    IF InList(l, p)
    THEN [tl |-> Unlinked(l, p),
          expires |-> [q \in Procs |->
               IF Index(l, p) < Len(l) /\ q = l[Index(l, p) + 1]
               THEN (x[q] + x[p]) % 2^Width
               ELSE x[q]]]
    ELSE [tl |-> l, expires |-> x]

TimersBecome(r) == tl' = r.tl /\ expires' = r.expires

AddTimer(p, e) == TimersBecome(Added(tl, expires, p, e))
DelTimer(p) == TimersBecome(Deleted(tl, expires, p))

\* The first timer after timer->expires-- in run_timer_list.
Counted == [expires EXCEPT ![Head(tl)] = @ - 1]

ExpiredNow_First == IF Counted[Head(tl)] = 0 THEN 1 ELSE 0

\* while (timer->expires == 0): how many timers expire on this tick
ExpiredNow ==
    Cardinality({i \in 1..Len(tl) : \A j \in 1..i : Counted[tl[j]] = 0})

\* The processes run_timer_list wakes.
Expired == IF tl = <<>> THEN {} ELSE {tl[i] : i \in 1..ExpiredNow}

\* assert(timer->expires != 0)
HeadPending == tl # <<>> => expires[Head(tl)] # 0

\* run_timer_list, without the wake-ups and the accounting of the time slice
RunTimerList ==
    IF tl = <<>>
    THEN UNCHANGED <<tl, expires>>
    ELSE /\ expires' = Counted
         /\ tl' = SubSeq(tl, ExpiredNow + 1, Len(tl))

\* The ticks after which the timer of p expires, 0 when it is not in the list.
Remaining(p) ==
    LET upto[i \in 0..Len(tl)] == IF i = 0 THEN 0 ELSE upto[i - 1] + expires[tl[i]]
    IN  IF InList(tl, p) THEN upto[Index(tl, p)] ELSE 0
=============================================================================
