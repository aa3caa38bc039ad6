------------------------------- MODULE Buddy --------------------------------
(***************************************************************************)
(* The page allocator, arch/riscv_64/mm/buddy_pmm.c, over one zone.  A     *)
(* page is its index in the zone.  A page carries PageProperty with        *)
(* property = o exactly while it is linked in free_list(o), and nr_free(o) *)
(* is the length of that list, so the lists are the state.                 *)
(***************************************************************************)
EXTENDS Naturals, Sequences, SequencesExt, FiniteSets

CONSTANTS
    NPages,     \* the pages of the zone
    MaxOrder    \* MAX_ORDER

VARIABLES
    free_list,  \* the first page of every free block, by order
    held,       \* the blocks callers hold: <<first page, number of pages>>
    failed      \* an assertion of the allocator failed

vars == <<free_list, held, failed>>

Pages == 0..NPages - 1
Orders == 0..MaxOrder

Push(fl, o, p) == [fl EXCEPT ![o] = <<p>> \o @]

\* buddy_init_memmap from page p on
RECURSIVE InitMemmap(_, _, _)
InitMemmap(fl, p, o) ==
    IF p = NPages THEN fl
    ELSE IF NPages - p >= 2^o THEN InitMemmap(Push(fl, o, p), p + 2^o, o)
    ELSE InitMemmap(fl, p, o - 1)

Init ==
    /\ free_list = InitMemmap([o \in Orders |-> <<>>], 0, MaxOrder)
    /\ held = {}
    /\ failed = FALSE

getorder(n) == CHOOSE o \in Orders : n <= 2^o /\ (o = 0 \/ n > 2^(o - 1))

\* the loop that halves the block at page down to order o
RECURSIVE SplitDown(_, _, _, _)
SplitDown(fl, page, cur, o) ==
    IF cur = o THEN fl
    ELSE SplitDown(Push(fl, cur - 1, page + 2^(cur - 1)), page, cur - 1, o)

BuddyOf(p, o) == IF (p \div 2^o) % 2 = 0 THEN p + 2^o ELSE p - 2^o

\* the merging loop of buddy_free_pages_sub
RECURSIVE MergeUp(_, _, _)
MergeUp(fl, p, o) ==
    LET b == BuddyOf(p, o)
    IN  IF o < MaxOrder /\ Contains(fl[o], b)
        THEN MergeUp([fl EXCEPT ![o] = Remove(@, b)], IF b < p THEN b ELSE p, o + 1)
        ELSE Push(fl, o, p)

\* buddy_free_pages_sub on s = [fl, bad], with its two assertions
FreeSub(s, p, o) ==
    [fl  |-> MergeUp(s.fl, p, o),
     bad |-> \/ s.bad \/ p % 2^o # 0
             \/ \E q \in p..p + 2^o - 1, i \in Orders : Contains(s.fl[i], q)]

\* the two loops of buddy_free_pages: up while base is not aligned, then down
RECURSIVE FreeDown(_, _, _, _)
FreeDown(s, p, n, o) ==
    IF n = 0 THEN s
    ELSE IF n < 2^o THEN FreeDown(s, p, n, o - 1)
    ELSE FreeDown(FreeSub(s, p, o), p + 2^o, n - 2^o, o)

RECURSIVE FreeUp(_, _, _, _)
FreeUp(s, p, n, o) ==
    IF n < 2^o THEN FreeDown(s, p, n, o)
    ELSE IF (p \div 2^o) % 2 = 1 THEN FreeUp(FreeSub(s, p, o), p + 2^o, n - 2^o, o + 1)
    ELSE FreeUp(s, p, n, o + 1)

FreePages_LargestFirst(s, p, n) == FreeDown(s, p, n, getorder(n))
FreePages(s, p, n) == FreeUp(s, p, n, 0)

----------------------------------------------------------------------------

\* buddy_alloc_pages: the smallest order that has a block, first block of its
\* list; the pages beyond n go straight back
AllocPages(n) ==
    LET o   == getorder(n)
        cur == CHOOSE c \in o..MaxOrder :
                 /\ free_list[c] # <<>>
                 /\ \A d \in o..c - 1 : free_list[d] = <<>>
        p   == Head(free_list[cur])
        fl  == SplitDown([free_list EXCEPT ![cur] = Tail(@)], p, cur, o)
        s   == IF n = 2^o THEN [fl |-> fl, bad |-> FALSE]
               ELSE FreePages([fl |-> fl, bad |-> FALSE], p + n, 2^o - n)
    IN  /\ \E c \in o..MaxOrder : free_list[c] # <<>>
        /\ free_list' = s.fl
        /\ failed' = (failed \/ s.bad)
        /\ held' = held \cup {<<p, n>>}

\* buddy_free_pages by whoever holds the block
ReleasePages(b) ==
    LET s == FreePages([fl |-> free_list, bad |-> FALSE], b[1], b[2])
    IN  /\ b \in held
        /\ free_list' = s.fl
        /\ failed' = (failed \/ s.bad)
        /\ held' = held \ {b}

Next ==
    \/ \E n \in 1..2^MaxOrder : AllocPages(n)
    \/ \E b \in held : ReleasePages(b)

Spec == Init /\ [][Next]_vars

----------------------------------------------------------------------------
(* Properties                                                              *)

FreeBlocks == UNION {{<<p, 2^o>> : p \in ToSet(free_list[o])} : o \in Orders}
Covers(b, p) == p \in b[1]..b[1] + b[2] - 1

\* Whatever is split, returned and merged, every page of the zone is in
\* exactly one free block or one held block; the assertions of
\* buddy_free_pages_sub (alignment, page not free) never fail.
PagesPartitioned ==
    /\ ~failed
    /\ \A p \in Pages : Cardinality({b \in FreeBlocks \cup held : Covers(b, p)}) = 1
    /\ \A b \in FreeBlocks \cup held : b[1] + b[2] <= NPages

\* Freeing merges as far as it can: no two buddies are free side by side, so
\* the largest block that could be put together is there to be allocated.
BuddiesMerged ==
    \A o \in 0..MaxOrder - 1 : \A p \in ToSet(free_list[o]) :
        p % 2^o = 0 /\ ~Contains(free_list[o], BuddyOf(p, o))
=============================================================================
