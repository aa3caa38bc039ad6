-------------------------------- MODULE Vmm ---------------------------------
(***************************************************************************)
(* Address spaces: mm/vmm.c with the page tables of mm/pmm.c and the       *)
(* shared memory of mm/shmem.c, as the system calls of proc.c and the page *)
(* fault handler use them.  Each holds lock_mm of its address space; an    *)
(* operation is one action.  Addresses and lengths are counted in pages,   *)
(* every area is readable and writable, and there is no swap.  An address  *)
(* space has fewer than RB_MIN_MAP_COUNT areas, so find_vma looks for them *)
(* in mmap_cache and mmap_list; VmaIndex has the tree.                     *)
(*                                                                         *)
(* The objects are one record, and a C function is an operator on it.      *)
(* k.panic names the assertion that failed, or the NULL that was followed. *)
(***************************************************************************)
EXTENDS Integers, FiniteSets, SequencesExt

CONSTANTS
    Mms,        \* the mm_structs
    Top,        \* USERTOP; user addresses are 1..Top - 1
    NPages,     \* pages of physical memory
    Shmems,     \* the shmem_structs
    BrkStart,   \* mm->brk_start
    MaxAreas,   \* bound: areas of an address space, below RB_MIN_MAP_COUNT
    ShmemLens   \* the sizes a shared region is created with

ASSUME VmmAssumption == {Top, NPages, BrkStart} \subseteq Nat \ {0} /\ BrkStart <= Top

VARIABLE k      \* see Boot

Addrs == 1..Top - 1
None == 0       \* no page: an empty page table entry
NoMm == [live |-> FALSE, list |-> <<>>, pte |-> [a \in Addrs |-> None],
         brk |-> BrkStart, over |-> FALSE]
NoShmem == [ref |-> 0, len |-> 0, entry |-> [a \in 0..Top |-> None]]

\* list: mmap_list, of records [s, e, shm, off], vm_start to vm_end; shm is
\* "private", or a shmem_struct, or "NULL" for VM_SHARE without one.
\* over is a history variable: the heap was grown over another area (mm_brk).
Boot == [mm |-> [n \in Mms |-> NoMm],
         shmem |-> [h \in Shmems |-> NoShmem],
         ref |-> [p \in 1..NPages |-> 0],   \* page_ref
         used |-> {},                       \* the allocated pages
         panic |-> "none"]

Init == \E m \in Mms : k = [Boot EXCEPT !.mm[m].live = TRUE]

\* The kernel stops: what is in memory then is of no interest.
Panic(o, why) == IF o.panic = "none" THEN [Boot EXCEPT !.panic = why] ELSE o
FreePages(o) == (1..NPages) \ o.used
alloc_page(o) == Min(FreePages(o))

----------------------------------------------------------------------------
(* pmm.c, shmem.c                                                          *)

page_ref_inc(o, p) == [o EXCEPT !.ref[p] = @ + 1, !.used = @ \cup {p}]
page_ref_dec(o, p) ==
    [o EXCEPT !.ref[p] = @ - 1, !.used = IF o.ref[p] = 1 THEN @ \ {p} ELSE @]

page_remove_pte(o, m, a) ==
    IF o.mm[m].pte[a] = None THEN o
    ELSE page_ref_dec([o EXCEPT !.mm[m].pte[a] = None], o.mm[m].pte[a])

page_insert(o, m, a, p) ==
    [page_remove_pte(page_ref_inc(o, p), m, a) EXCEPT !.mm[m].pte[a] = p]

RECURSIVE unmap_range(_, _, _, _)
unmap_range(o, m, s, e) ==
    IF s >= e THEN o ELSE unmap_range(page_remove_pte(o, m, s), m, s + 1, e)

\* shmn_destroy for every entry
RECURSIVE ShmemDrop(_, _, _)
ShmemDrop(o, h, i) ==
    IF i = o.shmem[h].len THEN [o EXCEPT !.shmem[h] = NoShmem]
    ELSE ShmemDrop(IF o.shmem[h].entry[i] = None THEN o
                   ELSE page_ref_dec(o, o.shmem[h].entry[i]), h, i + 1)

shmem_ref_dec(o, h) ==
    LET d == [o EXCEPT !.shmem[h].ref = @ - 1]
    IN  IF d.shmem[h].ref = 0 THEN ShmemDrop(d, h, 0) ELSE d

----------------------------------------------------------------------------
(* vmm.c                                                                   *)

Areas(o, m) == o.mm[m].list
Covers(v, a) == v.s <= a /\ a < v.e
Overlap(v, w) == v.s < w.e /\ w.s < v.e

\* The places in the list of the areas that contain a.  There are several only
\* after mm_brk has grown the heap over an area, and then mmap_cache, the area
\* found last, or the order of the list says which one find_vma returns: any.
find_vma(o, m, a) == {i \in DOMAIN Areas(o, m) : Covers(Areas(o, m)[i], a)}

\* The area goes behind the first areas that start no later, and the two beside
\* it are compared with it.
insert_vma_struct(o, m, v) ==
    LET L == Areas(o, m)
        later == SelectInSeq(L, LAMBDA w : w.s > v.s)
        at == IF later = 0 THEN Len(L) + 1 ELSE later
    IN  IF \/ at > 1 /\ L[at - 1].e > v.s
           \/ at <= Len(L) /\ v.e > L[at].s
        THEN Panic(o, "check_vma_overlap")
        ELSE [o EXCEPT !.mm[m].list = InsertAt(@, at, v)]

vma_destroy(o, v) ==
    CASE v.shm = "private" -> o
      [] v.shm = "NULL" -> Panic(o, "shmem_null")
      [] OTHER -> shmem_ref_dec(o, v.shm)

Private(s, e) == [s |-> s, e |-> e, shm |-> "private", off |-> 0]

\* vma_resize
Resized_KeepOff(v, s, e) == [v EXCEPT !.s = s, !.e = e]
Resized(v, s, e) ==
    [v EXCEPT !.s = s, !.e = e, !.off = IF v.shm = "private" THEN 0 ELSE @ + s - v.s]
CanResize(v, s, e) == v.s <= s /\ s < e /\ e <= v.e

\* one area of the loop of mm_unmap, already off the list
UnmapArea(o, m, v, s, e) ==
    CASE v.s < s ->
           IF ~CanResize(v, v.s, s) THEN Panic(o, "vma_resize")
           ELSE unmap_range(insert_vma_struct(o, m, Resized(v, v.s, s)), m, s, v.e)
      [] v.s >= s /\ e < v.e ->
           unmap_range(insert_vma_struct(o, m, Resized(v, e, v.e)), m, v.s, e)
      [] OTHER -> unmap_range(vma_destroy(o, v), m, v.s, v.e)

\* free_list has the area that was taken off last in front
RECURSIVE UnmapAreas(_, _, _, _, _)
UnmapAreas(o, m, L, s, e) ==
    IF L = <<>> THEN o
    ELSE UnmapAreas(UnmapArea(o, m, Last(L), s, e), m, Front(L), s, e)

\* An area that contains the range loses its middle: the part below becomes a
\* new area, vma_create(vma->vm_start, start, vma->vm_flags), the one above
\* keeps its place.
SplitArea(o, m, i, s, e) ==
    LET v == Areas(o, m)[i]
        low == [s |-> v.s, e |-> s, off |-> 0,
                shm |-> IF v.shm = "private" THEN "private" ELSE "NULL"]
        above == [o EXCEPT !.mm[m].list[i] = Resized(v, e, v.e)]
    IN  unmap_range(insert_vma_struct(above, m, low), m, s, e)

\* mm_unmap where find_vma(start) is area i: that one and those behind it that
\* start before the end go.
mm_unmap(o, m, i, s, e) ==
    LET L == Areas(o, m)
        n == SelectInSubSeq(L, i, Len(L), LAMBDA w : w.s >= e)
        last == IF n = 0 THEN Len(L) ELSE n - 1
    IN  IF L[i].s < s /\ e < L[i].e THEN SplitArea(o, m, i, s, e)
        ELSE UnmapAreas([o EXCEPT !.mm[m].list = SubSeq(L, 1, i - 1) \o SubSeq(L, last + 1, Len(L))],
                        m, SubSeq(L, i, last), s, e)

\* mm_brk where find_vma(start - 1) is area i, or none (0).  Its mm_unmap does
\* nothing: do_brk has found no area at start.  An area that ends at start grows
\* without a look at the next one.
mm_brk(o, m, i, s, e) ==
    LET L == Areas(o, m)
        grown == [L EXCEPT ![i].e = e]
    IN  IF i = 0 \/ L[i].e # s \/ L[i].shm # "private"
        THEN insert_vma_struct(o, m, Private(s, e))
        ELSE [o EXCEPT !.mm[m].list = grown,
                       !.mm[m].over = @ \/ \E j \in DOMAIN L \ {i} : Overlap(grown[i], L[j])]

UnmappedArea_TopOnly(L, start, len) == IF start >= 1 THEN start ELSE 0

\* the search downwards from USERTOP, the last area first; 0 if there is no room
RECURSIVE UnmappedArea(_, _, _)
UnmappedArea(L, start, len) ==
    IF L = <<>> THEN IF start >= 1 THEN start ELSE 0
    ELSE LET v == Last(L)
         IN  IF start >= v.e THEN start
             ELSE IF start + len <= v.s THEN UnmappedArea(Front(L), start, len)
             ELSE IF len >= v.s THEN 0
             ELSE UnmappedArea(Front(L), v.s - len, len)

get_unmapped_area(o, m, len) == UnmappedArea(Areas(o, m), Top - len, len)

\* copy_range into the new address space: share, or copy into a new page
RECURSIVE copy_range(_, _, _, _, _)
copy_range(o, to, from, v, a) ==
    LET p == o.mm[from].pte[a]
    IN  IF a >= v.e THEN o
        ELSE copy_range(CASE p = None -> o
                          [] p # None /\ v.shm # "private" -> page_insert(o, to, a, p)
                          [] p # None /\ v.shm = "private" /\ FreePages(o) = {} ->
                               Panic(o, "copy_range")
                          [] OTHER -> page_insert(o, to, a, alloc_page(o)),
                        to, from, v, a + 1)

\* One round of dup_mmap: a new area like v, and its pages below upto.
DupArea(o, to, from, v, upto) ==
    LET r == CASE v.shm = "private" -> o
               [] v.shm = "NULL" -> Panic(o, "shmem_null")
               [] OTHER -> [o EXCEPT !.shmem[v.shm].ref = @ + 1]
    IN  copy_range(insert_vma_struct(r, to, v), to, from, [v EXCEPT !.e = upto], v.s)

RECURSIVE DupAreas(_, _, _, _)
DupAreas(o, to, from, L) ==
    IF L = <<>> \/ o.panic # "none" THEN o
    ELSE DupAreas(DupArea(o, to, from, Last(L), Last(L).e), to, from, Front(L))

\* exit_mmap, put_pgdir and mm_destroy
DestroyMm(o, m) ==
    [UnmapAreas([o EXCEPT !.mm[m].list = <<>>], m, Areas(o, m), 1, Top) EXCEPT !.mm[m] = NoMm]

----------------------------------------------------------------------------
(* System calls and page faults of a process with address space m          *)

Live(m) == k.panic = "none" /\ k.mm[m].live

\* do_mmap with an address, and without, and mm_map; a call that fails changes
\* nothing.
Mmap(m, s, e) ==
    /\ Live(m) /\ find_vma(k, m, s) = {}
    /\ k' = insert_vma_struct(k, m, Private(s, e))

MmapAnywhere(m, len) ==
    LET a == get_unmapped_area(k, m, len)
    IN  /\ Live(m) /\ a # 0
        /\ find_vma(k, m, a) = {}
        /\ k' = insert_vma_struct(k, m, Private(a, a + len))

\* do_shmem: shmem_create, mm_map_shmem; undone if the address is taken
Shmem(m, h, s, e) ==
    /\ Live(m) /\ k.shmem[h].ref = 0
    /\ find_vma(k, m, s) = {}
    /\ k' = insert_vma_struct([k EXCEPT !.shmem[h].ref = 1, !.shmem[h].len = e - s],
                              m, [s |-> s, e |-> e, shm |-> h, off |-> 0])

Munmap(m, s, e) ==
    /\ Live(m)
    /\ \E i \in find_vma(k, m, s) : k' = mm_unmap(k, m, i, s, e)

\* do_brk: find_vma_intersection looks for an area at the old break only
BrkGrow(m, new) ==
    LET old == k.mm[m].brk
        below == find_vma(k, m, old - 1)
    IN  /\ Live(m) /\ new > old
        /\ find_vma(k, m, old) = {}
        /\ \E i \in (IF below = {} THEN {0} ELSE below) :
             k' = [mm_brk(k, m, i, old, new) EXCEPT !.mm[m].brk = new]

BrkShrink(m, new) ==
    LET old == k.mm[m].brk
        at == find_vma(k, m, new)
    IN  /\ Live(m) /\ BrkStart <= new /\ new < old
        /\ \/ at = {} /\ k' = [k EXCEPT !.mm[m].brk = new]
           \/ \E i \in at : k' = [mm_unmap(k, m, i, new, old) EXCEPT !.mm[m].brk = new]

\* shmem_get_entry with create
SharedPage_NoRef(o, h, i) ==
    IF o.shmem[h].entry[i] # None THEN o
    ELSE LET p == alloc_page(o)
         IN  [o EXCEPT !.shmem[h].entry[i] = p, !.used = @ \cup {p}]

SharedPage(o, h, i) ==
    IF o.shmem[h].entry[i] # None THEN o
    ELSE LET p == alloc_page(o)
         IN  page_ref_inc([o EXCEPT !.shmem[h].entry[i] = p], p)

\* pgdir_alloc_page
PrivateFault(o, m, a) == page_insert(o, m, a, alloc_page(o))

SharedFault(o, m, v, a) ==
    LET i == a - v.s + v.off
        g == SharedPage(o, v.shm, i)
    IN  page_insert(g, m, a, g.shmem[v.shm].entry[i])

\* do_pgfault on an absent page: a private area gets a new one, a shared area
\* the page of its shmem_struct
PageFault(m, a) ==
    /\ Live(m) /\ k.mm[m].pte[a] = None
    /\ \E v \in {Areas(k, m)[i] : i \in find_vma(k, m, a)} :
         CASE v.shm = "private" ->
                FreePages(k) # {} /\ k' = PrivateFault(k, m, a)
           [] v.shm = "NULL" -> k' = Panic(k, "shmem_null")
           [] OTHER -> /\ FreePages(k) # {} \/ k.shmem[v.shm].entry[a - v.s + v.off] # None
                       /\ k' = SharedFault(k, m, v, a)

\* copy_mm -> dup_mmap
Fork(m, n) ==
    /\ Live(m) /\ ~k.mm[n].live
    /\ k' = [DupAreas(k, n, m, Areas(k, m)) EXCEPT !.mm[n].live = TRUE,
                                                   !.mm[n].brk = k.mm[m].brk]

\* copy_mm with no memory for area i or, if it has some of its pages below upto,
\* for their page table: bad_dup_cleanup_mmap
ForkNoMem(m, n, i, upto) ==
    LET L == Areas(k, m)
        d == DupAreas(k, n, m, SubSeq(L, i + 1, Len(L)))
    IN  /\ Live(m) /\ ~k.mm[n].live
        /\ i \in DOMAIN L /\ upto \in {0} \cup L[i].s..L[i].e - 1
        /\ k' = DestroyMm(IF upto = 0 THEN d ELSE DupArea(d, n, m, L[i], upto), n)

\* the last put of the mm
Exit(m) ==
    /\ Live(m)
    /\ k' = DestroyMm(k, m)

Operation(m) ==
    \/ \E s, e \in 1..Top : s < e /\ (Mmap(m, s, e) \/ Munmap(m, s, e))
    \/ \E s \in Addrs, len \in ShmemLens, h \in Shmems :
           s + len <= Top /\ Shmem(m, h, s, s + len)
    \/ \E len \in 1..Top : MmapAnywhere(m, len)
    \/ \E new \in 1..Top : BrkGrow(m, new) \/ BrkShrink(m, new)
    \/ \E a \in Addrs : PageFault(m, a)
    \/ \E n \in Mms : Fork(m, n)
    \/ \E n \in Mms, i, upto \in 0..Top : ForkNoMem(m, n, i, upto)
    \/ Exit(m)

\* no operation goes beyond the bound on the areas
Next == \E m \in Mms : Operation(m) /\ Len(k'.mm[m].list) <= MaxAreas

Spec == Init /\ [][Next]_k

----------------------------------------------------------------------------
(* Properties                                                              *)

Running == k.panic = "none"
Mapped == {<<m, a>> \in Mms \X Addrs : k.mm[m].pte[a] # None}
PteOf(x) == k.mm[x[1]].pte[x[2]]
Entries(p) == {<<h, i>> \in Shmems \X (0..Top) : k.shmem[h].entry[i] = p}
AreasOf(h) == UNION {{<<m, i>> : i \in {j \in DOMAIN Areas(k, m) : Areas(k, m)[j].shm = h}} :
                     m \in Mms}

\* Through map, fault, fork, partial unmap and exit, also where a fork runs out
\* of memory or the heap has been grown over an area, page_ref counts the page
\* table and shared memory entries that name the page, a page is free exactly
\* when there are none, and shmem_ref counts the areas of a shmem_struct.
RefsExact ==
    Running =>
    /\ \A p \in 1..NPages :
         /\ k.ref[p] = Cardinality({x \in Mapped : PteOf(x) = p}) + Cardinality(Entries(p))
         /\ p \in k.used <=> k.ref[p] > 0
    /\ \A h \in Shmems : k.shmem[h].ref = Cardinality(AreasOf(h))

\* The page at x is one that area v gives: a page of its own, or the one that
\* the shmem_struct has at that offset.  (An area with VM_SHARE and no
\* shmem_struct is what is left of a split: README, section 3.)
GivenBy(v, x) ==
    CASE v.shm = "private" -> k.ref[PteOf(x)] = 1
      [] v.shm = "NULL" -> TRUE
      [] OTHER -> PteOf(x) = k.shmem[v.shm].entry[x[2] - v.s + v.off]

\* Every page a process can reach is given by one of its areas at that address:
\* a page of a private area is nobody else's, a shared area shows the page its
\* shmem_struct has at that offset, in every process and after every partial
\* unmap (do_pgfault, vma_resize, copy_range).  Where areas overlap after a brk,
\* one of them gives the page, and none outlives it.
Isolation ==
    Running => \A x \in Mapped :
        \E i \in find_vma(k, x[1], x[2]) : GivenBy(Areas(k, x[1])[i], x)

\* The areas of an address space are within user space, and unless its heap was
\* grown over one of them (mm_brk) they are in order and disjoint, and
\* get_unmapped_area only proposes a place that is free.
LayoutSound ==
    Running => \A m \in Mms :
        LET L == Areas(k, m)
        IN  /\ \A i \in DOMAIN L : 1 <= L[i].s /\ L[i].s < L[i].e /\ L[i].e <= Top
            /\ ~k.mm[m].over =>
                 /\ \A i, j \in DOMAIN L : i < j => L[i].e <= L[j].s
                 /\ \A len \in 1..Top :
                      LET a == get_unmapped_area(k, m, len)
                      IN  a # 0 => \A i \in DOMAIN L : ~Overlap(Private(a, a + len), L[i])

\* check_vma_overlap: no area is inserted over another.  (Broken by an mmap
\* whose start lies in a hole below another area, and by a fork after the heap
\* was grown over one: README, section 3.)
NoOverlap == k.panic # "check_vma_overlap"

\* The heap never covers another area.  (Broken by a brk over an area that lies
\* above the heap, which mm_brk does not look for: README, section 3.)
HeapApart == \A m \in Mms : ~k.mm[m].over
=============================================================================
