------------------------------ MODULE MCMemory ------------------------------
(***************************************************************************)
(* Memory on small instances: address spaces (Vmm) without a heap, and     *)
(* with one that has room to grow over other areas; the page allocator     *)
(* (Buddy), the object allocator (Slab), what processes share and release  *)
(* (Resources), the index of the areas (VmaIndex), and its tree (RbTree)   *)
(* with more nodes.  Each behaviour is one of one of these; which says of  *)
(* which.                                                                  *)
(***************************************************************************)
EXTENDS Vmm, TLC

CONSTANTS
    HeapTop, HeapStart, HeapAreas, HeapLens, HeapPages,     \* of Vmm with a heap
    ZonePages, ZoneMaxOrder,    \* of Buddy
    SlabBlocks,                 \* of Slab
    Threads, Shares,            \* of Resources
    IndexTop, TreeNodes         \* of VmaIndex and RbTree

VARIABLES which, free_list, failed, mem, held, r, x

\* A cache of small objects, and one whose slabs it controls.
SlabCaches == {"small", "big"}
Heap == INSTANCE Vmm WITH Top <- HeapTop, BrkStart <- HeapStart, MaxAreas <- HeapAreas,
    ShmemLens <- HeapLens, NPages <- HeapPages
Zone == INSTANCE Buddy WITH NPages <- ZonePages, MaxOrder <- ZoneMaxOrder
Objects == INSTANCE Slab WITH Blocks <- SlabBlocks, Caches <- SlabCaches,
    Num <- [c \in SlabCaches |-> 2],
    SlabCachep <- [c \in SlabCaches |-> IF c = "small" THEN "none" ELSE "small"]
Shared == INSTANCE Resources WITH Procs <- Threads, First <- 1

Index == INSTANCE VmaIndex WITH MaxNode <- IndexTop, RB_MIN_MAP_COUNT <- 3, Lens <- {1, 3}
Tree == INSTANCE RbTree WITH MaxNode <- TreeNodes

\* A tree x alone, and its two operations.
TreeNext ==
    \/ \E n \in 1..TreeNodes \ Tree!Linked(x) : x' = Tree!rb_insert(x, n)
    \/ \E n \in Tree!Linked(x) : x' = Tree!rb_delete(x, n)

Unused(z) == z = "unused"

MemInit ==
    \/ /\ (which = "vmm" /\ Init) \/ (which = "heap" /\ Heap!Init)
       /\ Unused(free_list) /\ Unused(failed) /\ Unused(mem) /\ Unused(held)
       /\ Unused(r) /\ Unused(x)
    \/ /\ which = "buddy" /\ Zone!Init /\ Unused(k) /\ Unused(mem) /\ Unused(r)
       /\ Unused(x)
    \/ /\ which = "slab" /\ Objects!Init
       /\ Unused(k) /\ Unused(free_list) /\ Unused(failed) /\ Unused(r) /\ Unused(x)
    \/ /\ which = "resources" /\ Shared!Init
       /\ Unused(k) /\ Unused(free_list) /\ Unused(failed) /\ Unused(mem) /\ Unused(held)
       /\ Unused(x)
    \/ /\ which \in {"index", "tree"}
       /\ IF which = "index" THEN Index!Init ELSE x = Tree!rb_tree_create
       /\ Unused(k) /\ Unused(free_list) /\ Unused(failed) /\ Unused(mem) /\ Unused(held)
       /\ Unused(r)

MemNext ==
    \/ which = "vmm" /\ Next /\ UNCHANGED <<which, free_list, failed, mem, held, r, x>>
    \/ which = "heap" /\ Heap!Next /\ UNCHANGED <<which, free_list, failed, mem, held, r, x>>
    \/ which = "buddy" /\ Zone!Next /\ UNCHANGED <<which, k, mem, r, x>>
    \/ which = "slab" /\ Objects!Next /\ UNCHANGED <<which, k, free_list, failed, r, x>>
    \/ which = "resources" /\ Shared!Next
       /\ UNCHANGED <<which, k, free_list, failed, mem, held, x>>
    \/ which = "index" /\ Index!Next
       /\ UNCHANGED <<which, k, free_list, failed, mem, held, r>>
    \/ which = "tree" /\ TreeNext
       /\ UNCHANGED <<which, k, free_list, failed, mem, held, r>>

MemSpec == MemInit /\ [][MemNext]_<<which, k, free_list, failed, mem, held, r, x>>

\* No definition tells one address space, or one shmem_struct, from another.
Symmetry == Permutations(Mms) \cup Permutations(Shmems)

\* Vmm!RefsExact: the reference counts of pages and shared objects are exact.
PageRefsExact ==
    /\ which = "vmm" => RefsExact
    /\ which = "heap" => Heap!RefsExact

\* Vmm!Isolation: a page of a private area is nobody else's, a shared area
\* shows the page that its shmem_struct has at that offset, and no page stays
\* without an area, also where the heap was grown over another area.
AreasIsolated ==
    /\ which = "vmm" => Isolation
    /\ which = "heap" => Heap!Isolation

\* Vmm!LayoutSound: the areas of an address space are within user space and,
\* until its heap is grown over one of them, in order and disjoint, and
\* get_unmapped_area only proposes a free place.
\* VmaIndex!IndexSound and FindExact: list, tree and cache of areas agree, and
\* find_vma finds by any of them what is there; rb_insert and rb_delete keep
\* every tree in order and balanced (check_tree).
AreasLaidOut ==
    /\ which = "vmm" => LayoutSound
    /\ which = "heap" => Heap!LayoutSound
    /\ which = "index" => Index!IndexSound /\ Index!FindExact
    /\ which = "tree" => Tree!check_tree(x) /\ Tree!Ordered(x)

\* Buddy!PagesPartitioned and Buddy!BuddiesMerged: every page is in exactly one
\* free or held block, and no two free buddies stay apart.
PagesAccounted ==
    which = "buddy" => Zone!PagesPartitioned /\ Zone!BuddiesMerged

\* Slab!ObjectsAccounted: no object of kmalloc has two owners and none is lost.
KmallocAccounted == which = "slab" => Objects!ObjectsAccounted

\* Resources!RefsExact: what do_fork copies or shares is counted once for each
\* process that uses it, at whatever step a do_fork runs out of memory.
SharedExactly == which = "resources" => Shared!RefsExact
=============================================================================
