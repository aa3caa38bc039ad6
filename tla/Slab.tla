-------------------------------- MODULE Slab --------------------------------
(***************************************************************************)
(* kmalloc and kfree, mm/slab.c.  slab_lock is held from the first to the  *)
(* last line of both, so each is one action, for any number of processors. *)
(* A slab is its block of pages, which alloc_pages hands out and may       *)
(* refuse; an object is <<slab, index>>.  The control part of a slab of an *)
(* off_slab cache is an object of another cache (slab_cachep).             *)
(***************************************************************************)
EXTENDS Naturals, Sequences, SequencesExt, FiniteSets

CONSTANTS
    Blocks,         \* the page blocks, a set of numbers
    Caches,         \* the slab_cache array
    Num,            \* cachep->num, by cache
    SlabCachep      \* cachep->slab_cachep, "none" if not off_slab

VARIABLES
    mem,    \* [free_pages, slab, slabs_notfull, slabs_full]
    held    \* the objects callers hold

vars == <<mem, held>>

NULL == <<>>
NoSlab == [cache |-> "none"]
BUFCTL_END == 99999

Init ==
    /\ mem = [free_pages |-> Blocks, slab |-> [b \in Blocks |-> NoSlab],
              slabs_notfull |-> [c \in Caches |-> <<>>],
              slabs_full |-> [c \in Caches |-> <<>>], panic |-> FALSE]
    /\ held = {}

\* __kmem_cache_alloc_one
AllocOne(m, c, b) ==
    LET s    == m.slab[b]
        next == s.bufctl[s.free]
        t    == [m EXCEPT !.slab[b].inuse = @ + 1, !.slab[b].free = next]
    IN  [obj |-> <<b, s.free>>,
         m   |-> IF next # BUFCTL_END THEN t
                 ELSE [t EXCEPT !.slabs_notfull[c] = Remove(@, b),
                                !.slabs_full[c] = <<b>> \o @]]

\* the new slab of kmem_cache_grow, controlled by the object ctl
NewSlab(m, c, b, ctl) ==
    [m EXCEPT !.free_pages = @ \ {b},
              !.slab[b] = [cache |-> c, inuse |-> 0, free |-> 0, ctl |-> ctl,
                           bufctl |-> [i \in 0..Num[c] - 1 |->
                                         IF i = Num[c] - 1 THEN BUFCTL_END ELSE i + 1]],
              !.slabs_notfull[c] = <<b>> \o @]

\* kmem_cache_alloc with kmem_cache_grow: alloc_pages first, then the control
\* part, which may itself make slab_cachep grow; without it the pages go back
RECURSIVE CacheAlloc(_, _)
CacheAlloc(m, c) ==
    IF m.slabs_notfull[c] # <<>> THEN AllocOne(m, c, Head(m.slabs_notfull[c]))
    ELSE IF m.free_pages = {} THEN [obj |-> NULL, m |-> m]
    ELSE LET b == CHOOSE b \in m.free_pages : \A d \in m.free_pages : b <= d
             g == CacheAlloc([m EXCEPT !.free_pages = @ \ {b}], SlabCachep[c])
         IN  IF SlabCachep[c] = "none" THEN AllocOne(NewSlab(m, c, b, NULL), c, b)
             ELSE IF g.obj = NULL THEN [obj |-> NULL, m |-> m]
             ELSE AllocOne(NewSlab(g.m, c, b, g.obj), c, b)

FreeOne_NoRelist(m, c, o) ==
    [m EXCEPT !.slab[o[1]].bufctl[o[2]] = m.slab[o[1]].free,
              !.slab[o[1]].free = o[2], !.slab[o[1]].inuse = @ - 1]

\* __kmem_cache_free_one for a slab that stays: a full slab is not full now
FreeOne(m, c, o) ==
    LET b == o[1]
        t == [m EXCEPT !.slab[b].bufctl[o[2]] = m.slab[b].free,
                       !.slab[b].free = o[2], !.slab[b].inuse = @ - 1]
    IN  IF t.slab[b].inuse # Num[c] - 1 THEN t
        ELSE [t EXCEPT !.slabs_full[c] = Remove(@, b),
                       !.slabs_notfull[c] = <<b>> \o Remove(@, b)]

\* kmem_cache_free: the last object takes the slab with it (kmem_slab_destroy),
\* and the control part after it
RECURSIVE CacheFree(_, _)
CacheFree(m, o) ==
    LET b == o[1]
        s == m.slab[b]
        d == [m EXCEPT !.slab[b] = NoSlab, !.free_pages = @ \cup {b},
                       !.slabs_full[s.cache] = Remove(@, b),
                       !.slabs_notfull[s.cache] = Remove(@, b)]
    IN  IF s = NoSlab THEN [m EXCEPT !.panic = TRUE]    \* not a slab page
        ELSE IF s.inuse # 1 THEN FreeOne(m, s.cache, o)
        ELSE IF s.ctl = NULL THEN d ELSE CacheFree(d, s.ctl)

kmalloc(c) ==
    LET a == CacheAlloc(mem, c)
    IN  /\ mem' = a.m
        /\ held' = IF a.obj = NULL THEN held ELSE held \cup {a.obj}

kfree(o) ==
    /\ o \in held
    /\ mem' = CacheFree(mem, o)
    /\ held' = held \ {o}

Next == (\E c \in Caches : kmalloc(c)) \/ (\E o \in held : kfree(o))

Spec == Init /\ [][Next]_vars

----------------------------------------------------------------------------
(* Properties                                                              *)

Slabs(c) == {b \in Blocks : mem.slab[b].cache = c}
AllSlabs == UNION {Slabs(c) : c \in Caches}
Controls == {mem.slab[b].ctl : b \in AllSlabs} \ {NULL}

\* the free objects of slab b: the chain from slabp->free through bufctl
RECURSIVE Chain(_, _)
Chain(s, i) == IF i = BUFCTL_END THEN {} ELSE {i} \cup Chain(s, s.bufctl[i])

\* No object has two owners and none is lost: the objects off a slab's free
\* chain are those that callers hold and those that control another slab; a
\* slab is on the list its state asks for; an empty one does not exist, so
\* that pages come back (also when kmem_cache_grow fails half way).
ObjectsAccounted ==
    /\ ~mem.panic
    /\ \A c \in Caches : \A b \in Slabs(c) :
         LET s == mem.slab[b]
             used == (0..Num[c] - 1) \ Chain(s, s.free)
         IN  /\ used # {} /\ s.inuse = Cardinality(used)
             /\ {<<b, i>> : i \in used} = {o \in held \cup Controls : o[1] = b}
             /\ Contains(mem.slabs_full[c], b) <=> s.inuse = Num[c]
             /\ Contains(mem.slabs_notfull[c], b) <=> s.inuse < Num[c]
    /\ held \cap Controls = {}
    /\ \A a, b \in AllSlabs : mem.slab[a].ctl = mem.slab[b].ctl =>
                              a = b \/ mem.slab[a].ctl = NULL
    /\ mem.free_pages = Blocks \ AllSlabs
=============================================================================
