------------------------------ MODULE VmaIndex -------------------------------
(***************************************************************************)
(* How vmm.c finds the areas of an address space: the ordered mmap_list,   *)
(* the red-black tree mmap_tree that is built when there are               *)
(* RB_MIN_MAP_COUNT areas (if there is memory for it), and mmap_cache, the *)
(* area found last.  Vmm has the same operations with a set of areas.  An  *)
(* area is named by its vm_start, and end[s] is its vm_end.                *)
(***************************************************************************)
EXTENDS RbTree, SequencesExt

CONSTANTS
    RB_MIN_MAP_COUNT,
    Lens                \* lengths of new areas

VARIABLE x  \* list, end, tree (or <<>>), cache (or nil)

Addrs == 1..MaxNode
Boot == [list |-> <<>>, end |-> [s \in Addrs |-> 0], tree |-> <<>>, cache |-> nil]
Covers(v, s, a) == s <= a /\ a < v.end[s]
HasTree(v) == v.tree # <<>>

----------------------------------------------------------------------------
(* Look-up.  Both give nil if no area contains a.                          *)

RECURSIVE find_vma_rb(_, _, _)
find_vma_rb(v, n, a) ==
    IF n = nil \/ Covers(v, n, a) THEN n
    ELSE find_vma_rb(v, IF v.end[n] > a THEN v.tree.left[n] ELSE v.tree.right[n], a)

Linear(v, a) ==
    LET i == SelectInSeq(v.list, LAMBDA s : Covers(v, s, a)) IN IF i = 0 THEN nil ELSE v.list[i]

find_vma(v, a) ==
    IF v.cache # nil /\ Covers(v, v.cache, a) THEN v.cache
    ELSE IF HasTree(v) THEN find_vma_rb(v, TopNode(v.tree), a) ELSE Linear(v, a)

\* find_vma remembers what it found.
Found(v, a) == LET s == find_vma(v, a) IN IF s = nil THEN v ELSE [v EXCEPT !.cache = s]

----------------------------------------------------------------------------
(* Insertion and removal                                                   *)

RECURSIVE BuildTree(_, _)
BuildTree(t, list) == IF list = <<>> THEN t ELSE BuildTree(rb_insert(t, Head(list)), Tail(list))

\* the area before s in the list, by the tree or by walking the list
PrevByTree(v, s) == rb_node_prev(rb_insert(v.tree, s), s)
PrevByList(v, s) ==
    LET i == SelectLastInSeq(v.list, LAMBDA r : r <= s) IN IF i = 0 THEN nil ELSE v.list[i]
PrevArea(v, s) == IF HasTree(v) THEN PrevByTree(v, s) ELSE PrevByList(v, s)

\* created: rb_tree_create gets its memory, if it is called
insert_vma_struct(v, s, e, created) ==
    LET prev == PrevArea(v, s)
        at == IF prev = nil THEN 1 ELSE SelectInSeq(v.list, LAMBDA r : r = prev) + 1
        list == InsertAt(v.list, at, s)
    IN  [v EXCEPT !.list = list, !.end[s] = e,
                  !.tree = IF HasTree(v) THEN rb_insert(@, s)
                           ELSE IF created /\ Len(list) >= RB_MIN_MAP_COUNT
                           THEN BuildTree(rb_tree_create, list) ELSE @]

remove_vma_struct_KeepCache(v, s) ==
    [v EXCEPT !.list = SelectSeq(@, LAMBDA r : r # s),
              !.tree = IF HasTree(v) THEN rb_delete(@, s) ELSE @]

remove_vma_struct(v, s) ==
    [v EXCEPT !.list = SelectSeq(@, LAMBDA r : r # s), !.end[s] = 0,
              !.tree = IF HasTree(v) THEN rb_delete(@, s) ELSE @,
              !.cache = IF @ = s THEN nil ELSE @]

\* vma_resize in place: the area keeps its links, and starts at b from now on.
Swap(a, b, n) == IF n = a THEN b ELSE IF n = b THEN a ELSE n
Renamed(f, a, b) == [n \in Nodes |-> Swap(a, b, f[Swap(a, b, n)])]
vma_resize(v, s, b) ==
    [v EXCEPT !.list = [i \in DOMAIN @ |-> Swap(s, b, @[i])],
              !.end = [@ EXCEPT ![b] = v.end[s], ![s] = 0],
              !.cache = Swap(s, b, @),
              !.tree = IF ~HasTree(v) THEN @
                       ELSE [left |-> Renamed(@.left, s, b), right |-> Renamed(@.right, s, b),
                             parent |-> Renamed(@.parent, s, b),
                             red |-> [n \in Nodes |-> v.tree.red[Swap(s, b, n)]]]]

----------------------------------------------------------------------------
(* Operations                                                              *)

Init == x = Boot

\* rb_tree_create is called only where there is no tree.
Outcomes == IF HasTree(x) THEN {TRUE} ELSE BOOLEAN

\* mm_map of a free range (for one that is not, see Vmm)
Map(s, e, created) ==
    /\ \A a \in s..e - 1, r \in ToSet(x.list) : ~Covers(x, r, a)
    /\ x' = insert_vma_struct(Found(x, s), s, e, created)

\* The parts of the removed areas R outside a..b-1 come back, the last one first.
RECURSIVE Reinsert(_, _, _, _, _, _)
Reinsert(v, R, end, a, b, created) ==
    IF R = <<>> THEN v
    ELSE LET s == Last(R)
         IN  Reinsert(CASE s < a -> insert_vma_struct(v, s, a, created)
                        [] s >= a /\ b < end[s] -> insert_vma_struct(v, b, end[s], created)
                        [] OTHER -> v, Front(R), end, a, b, created)

RECURSIVE RemoveAll(_, _)
RemoveAll(v, R) == IF R = <<>> THEN v ELSE RemoveAll(remove_vma_struct(v, Head(R)), Tail(R))

\* mm_unmap
Unmap(a, b, created) ==
    LET v == Found(x, a)
        s == find_vma(x, a)
        R == SelectSeq(x.list, LAMBDA r : s <= r /\ r < b)
    IN  /\ s # nil
        /\ x' = IF s < a /\ b < x.end[s]
                THEN insert_vma_struct(vma_resize(v, s, b), s, a, created)
                ELSE Reinsert(RemoveAll(v, R), R, x.end, a, b, created)

\* a page fault, or any other call that only looks an address up
Find(a) == x' = Found(x, a)

\* exit_mmap and mm_destroy; a new process gets an address space without areas
Destroy == x' = Boot

Next ==
    \/ \E s \in Addrs, len \in Lens, c \in Outcomes :
         s + len <= MaxNode + 1 /\ Map(s, s + len, c)
    \/ \E a \in Addrs : \E b \in a + 1..MaxNode + 1, c \in Outcomes : Unmap(a, b, c)
    \/ \E a \in Addrs : Find(a)
    \/ Destroy

Spec == Init /\ [][Next]_x

----------------------------------------------------------------------------
(* Properties                                                              *)

\* Through any maps, partial unmaps and splits the list is in order and without
\* overlap, the tree is a balanced search tree (check_tree) of the same areas,
\* and the cache names one of them.
IndexSound ==
    /\ \A i \in 1..Len(x.list) - 1 : x.end[x.list[i]] <= x.list[i + 1]
    /\ x.cache # nil => Contains(x.list, x.cache)
    /\ HasTree(x) => check_tree(x.tree) /\ InOrder(x.tree, TopNode(x.tree)) = x.list

\* find_vma gives the area that contains the address, or none if there is none,
\* whether it looks in the cache, the tree or the list.
FindExact ==
    \A a \in Addrs :
        find_vma(x, a) = LET C == {s \in ToSet(x.list) : Covers(x, s, a)}
                         IN  IF C = {} THEN nil ELSE CHOOSE s \in C : TRUE
=============================================================================
