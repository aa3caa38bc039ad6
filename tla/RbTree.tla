------------------------------- MODULE RbTree --------------------------------
(***************************************************************************)
(* libs/rb_tree.c.  A tree is four functions on nodes: left, right, parent *)
(* and red.  Nodes are numbers, and COMPARE orders them as numbers.  nil   *)
(* and root are the two nodes every tree has; root.left is the top.  What  *)
(* an operation leaves in nil.parent is never read by a later one (nil     *)
(* "may have arbitrary children and parent node"), so it is cleared.       *)
(***************************************************************************)
EXTENDS Integers, Sequences, FiniteSets

CONSTANT MaxNode

nil == 0
root == -1
Nodes == {nil, root} \cup 1..MaxNode
NoNode == [n \in Nodes |-> nil]

rb_tree_create ==
    [left |-> NoNode, right |-> NoNode, parent |-> NoNode, red |-> [n \in Nodes |-> FALSE]]

Opposite(d) == IF d = "left" THEN "right" ELSE "left"
TopNode(t) == t.left[root]
\* the side on which x hangs from its parent
SideOf(t, x) == IF x = t.left[t.parent[x]] THEN "left" ELSE "right"
Paint(t, x, red) == [t EXCEPT !.red[x] = red]

\* FUNC_ROTATE: rb_left_rotate for d = "left", rb_right_rotate for "right"
Rotate(t, d, x) ==
    LET o == Opposite(d)
        y == t[o][x]
        inner == t[d][y]
        s == [t EXCEPT ![o][x] = inner, ![SideOf(t, x)][t.parent[x]] = y,
                       !.parent[y] = t.parent[x], !.parent[x] = y]
        u == [s EXCEPT ![d][y] = x]
    IN  IF inner = nil THEN u ELSE [u EXCEPT !.parent[inner] = x]

----------------------------------------------------------------------------
(* rb_insert                                                               *)

\* the node below which rb_insert_binary puts n; root in an empty tree
RECURSIVE LeafFor(_, _, _, _)
LeafFor(t, x, y, n) ==
    IF x = nil THEN y ELSE LeafFor(t, IF x > n THEN t.left[x] ELSE t.right[x], x, n)

rb_insert_binary(t, n) ==
    LET y == LeafFor(t, TopNode(t), root, n)
        d == IF y = root \/ y > n THEN "left" ELSE "right"
    IN  [t EXCEPT !.left[n] = nil, !.right[n] = nil, !.parent[n] = y, ![d][y] = n]

\* Two red nodes in a row: x and its parent p.
InsertRepaint(t, x) ==
    LET p == t.parent[x]
        g == t.parent[p]
    IN  Paint(Paint(Paint(t, p, FALSE), t[Opposite(SideOf(t, p))][g], FALSE), g, TRUE)

InsertRotate(t, d, x) ==
    LET p == t.parent[x]
        g == t.parent[p]
    IN  Rotate(Paint(Paint(t, p, FALSE), g, TRUE), Opposite(d), g)

RECURSIVE InsertFixup(_, _)
InsertFixup(t, x) ==
    LET p == t.parent[x]
        g == t.parent[p]
        d == SideOf(t, p)
        o == Opposite(d)
    IN  CASE ~t.red[p] -> Paint(t, TopNode(t), FALSE)
          [] t.red[p] /\ t.red[t[o][g]] -> InsertFixup(InsertRepaint(t, x), g)
          [] t.red[p] /\ ~t.red[t[o][g]] /\ x = t[o][p] ->
               InsertFixup(InsertRotate(Rotate(t, d, p), d, p), p)
          [] OTHER -> InsertFixup(InsertRotate(t, d, x), x)

rb_insert(t, n) == InsertFixup(Paint(rb_insert_binary(t, n), n, TRUE), n)

----------------------------------------------------------------------------
(* Neighbours                                                              *)

\* the last node down the side d from x
RECURSIVE Outermost(_, _, _)
Outermost(t, d, x) == IF t[d][x] = nil THEN x ELSE Outermost(t, d, t[d][x])

RECURSIVE UpToRightTurn(_, _)
UpToRightTurn(t, x) ==
    LET y == t.parent[x]
    IN  IF x # t.left[y] THEN y
        ELSE IF y = root THEN nil ELSE UpToRightTurn(t, y)

\* rb_tree_predecessor
rb_node_prev(t, x) ==
    IF t.left[x] # nil THEN Outermost(t, "right", t.left[x]) ELSE UpToRightTurn(t, x)

----------------------------------------------------------------------------
(* rb_delete                                                               *)

\* One round of rb_delete_fixup.  x is one black node short; w is its sibling.
\* A red sibling is turned away first.
BlackSibling(t, d, p) ==
    LET w == t[Opposite(d)][p]
    IN  IF t.red[w] THEN Rotate(Paint(Paint(t, w, FALSE), p, TRUE), d, p) ELSE t

\* The far child of w becomes red, if it is not.
RedFarChild(t, d, w) ==
    IF t.red[t[Opposite(d)][w]] THEN t
    ELSE Rotate(Paint(Paint(t, t[d][w], FALSE), w, TRUE), Opposite(d), w)

LastRotate(t, d, p) ==
    LET w == t[Opposite(d)][p]
        s == Paint(Paint(t, w, t.red[p]), p, FALSE)
    IN  Rotate(Paint(s, s[Opposite(d)][w], FALSE), d, p)

\* top is tree->root->left before the first round.
RECURSIVE rb_delete_fixup(_, _, _)
rb_delete_fixup(t, x, top) ==
    IF x = top \/ t.red[x] THEN Paint(t, x, FALSE)
    ELSE LET p == t.parent[x]
             d == SideOf(t, x)
             s == BlackSibling(t, d, p)
             w == s[Opposite(d)][p]
         IN  IF ~s.red[s.left[w]] /\ ~s.red[s.right[w]]
             THEN rb_delete_fixup(Paint(s, w, TRUE), p, top)
             ELSE rb_delete_fixup(LastRotate(RedFarChild(s, d, w), d, p), top, top)

\* y leaves its place, x takes it.
Unlinked(t, y, x) == [t EXCEPT ![SideOf(t, y)][t.parent[y]] = x, !.parent[x] = t.parent[y]]

\* y takes the place, the children and the colour of z.
Replaced(t, z, y) ==
    LET s == [t EXCEPT ![SideOf(t, z)][t.parent[z]] = y,
                       !.parent[t.left[z]] = y, !.parent[t.right[z]] = y]
    IN  [s EXCEPT !.left[y] = s.left[z], !.right[y] = s.right[z],
                  !.parent[y] = s.parent[z], !.red[y] = s.red[z]]

\* z is no longer a node of the tree.
Forget(t, z) ==
    [t EXCEPT !.left[z] = nil, !.right[z] = nil, !.parent[z] = nil, !.red[z] = FALSE,
              !.parent[nil] = nil]

NeedFixup_RedOnly(t, y) == t.red[y]
NeedFixup(t, y) == ~t.red[y]

rb_delete(t, z) ==
    LET y == IF t.left[z] = nil \/ t.right[z] = nil THEN z
             ELSE Outermost(t, "left", t.right[z])
        x == IF t.left[y] # nil THEN t.left[y] ELSE t.right[y]
        s == Unlinked(t, y, x)
        u == IF y = z THEN s ELSE Replaced(s, z, y)
    IN  Forget(IF NeedFixup(t, y) THEN rb_delete_fixup(u, x, TopNode(u)) ELSE u, z)

----------------------------------------------------------------------------
(* check_tree, as a reference                                              *)

RECURSIVE InOrder(_, _)
InOrder(t, x) ==
    IF x = nil THEN <<>> ELSE InOrder(t, t.left[x]) \o <<x>> \o InOrder(t, t.right[x])

\* the black nodes on the way down from x, if that is the same everywhere
RECURSIVE BlackHeight(_, _)
BlackHeight(t, x) ==
    IF x = nil THEN 1
    ELSE LET l == BlackHeight(t, t.left[x])
             r == BlackHeight(t, t.right[x])
         IN  IF l # r \/ l = 0 THEN 0 ELSE l + (IF t.red[x] THEN 0 ELSE 1)

\* the nodes in the tree
Linked(t) == {n \in 1..MaxNode : t.parent[n] # nil}

check_tree(t) ==
    /\ ~t.red[nil] /\ ~t.red[root] /\ ~t.red[TopNode(t)]
    /\ TopNode(t) # nil => t.parent[TopNode(t)] = root
    /\ BlackHeight(t, TopNode(t)) > 0
    /\ \A n \in Linked(t), d \in {"left", "right"} :
         /\ t[d][n] # nil => t.parent[t[d][n]] = n
         /\ t.red[n] => ~t.red[t[d][n]]

\* Walking the tree from left to right gives its nodes in order.
Ordered(t) ==
    LET s == InOrder(t, TopNode(t))
    IN  /\ Len(s) = Cardinality(Linked(t))
        /\ \A i \in 1..Len(s) - 1 : s[i] < s[i + 1]
=============================================================================
