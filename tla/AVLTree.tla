------------------------------ MODULE AVLTree ------------------------------
(***************************************************************************)
(* The AVL tree of Data Structures ex1 (AVLTree.py): nodes with left,      *)
(* right and parent, and the cached fields height, min, max and size that  *)
(* every operation reads instead of walking the tree.                      *)
(*                                                                         *)
(* A node is named by its key where it can be; None is 0.  Values, and the *)
(* counts of re-balancing operations that the methods return, are left     *)
(* out.  A call that raises (AttributeError on None, RecursionError) ends  *)
(* the behaviour; the model keeps the trees of before the call, where the  *)
(* code has re-hung nodes by then.                                         *)
(*                                                                         *)
(* Some calls lose whole subtrees.  Avoided names those that the callers   *)
(* do not make: with "root" they delete no root that has two children,     *)
(* with "one height" they join no trees of one height, with "damage" they  *)
(* stop at the first tree that is not Sound.                               *)
(***************************************************************************)
EXTENDS Integers, Sequences, FiniteSets, FiniteSetsExt

CONSTANTS Trees,      \* the AVLTree objects of the callers
          Keys,       \* the keys they use
          Built,      \* the keys inserted into each tree before the calls, in order
          MaxCalls,   \* calls after that (bound)
          Avoided     \* what the callers keep clear of

TreeAssumption == /\ Keys \subseteq Nat \ {0}
                  /\ Built \subseteq [Trees -> Seq(Keys)]
                  /\ MaxCalls \in Nat
                  /\ Avoided \subseteq {"root", "one height", "damage"}

None == 0
Spare == {Max(Keys) + 1, Max(Keys) + 2}     \* names while a deleted node is still pointed at
Nodes == Keys \cup Spare
Ref == Nodes \cup {None}
AVLNode == [key: Keys \cup {None}, left: Ref, right: Ref, parent: Ref,
            height: Int, min: Ref, max: Ref, size: Int]
Memory == [Nodes -> AVLNode]

VARIABLES node,     \* the AVLNode objects
          root,     \* root[t]
          raised,   \* the method that has raised, or "none"
          calls     \* the calls made

vars == <<node, root, raised, calls>>

Virtual == [key |-> None, left |-> None, right |-> None, parent |-> None,
            height |-> -1, min |-> None, max |-> None, size |-> 0]

-----------------------------------------------------------------------------
(* AVLNode.  N is the node function at the time of the call.               *)

is_real_node(N, n) == n # None /\ N[n].key # None

heightOf(N, n) == IF is_real_node(N, n) THEN N[n].height ELSE -1
sizeOf(N, n) == IF is_real_node(N, n) THEN N[n].size ELSE 0

update_fields(N, n) ==
  LET l == N[n].left
      r == N[n].right
  IN [N EXCEPT ![n].height = Max({heightOf(N, l), heightOf(N, r)}) + 1,
               ![n].min = IF is_real_node(N, l) THEN N[l].min ELSE n,
               ![n].max = IF is_real_node(N, r) THEN N[r].max ELSE n,
               ![n].size = sizeOf(N, l) + sizeOf(N, r) + 1]

balance_factor(N, n) == IF is_real_node(N, n) THEN heightOf(N, N[n].left) - heightOf(N, N[n].right) ELSE 0

child_parent_pointers(N, n, parent, direction) ==
  LET up == [N EXCEPT ![n].parent = parent]
  IN CASE ~is_real_node(N, parent) -> up
       [] direction = "L"          -> [up EXCEPT ![parent].left = n]
       [] OTHER                    -> [up EXCEPT ![parent].right = n]

sideOf(N, n, parent) == IF N[n].key < N[parent].key THEN "L" ELSE "R"

set_virtual(N, n) == [N EXCEPT ![n] = Virtual]

-----------------------------------------------------------------------------
(* Rotations and re_balance work on st: the nodes, the root of the tree    *)
(* the method is called on, and whether it has raised.                     *)

\* n and new_child have changed places in N: their fields, and what was above n, follow.
rotation_action(st, N, n, new_child) ==
  LET grandparent == st.node[n].parent
      hung(M) == IF is_real_node(M, grandparent)
                 THEN update_fields(child_parent_pointers(M, new_child, grandparent, sideOf(M, n, grandparent)),
                                    grandparent)
                 ELSE [M EXCEPT ![new_child].parent = grandparent]
      below == update_fields(update_fields([N EXCEPT ![n].parent = new_child], n), new_child)
  IN [st EXCEPT !.node = hung(below), !.root = IF N[@].key = N[n].key THEN new_child ELSE @]

\* The new child goes above n, and the subtree moved between them changes sides.
turn(N, direction, n, new_child, moved) ==
  IF direction = "L" THEN [N EXCEPT ![n].right = moved, ![new_child].left = n]
                     ELSE [N EXCEPT ![n].left = moved, ![new_child].right = n]

\* Mutant: the subtree that changes sides keeps its old parent.
rotationOrphans(st, direction, n) ==
  LET N == st.node
      new_child == IF direction = "L" THEN N[n].right ELSE N[n].left
      moved == IF direction = "L" THEN N[new_child].left ELSE N[new_child].right
  IN IF new_child = None \/ st.root = None THEN [st EXCEPT !.raised = TRUE]
     ELSE rotation_action(st, turn(N, direction, n, new_child, moved), n, new_child)

rotation(st, direction, n) ==
  LET N == st.node
      new_child == IF direction = "L" THEN N[n].right ELSE N[n].left
      moved == IF direction = "L" THEN N[new_child].left ELSE N[new_child].right
      owned(M) == IF is_real_node(M, moved) THEN [M EXCEPT ![moved].parent = n] ELSE M
  IN IF new_child = None \/ st.root = None THEN [st EXCEPT !.raised = TRUE]
     ELSE rotation_action(st, owned(turn(N, direction, n, new_child, moved)), n, new_child)

\* The rotations of one level of re_balance: first of n's child, if that leans the other way.
Rotated(st, n, post_insertion) ==
  LET factor(m) == balance_factor(st.node, m)
      heavyRight == factor(n) = -2
      child == IF heavyRight THEN st.node[n].right ELSE st.node[n].left
      double == IF heavyRight THEN ~(factor(child) = -1 \/ (factor(child) = 0 /\ ~post_insertion))
                ELSE factor(child) = -1
      second(first) == IF first.raised THEN first ELSE rotation(first, IF heavyRight THEN "L" ELSE "R", n)
  IN IF factor(n) \notin {-2, 2} THEN st
     ELSE second(IF double THEN rotation(st, IF heavyRight THEN "R" ELSE "L", child) ELSE st)

\* All the way up; a circle of parents ends in RecursionError.
re_balance(start, from, post_insertion) ==
  LET up[st \in [node: Memory, root: Ref, raised: BOOLEAN], n \in Nodes, depth \in Nat] ==
        LET grandparent == st.node[n].parent
            go(after) == CASE after.raised -> after
                           [] ~after.raised /\ ~is_real_node(after.node, grandparent) -> after
                           [] depth = 3 * Cardinality(Nodes) -> [after EXCEPT !.raised = TRUE]
                           [] OTHER -> up[after, grandparent, depth + 1]
        IN go(Rotated([st EXCEPT !.node = update_fields(st.node, n)], n, post_insertion))
  IN up[start, from, 0]

-----------------------------------------------------------------------------
(* insert and delete.                                                      *)

Reach(N, n) ==
  LET grow[S \in SUBSET Nodes] ==
        LET T == {m \in S \cup {N[m].left : m \in S} \cup {N[m].right : m \in S} : is_real_node(N, m)}
        IN IF T = S THEN S ELSE grow[T]
  IN grow[{m \in {n} : is_real_node(N, m)}]

\* The nodes that something alive points at, deleted ones included.
Pointed(N, roots) ==
  LET alive == UNION {Reach(N, r) : r \in roots}
  IN roots \cup alive \cup UNION {{N[n].parent, N[n].min, N[n].max} : n \in alive}

\* A new node is named by its key, unless something points at a deleted node of that name.
NewName(N, roots, k) ==
  IF k \notin Pointed(N, roots) THEN k ELSE CHOOSE n \in Spare : n \notin Pointed(N, roots)

\* Where insert hangs the new node: below the least or the greatest node, or where the search ends.
parentFor(N, r, k) ==
  LET side(n) == IF k < N[n].key THEN N[n].left ELSE N[n].right
      down[n \in Nodes] == IF is_real_node(N, side(n)) THEN down[side(n)] ELSE n
  IN CASE k < N[N[r].min].key -> N[r].min
       [] k > N[N[r].max].key -> N[r].max
       [] OTHER               -> down[r]

AsTree(N, r) == [node |-> N, root |-> r, raised |-> FALSE]

insert(N, r, k, n) ==
  LET single == update_fields([N EXCEPT ![n] = [Virtual EXCEPT !.key = k]], n)
      parent == parentFor(N, r, k)
      hung == child_parent_pointers(single, n, parent, IF k < N[parent].key THEN "L" ELSE "R")
  IN IF ~is_real_node(N, r) THEN AsTree(single, n)
     ELSE re_balance(AsTree(update_fields(hung, parent), r), parent, TRUE)

\* The successor takes node's place; only the fields of the successor, of its
\* old parent and of node's parent are brought up to date before re_balance.
deleteWithTwoChildren(N, r, n) ==
  LET left == N[n].left
      right == N[n].right
      parent == N[n].parent
      successor == N[right].min
      child == N[successor].right
      above == N[successor].parent
      L == child_parent_pointers(N, left, successor, "L")
      R == update_fields(child_parent_pointers(L, right, successor, "R"), successor)
      cut == IF is_real_node(N, child) THEN child_parent_pointers(R, child, above, "L")
             ELSE [R EXCEPT ![above].left = child]
      placed == IF successor = right THEN update_fields(L, successor) ELSE update_fields(cut, above)
      linked == IF is_real_node(N, parent)
                THEN update_fields(child_parent_pointers(placed, successor, parent, sideOf(N, n, parent)), parent)
                ELSE [placed EXCEPT ![successor].parent = parent]
  IN re_balance(AsTree(set_virtual(linked, n), r), successor, FALSE)

\* Mutant: the way up is not re-balanced.
deleteWithOneChildOnly(N, r, n) ==
  LET child == IF is_real_node(N, N[n].left) THEN N[n].left ELSE N[n].right
      parent == N[n].parent
      side == sideOf(N, n, parent)
      hung == IF is_real_node(N, child) THEN child_parent_pointers(N, child, parent, side)
              ELSE IF side = "L" THEN [N EXCEPT ![parent].left = None] ELSE [N EXCEPT ![parent].right = None]
      alone == update_fields([N EXCEPT ![child] = [Virtual EXCEPT !.key = N[child].key]], child)
  IN CASE is_real_node(N, parent) ->
            AsTree(set_virtual(update_fields(hung, parent), n), r)
       [] ~is_real_node(N, parent) /\ is_real_node(N, child) -> AsTree(set_virtual(alone, n), child)
       [] OTHER -> AsTree(set_virtual(N, n), None)

\* Mutant: node's child is taken for a leaf's.
deleteWithOneChildForgotten(N, r, n) ==
  LET parent == N[n].parent
      hung == IF sideOf(N, n, parent) = "L" THEN [N EXCEPT ![parent].left = None]
              ELSE [N EXCEPT ![parent].right = None]
  IN IF is_real_node(N, parent)
     THEN re_balance(AsTree(set_virtual(update_fields(hung, parent), n), r), parent, FALSE)
     ELSE AsTree(set_virtual(N, n), None)

\* With at most one child: the child (or None) takes node's place.
deleteWithOneChild(N, r, n) ==
  LET child == IF is_real_node(N, N[n].left) THEN N[n].left ELSE N[n].right
      parent == N[n].parent
      side == sideOf(N, n, parent)
      hung == IF is_real_node(N, child) THEN child_parent_pointers(N, child, parent, side)
              ELSE IF side = "L" THEN [N EXCEPT ![parent].left = None] ELSE [N EXCEPT ![parent].right = None]
      alone == update_fields([N EXCEPT ![child] = [Virtual EXCEPT !.key = N[child].key]], child)
  IN CASE is_real_node(N, parent) ->
            re_balance(AsTree(set_virtual(update_fields(hung, parent), n), r), parent, FALSE)
       [] ~is_real_node(N, parent) /\ is_real_node(N, child) -> AsTree(set_virtual(alone, n), child)
       [] OTHER -> AsTree(set_virtual(N, n), None)

hasTwoChildren(N, n) == is_real_node(N, N[n].left) /\ is_real_node(N, N[n].right)
delete(N, r, n) == IF hasTwoChildren(N, n) THEN deleteWithTwoChildren(N, r, n) ELSE deleteWithOneChild(N, r, n)

-----------------------------------------------------------------------------
(* join_with_node, join and split.                                         *)

\* n joins the tree of r1 with the tree of r2, on the side of r1 that r2 belongs to.
join_with_node(N, r1, r2, n) ==
  LET rising == N[N[r1].max].key < N[N[r2].min].key
      inner(m) == IF rising THEN N[m].right ELSE N[m].left
      down[m \in Ref] == IF is_real_node(N, m) /\ heightOf(N, r2) < N[m].height THEN down[inner(m)] ELSE m
      child == down[r1]
      parent == N[child].parent
      taken == [N EXCEPT ![n].left = IF rising THEN child ELSE r2,
                         ![n].right = IF rising THEN r2 ELSE child]
      linked == child_parent_pointers(taken, n, parent, IF rising THEN "R" ELSE "L")
      joined == update_fields(update_fields([linked EXCEPT ![child].parent = n, ![r2].parent = n], n), parent)
  IN IF ~is_real_node(N, r1) \/ ~is_real_node(N, r2) \/ child = None \/ parent = None
     THEN [node |-> N, root |-> r1, raised |-> TRUE]
     ELSE re_balance(AsTree(joined, r1), parent, FALSE)

join(N, r1, r2, k, n) ==
  LET high == IF N[r1].height < N[r2].height THEN r2 ELSE r1
      low == IF high = r1 THEN r2 ELSE r1
  IN CASE ~is_real_node(N, r1) /\ r2 = None -> [node |-> N, root |-> r1, raised |-> TRUE]
       [] ~is_real_node(N, r1) /\ r2 # None -> insert(N, r2, k, n)
       [] is_real_node(N, r1) /\ ~is_real_node(N, r2) -> insert(N, r1, k, n)
       [] OTHER -> join_with_node([N EXCEPT ![n] = [Virtual EXCEPT !.key = k]], high, low, n)

\* The way up from n: each parent joins one of the parts with its other subtree.
split(N, n) ==
  LET up[st \in [node: Memory, left: Ref, right: Ref, raised: BOOLEAN], m \in Nodes] ==
        LET M == st.node
            p == M[m].parent
            below == M[m].key < M[p].key
            go(joined) ==
              IF joined.raised THEN [st EXCEPT !.raised = TRUE]
              ELSE up[[node |-> joined.node, raised |-> FALSE,
                       left |-> IF below THEN st.left ELSE joined.root,
                       right |-> IF below THEN joined.root ELSE st.right], p]
        IN CASE p = None -> st
             [] p # None /\ ~is_real_node(M, p) -> [st EXCEPT !.raised = TRUE]
             [] OTHER -> go(IF below THEN join_with_node(M, st.right, M[p].right, p)
                            ELSE join_with_node(M, M[p].left, st.left, p))
  IN up[[node |-> N, left |-> N[n].left, right |-> N[n].right, raised |-> FALSE], n]

-----------------------------------------------------------------------------
(* What the trees hold.                                                    *)

\* in_order of a node and what is below it.  avl_to_array starts at the root so, and
\* raises when there is none.
in_order(N, r) ==
  LET list[n \in Ref] == IF is_real_node(N, n) THEN list[N[n].left] \o <<n>> \o list[N[n].right] ELSE << >>
  IN list[r]

nodesOf(t) == Reach(node, root[t])
nodeOf(t, k) == CHOOSE n \in nodesOf(t) : node[n].key = k
contents == [t \in Trees |-> {node[n].key : n \in nodesOf(t)}]

\* Every cached field is what the tree says, and no node is out of balance.
FieldsExact ==
  \A t \in Trees : \A n \in nodesOf(t) :
    /\ balance_factor(node, n) \in {-1, 0, 1}
    /\ update_fields(node, n) = node

\* The trees are balanced and every cached min and max, which insert, search and
\* get_successor follow, is exact; the cached heights and sizes may be wrong.
Sound ==
  LET tall[n \in Ref] == IF is_real_node(node, n) THEN 1 + Max({tall[node[n].left], tall[node[n].right]})
                         ELSE -1
  IN \A t \in Trees : \A n \in nodesOf(t) :
       LET exact == update_fields(node, n)[n]
       IN /\ node[n].min = exact.min /\ node[n].max = exact.max
          /\ tall[node[n].left] - tall[node[n].right] \in {-1, 0, 1}

\* Bound: MaxCalls.  Callers that avoid damage stop at the first tree that is not Sound.
Usable == raised = "none" /\ calls < MaxCalls /\ ("damage" \in Avoided => Sound)

\* Mutant: the maximum itself is taken to be out of range.
searchBelowMax(N, r, k) ==
  LET find[n \in Ref] ==
        CASE ~is_real_node(N, n) \/ k < N[N[n].min].key \/ k >= N[N[n].max].key -> None
          [] k = N[n].key        -> n
          [] k = N[N[n].min].key -> N[n].min
          [] k = N[N[n].max].key -> N[n].max
          [] k > N[n].key        -> find[N[n].right]
          [] OTHER               -> find[N[n].left]
  IN find[r]

search(N, r, k) ==
  LET find[n \in Ref] ==
        CASE ~is_real_node(N, n) \/ k < N[N[n].min].key \/ k > N[N[n].max].key -> None
          [] k = N[n].key        -> n
          [] k = N[N[n].min].key -> N[n].min
          [] k = N[N[n].max].key -> N[n].max
          [] k > N[n].key        -> find[N[n].right]
          [] OTHER               -> find[N[n].left]
  IN find[r]

-----------------------------------------------------------------------------
(* The calls.                                                              *)

\* The trees after inserting the keys of s[t] into each t.
build(s) ==
  LET single(N, list) ==
        LET next(before, k) == insert(before.node, before.root, k, k)
            add[k \in 0..Len(list)] == IF k = 0 THEN AsTree(N, None) ELSE next(add[k - 1], list[k])
        IN add[Len(list)]
      plus(before, t, tree) == [node |-> tree.node, root |-> [before.root EXCEPT ![t] = tree.root]]
      with(before, t) == plus(before, t, single(before.node, s[t]))
      grow[T \in SUBSET Trees] ==
        IF T = {} THEN [node |-> [n \in Nodes |-> Virtual], root |-> [t \in Trees |-> None]]
        ELSE LET t == CHOOSE u \in T : TRUE IN with(grow[T \ {t}], t)
  IN grow[Trees]

Init == /\ \E built \in {build(s) : s \in Built} : node = built.node /\ root = built.root
        /\ raised = "none"
        /\ calls = 0

\* A call returns with nodes N and the given roots, or it raises; nothing is called on
\* what a raising call leaves half-done, and the model does not say what that is.
Returns(N, roots) ==
  /\ node' = [n \in Nodes |-> IF n \in Pointed(N, {roots[t] : t \in Trees}) THEN N[n] ELSE Virtual]
  /\ root' = roots
  /\ UNCHANGED raised

Raises(method) == raised' = method /\ UNCHANGED <<node, root>>

\* The tree of t is what after holds; that of another u is used up.
Ends(method, after, t, u) ==
  IF after.raised THEN Raises(method)
  ELSE Returns(after.node, [root EXCEPT ![u] = None, ![t] = after.root])

used == {root[t] : t \in Trees}
allKeys == UNION {contents[t] : t \in Trees}

Insert(t, k) ==
  /\ k \notin allKeys
  /\ Ends("insert", insert(node, root[t], k, NewName(node, used, k)), t, t)

\* When a root with two children is deleted, self.root goes on naming the deleted node.
Delete(t, k) ==
  LET n == nodeOf(t, k)
  IN /\ k \in contents[t]
     /\ "root" \in Avoided => ~(n = root[t] /\ hasTwoChildren(node, n))
     /\ Ends("delete", delete(node, root[t], n), t, t)

\* The precondition of join.  When the trees have one height, join_with_node raises on the
\* parent of the root, or hangs the new node above a root that stays one.
Join(t, u, k) ==
  /\ t # u
  /\ (\A i \in contents[t] : i < k) /\ (\A j \in contents[u] : k < j)
  /\ "one height" \in Avoided => contents[t] = {} \/ heightOf(node, root[t]) # heightOf(node, root[u])
  /\ Ends("join", join(node, root[t], root[u], k, NewName(node, used, k)), t, u)

\* The caller keeps the left part in t and the right one in u.
Split(t, u, k) ==
  LET n == nodeOf(t, k)
      Parts(after) == IF after.raised THEN Raises("split")
                      ELSE Returns(set_virtual(after.node, n),
                                   [root EXCEPT ![t] = after.left, ![u] = after.right])
  IN /\ t # u /\ root[u] = None
     /\ k \in contents[t]
     /\ Parts(split(node, n))

Next == /\ Usable
        /\ calls' = calls + 1
        /\ \/ \E t \in Trees, k \in Keys : Insert(t, k) \/ Delete(t, k)
           \/ \E t, u \in Trees, k \in Keys : Join(t, u, k) \/ Split(t, u, k)

Spec == Init /\ [][Next]_vars

-----------------------------------------------------------------------------
(* Properties.                                                             *)

\* Rotations, the successor's move, join and split re-hang subtrees by hand (lines 234-293,
\* 540-586, 622-871): as long as every call finds the trees Sound and keeps clear of what
\* Avoided names, every child names its parent, no node hangs in two places, and
\* avl_to_array is sorted.
TreesAreOrdered ==
  \A t \in Trees :
    LET array == in_order(node, root[t])
    IN /\ Len(array) = Cardinality(nodesOf(t))
       /\ \A j, k \in DOMAIN array : j < k => node[array[j]].key < node[array[k]].key
       /\ \A n \in nodesOf(t), c \in nodesOf(t) :
            c \in {node[n].left, node[n].right} => node[c].parent = n
       /\ root[t] # None => ~is_real_node(node, node[root[t]].parent)
       /\ \A u \in Trees : u # t => nodesOf(t) \cap nodesOf(u) = {}

\* search decides by the cached min and max at every level (lines 592-619): under the same
\* premises it finds the keys of the tree and no others, also when a last deletion left
\* caches wrong, and when heights and sizes have been wrong for several calls.
SearchIsExact ==
  \A t \in Trees, k \in Keys :
    LET n == search(node, root[t], k)
    IN IF k \in contents[t] THEN n = nodeOf(t, k) ELSE n = None

\* From exact fields, insert and delete do not raise, and heights, sizes, min and max, and
\* the balance, survive every call but the deletion of a node whose successor is not its
\* right child (lines 692-704).
FieldsStayExact ==
  FieldsExact =>
    /\ raised' \notin {"insert", "delete"}
    /\ FieldsExact' \/ \E t \in Trees, k \in Keys :
         /\ contents' = [contents EXCEPT ![t] = @ \ {k}]
         /\ k \in contents[t] /\ hasTwoChildren(node, nodeOf(t, k))
         /\ node[node[node[nodeOf(t, k)].right].min].parent # nodeOf(t, k)
OnlyFarSuccessorSpoils == [][FieldsStayExact]_vars

\* The trees are dictionaries (lines 592-871): under the same premises each call that
\* returns adds or removes just its key, joins just what it was given, or parts a tree at
\* its key.  A call that raises counts as none.
Promise == INSTANCE Dictionary WITH keys <- contents
KeepsPromise == Promise!Spec

=============================================================================
