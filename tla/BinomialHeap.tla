---------------------------- MODULE BinomialHeap ----------------------------
(***************************************************************************)
(* The non-lazy binomial heap of Data Structures ex2 (BinomialHeap.java):  *)
(* heaps over shared node objects, linked by child, next and parent, with  *)
(* the cached fields last and min on every heap and every node.            *)
(*                                                                         *)
(* Nodes and items are numbered in the order they are inserted; 0 is null. *)
(* The callers keep to the preconditions the comments state.  They stop at *)
(* the first damaged heap, and when Careful already at the first wrong     *)
(* cached minimum (Usable): what the code does after that is no operation  *)
(* of a heap any more.                                                     *)
(***************************************************************************)
EXTENDS Integers, Sequences, FiniteSets, Functions, FiniteSetsExt

CONSTANTS Heaps,        \* the BinomialHeap objects of the callers
          MaxItems,     \* how many items they insert in all (bound)
          Orders,       \* the keys they insert, in the order of the calls
          Diffs,        \* by how much they decrease one
          MaxChanges,   \* how many items they decrease or delete (bound)
          Careful       \* whether they stop at a wrong cached minimum

HeapAssumption == /\ MaxItems \in Nat /\ MaxChanges \in Nat
                  /\ Orders \subseteq [1..MaxItems -> Nat \ {0}]
                  /\ Diffs \subseteq Nat \ {0}
                  /\ Careful \in BOOLEAN

Items == 1..MaxItems
Nodes == Items
null == 0

Ref == Nodes \cup {null}
HeapNode == [item: Items \cup {null}, child: Ref, next: Ref, parent: Ref,
             rank: 0..MaxItems, last: Ref, min: Ref]
Memory == [Nodes -> HeapNode]
Melding == [node: Memory, a: Ref, b: Ref, carry: Ref, melded: Seq(Nodes)]

VARIABLES node,   \* the HeapNode objects
          key,    \* item.key
          home,   \* item.node
          heap,   \* the fields of each BinomialHeap
          made,   \* how many items were inserted
          order,  \* the key of each item
          changes \* how many items were decreased or deleted

vars == <<node, key, home, heap, made, order, changes>>

Blank == [item |-> null, child |-> null, next |-> null, parent |-> null,
          rank |-> 0, last |-> null, min |-> null]
NewHeap == [size |-> 0, last |-> null, min |-> null, first |-> null, trees_num |-> 0]

Init == /\ node = [n \in Nodes |-> Blank]
        /\ key = [i \in Items |-> 0]
        /\ home = [i \in Items |-> null]
        /\ heap = [h \in Heaps |-> NewHeap]
        /\ made = 0
        /\ order \in Orders
        /\ changes = 0

-----------------------------------------------------------------------------
(* HeapNode.  N is the node function at the time of the call, K the key of *)
(* the item in each node.                                                  *)

KeyIn(N, K, n) == K[N[n].item]

smallerKey(N, K, a, b) == CASE a = null -> b
                            [] b = null -> a
                            [] OTHER -> IF KeyIn(N, K, a) > KeyIn(N, K, b) THEN b ELSE a
largerKey(N, K, a, b) == IF smallerKey(N, K, a, b) = a THEN b ELSE a

smallerRank(N, a, b) == CASE a = null -> b
                          [] b = null -> a
                          [] OTHER -> IF N[a].rank > N[b].rank THEN b ELSE a

\* Mutant: root_node.min is set for the first child only.
linkNodesFirstMin(N, K, a, b) ==
  LET root == smallerKey(N, K, a, b)
      kid == largerKey(N, K, a, b)
      linked == [N EXCEPT ![kid].parent = root,
                          ![root].child = IF @ = null THEN kid ELSE @,
                          ![root].min = IF N[root].child = null THEN kid ELSE @,
                          ![root].last = kid,
                          ![root].rank = N[kid].rank + 1]
  IN IF N[root].last = null THEN linked ELSE [linked EXCEPT ![N[root].last].next = kid]

\* The tree with the larger key becomes the last child of the other one; the
\* caller still needs the child's next before postLinkFix clears it.
linkNodes(N, K, a, b) ==
  LET root == smallerKey(N, K, a, b)
      kid == largerKey(N, K, a, b)
      old == N[root]
      linked == [N EXCEPT ![kid].parent = root,
                          ![root].child = IF @ = null THEN kid ELSE @,
                          ![root].min = IF old.child = null \/ KeyIn(N, K, old.min) > KeyIn(N, K, kid)
                                        THEN kid ELSE @,
                          ![root].last = kid,
                          ![root].rank = N[kid].rank + 1]
  IN IF old.last = null THEN linked ELSE [linked EXCEPT ![old.last].next = kid]

\* Mutant: the last child keeps the next it had as a root.
postLinkFixMissing(N, n) == N

postLinkFix(N, n) == IF N[n].last = null THEN N ELSE [N EXCEPT ![N[n].last].next = null]

intoMelded(st, n) ==
  LET unparented == [st.node EXCEPT ![n].parent = null]
      back == IF st.melded = << >> THEN unparented
              ELSE [unparented EXCEPT ![st.melded[Len(st.melded)]].next = n]
  IN [st EXCEPT !.node = back, !.melded = Append(@, n)]

-----------------------------------------------------------------------------
(* BinomialHeap.meld: binary addition of two chains of trees.              *)

empty(H) == H.first = null

\* a and b are node_this and node_heap2.
Link(st, K, x, y, a, b) ==
  LET Carried(N, root) == [st EXCEPT !.node = postLinkFix(N, root), !.carry = root,
                                     !.a = IF a THEN N[@].next ELSE @,
                                     !.b = IF b THEN N[@].next ELSE @]
  IN Carried(linkNodes(st.node, K, x, y), smallerKey(st.node, K, x, y))

MeldStep(st, K) ==
  LET low == smallerRank(st.node, st.a, st.b)
      rank(n) == st.node[n].rank
      equal == st.a # null /\ st.b # null /\ rank(st.a) = rank(st.b)
      fits == st.carry # null /\ rank(low) = rank(st.carry)
      kept == [intoMelded(st, st.carry) EXCEPT !.carry = null]
  IN CASE fits /\ equal              -> Link(kept, K, st.a, st.b, TRUE, TRUE)
       [] fits /\ ~equal             -> Link(st, K, st.carry, low, low = st.a, low # st.a)
       [] st.carry # null /\ ~fits   -> kept
       [] st.carry = null /\ equal   -> Link(st, K, st.a, st.b, TRUE, TRUE)
       [] OTHER -> LET put == intoMelded(st, low)
                   IN [put EXCEPT !.a = IF low = st.a THEN put.node[@].next ELSE @,
                                  !.b = IF low # st.a THEN put.node[@].next ELSE @]

\* meld(N, K, H1, H2): H1.meld(H2); returns the nodes and the fields of H1.
meld(N, K, H1, H2) ==
  LET start == [node |-> N, a |-> H1.first, b |-> H2.first, carry |-> null, melded |-> << >>]
      loop[st \in Melding] == IF st.a = null /\ st.b = null THEN st ELSE loop[MeldStep(st, K)]
      CarryPlaced(st) == IF st.carry = null THEN st ELSE intoMelded(st, st.carry)
      Ends(M, melded, last) ==
        [node |-> [M EXCEPT ![last].next = null],
         heap |-> [size |-> H1.size + H2.size, last |-> last,
                   min |-> smallerKey(M, K, H1.min, H2.min),
                   first |-> melded[1], trees_num |-> Len(melded)]]
      End(st) == Ends(st.node, st.melded, st.melded[Len(st.melded)])
  IN CASE empty(H2) -> [node |-> N, heap |-> H1]
       [] empty(H1) -> [node |-> N, heap |-> H2]
       [] OTHER -> End(CarryPlaced(loop[start]))

-----------------------------------------------------------------------------
(* The two parts deleteMin melds, and decreaseKey's way up.                *)

\* The nodes from n along next.
Chain(N, n) ==
  LET go[s \in Seq(Nodes)] ==
        LET after == N[s[Len(s)]].next
        IN IF after = null \/ Len(s) = MaxItems THEN s ELSE go[Append(s, after)]
  IN IF n = null THEN << >> ELSE go[<< n >>]

heapFromChildren(N, n) ==
  IF N[n].rank = 0 THEN [node |-> N, heap |-> NewHeap]
  ELSE LET kids == Range(Chain(N, N[n].child))
       IN [node |-> [m \in Nodes |-> IF m \in kids THEN [N[m] EXCEPT !.parent = null] ELSE N[m]],
           heap |-> [size |-> 2 ^ N[n].rank - 1, last |-> N[n].last, min |-> N[n].min,
                     first |-> N[n].child, trees_num |-> N[n].rank]]

\* size is what line 89 computes: one more than the nodes that stay.
heapWithoutATree(N, K, H, n) ==
  LET chain == Chain(N, H.first)
      rest == SelectSeq(chain, LAMBDA m : m # n)
      least == CHOOSE k \in DOMAIN rest :
                 /\ \A j \in DOMAIN rest : KeyIn(N, K, rest[k]) <= KeyIn(N, K, rest[j])
                 /\ \A j \in 1..k - 1 : KeyIn(N, K, rest[k]) < KeyIn(N, K, rest[j])
      highest == CHOOSE k \in DOMAIN rest :
                   /\ \A j \in DOMAIN rest : N[rest[k]].rank >= N[rest[j]].rank
                   /\ \A j \in 1..k - 1 : N[rest[k]].rank > N[rest[j]].rank
  IN IF empty(H) \/ (H.trees_num = 1 /\ H.first = n) THEN [node |-> N, heap |-> NewHeap]
     ELSE [node |-> [m \in Nodes |-> IF m \in Range(rest) /\ N[m].next = n
                                     THEN [N[m] EXCEPT !.next = N[n].next] ELSE N[m]],
           heap |-> [size |-> H.size - 2 ^ N[n].rank + 1, last |-> rest[highest],
                     min |-> rest[least], first |-> rest[1], trees_num |-> H.trees_num - 1]]

deleteMin(N, K, H) ==
  LET children == heapFromChildren(N, H.min)
      others == heapWithoutATree(children.node, K, H, H.min)
  IN CASE H.size <= 1 -> [node |-> N, heap |-> NewHeap]
       [] H.size > 1 /\ empty(children.heap) -> others
       [] H.size > 1 /\ ~empty(children.heap) /\ empty(others.heap) ->
            [node |-> others.node, heap |-> children.heap]
       [] OTHER -> meld(others.node, K, others.heap, children.heap)

Shifting == [node: Memory, home: [Items -> Ref], current: Nodes]

\* Mutant: the item that moves down keeps its node.
shiftUpForgets(N, K, at, n) ==
  LET up[st \in Shifting] ==
        LET p == st.node[st.current].parent
            moving == st.node[st.current].item
        IN IF p = null \/ KeyIn(st.node, K, p) < K[moving] THEN st
           ELSE up[[node |-> [st.node EXCEPT ![p].item = moving, ![p].min = st.current,
                                             ![st.current].item = st.node[p].item],
                    home |-> [st.home EXCEPT ![moving] = p],
                    current |-> p]]
  IN up[[node |-> N, home |-> at, current |-> n]]

\* The item of n changes places with its parent's until the parent's key is smaller;
\* at is item.node of each item.
shiftUp(N, K, at, n) ==
  LET up[st \in Shifting] ==
        LET p == st.node[st.current].parent
            moving == st.node[st.current].item
            tmp == st.node[p].item
        IN IF p = null \/ KeyIn(st.node, K, p) < K[moving] THEN st
           ELSE up[[node |-> [st.node EXCEPT ![p].item = moving, ![p].min = st.current,
                                             ![st.current].item = tmp],
                    home |-> [st.home EXCEPT ![moving] = p, ![tmp] = st.current],
                    current |-> p]]
  IN up[[node |-> N, home |-> at, current |-> n]]

-----------------------------------------------------------------------------
(* What a walk through the trees finds.                                    *)

\* The nodes reachable from n by child and next.
Below(N, n) ==
  LET reach[S \in SUBSET Nodes] ==
        LET T == (S \cup {N[m].child : m \in S} \cup {N[m].next : m \in S}) \ {null}
        IN IF T = S THEN S ELSE reach[T]
  IN reach[{n} \ {null}]

nodesOf(h) == Below(node, heap[h].first)
itemsOf(h) == {node[n].item : n \in nodesOf(h)}
contents == [h \in Heaps |-> [i \in itemsOf(h) |-> key[i]]]
keyOf(n) == KeyIn(node, key, n)
kidsOf(n) == Chain(node, node[n].child)
roots(h) == Chain(node, heap[h].first)

\* Every cached minimum is what the tree says it is.
CachesExact ==
  \A h \in Heaps :
    /\ heap[h].first = null <=> heap[h].min = null
    /\ heap[h].first # null => /\ heap[h].min \in Range(roots(h))
                               /\ \A r \in Range(roots(h)) : keyOf(heap[h].min) <= keyOf(r)
    /\ \A n \in nodesOf(h) : node[n].rank > 0 =>
         /\ node[n].min \in Range(kidsOf(n))
         /\ \A c \in Range(kidsOf(n)) : keyOf(node[n].min) <= keyOf(c)

\* meld, linkNodes and the two partial heaps rearrange the same node objects
\* in place: no node may be in two trees, and the trees must stay binomial,
\* in rising order of rank, with last and parent where they point.
TreesAreBinomial ==
  /\ \A h, g \in Heaps : h # g => nodesOf(h) \cap nodesOf(g) = {}
  /\ \A h \in Heaps :
       LET top == roots(h)
       IN /\ heap[h].trees_num = Len(top)
          /\ top # << >> => heap[h].last = top[Len(top)]
          /\ \A j, k \in DOMAIN top : j < k => node[top[j]].rank < node[top[k]].rank
          /\ \A k \in DOMAIN top : node[top[k]].parent = null
          /\ Cardinality(nodesOf(h)) =
               FoldFunction(LAMBDA n, sum : sum + 2 ^ node[n].rank, 0, top)
          /\ \A n \in nodesOf(h) :
               LET kids == kidsOf(n)
               IN /\ Len(kids) = node[n].rank
                  /\ \A k \in DOMAIN kids : /\ node[kids[k]].rank = k - 1
                                            /\ node[kids[k]].parent = n
                  /\ kids # << >> => node[n].last = kids[Len(kids)]

\* Bound: see the head of the module.
Usable == IF Careful THEN CachesExact ELSE TreesAreBinomial

-----------------------------------------------------------------------------
(* The calls.                                                              *)

live == UNION {itemsOf(h) : h \in Heaps}
\* Callers whose keys differ neither insert nor decrease to a live item's key.
Fresh(k) == IsInjective(order) => \A i \in live : key[i] # k

\* The heaps hs are left with nodes N, item keys K and item nodes at, and the garbage
\* collector takes the nodes and items that no heap reaches.
Leave(hs, N, K, at) ==
  LET alive == UNION {Below(N, hs[h].first) : h \in Heaps}
      held == {N[n].item : n \in alive}
  IN /\ heap' = hs
     /\ node' = [n \in Nodes |-> IF n \in alive THEN N[n] ELSE Blank]
     /\ key' = [i \in Items |-> IF i \in held THEN K[i] ELSE 0]
     /\ home' = [i \in Items |-> IF i \in held THEN at[i] ELSE null]

insert(h) ==
  LET i == made + 1
      single == [size |-> 1, last |-> i, min |-> i, first |-> i, trees_num |-> 1]
      N == [node EXCEPT ![i] = [Blank EXCEPT !.item = i]]
      K == [key EXCEPT ![i] = order[i]]
      after == IF empty(heap[h]) THEN [node |-> N, heap |-> single] ELSE meld(N, K, heap[h], single)
  IN /\ made < MaxItems
     /\ Fresh(order[i])
     /\ Leave([heap EXCEPT ![h] = after.heap], after.node, K, [home EXCEPT ![i] = i])
     /\ made' = i
     /\ UNCHANGED <<order, changes>>

Counted == /\ changes < MaxChanges
           /\ changes' = changes + 1
           /\ UNCHANGED <<made, order>>

DeleteMin(h) == LET after == deleteMin(node, key, heap[h])
                IN /\ Leave([heap EXCEPT ![h] = after.heap], after.node, key, home)
                   /\ Counted

\* The precondition 0 < diff < item.key.
decreaseKey(h, i, diff) ==
  LET K == [key EXCEPT ![i] = @ - diff]
      up == shiftUp(node, K, home, home[i])
  IN /\ i \in itemsOf(h)
     /\ diff < key[i]
     /\ Fresh(K[i])
     /\ Leave(heap, up.node, K, up.home)
     /\ Counted

\* Mutant: this.min stays where it was.
deleteOldMin(h, i) ==
  LET H == heap[h]
      away == home[i] # H.min
      K == [key EXCEPT ![i] = IF away THEN keyOf(H.min) ELSE @]
      up == IF away THEN shiftUp(node, K, home, home[i]) ELSE [node |-> node, home |-> home]
      after == deleteMin(up.node, K, H)
  IN /\ i \in itemsOf(h)
     /\ Leave([heap EXCEPT ![h] = after.heap], after.node, K, up.home)
     /\ Counted

delete(h, i) ==
  LET H == heap[h]
      away == home[i] # H.min
      K == [key EXCEPT ![i] = IF away THEN keyOf(H.min) ELSE @]
      up == IF away THEN shiftUp(node, K, home, home[i]) ELSE [node |-> node, home |-> home]
      after == deleteMin(up.node, K, [H EXCEPT !.min = up.home[i]])
  IN /\ i \in itemsOf(h)
     /\ Leave([heap EXCEPT ![h] = after.heap], after.node, K, up.home)
     /\ Counted

\* g "isn't usable" afterwards: its owner starts a new heap.
Meld(h, g) ==
  LET melded == meld(node, key, heap[h], heap[g])
      hs == [heap EXCEPT ![h] = melded.heap, ![g] = NewHeap]
  IN /\ h # g
     /\ Leave(hs, melded.node, key, home)
     /\ UNCHANGED <<made, order, changes>>

Next == /\ Usable
        /\ \/ \E h \in Heaps : insert(h)
           \/ \E h \in Heaps : DeleteMin(h)
           \/ \E h \in Heaps, i \in 1..made, diff \in Diffs : decreaseKey(h, i, diff)
           \/ \E h \in Heaps, i \in 1..made : delete(h, i)
           \/ \E h, g \in Heaps : Meld(h, g)

Spec == Init /\ [][Next]_vars

-----------------------------------------------------------------------------
(* Properties.                                                             *)

\* shiftUp exchanges items, not nodes, and meld, deleteMin and delete move nodes:
\* item.node must lead to the node that holds the item (lines 495, 655, 658), and no
\* child may be below its parent's key.
ItemsAreInPlace ==
  \A h \in Heaps, n \in UNION {nodesOf(g) : g \in Heaps} :
    /\ home[node[n].item] = n
    /\ \A c \in Range(kidsOf(n)) : keyOf(n) <= keyOf(c)

\* size is never decremented by deleteMin (heapWithoutATree adds one), so that it may be
\* too large; what deleteMin's "size > 1" needs is that it is never too small, so that
\* the last node is the only one dropped with the whole heap.
NothingDroppedUncounted ==
  \A h \in Heaps : /\ heap[h].size >= Cardinality(itemsOf(h))
                   /\ heap[h].size = 0 <=> empty(heap[h])

\* As long as every call finds the cached minima exact, no sequence of calls on however
\* many heaps breaks a tree, a caller's way to its item or deleteMin's use of size (lines
\* 52-110, 135-415, 556-676).  decreaseKey updates no heap's min (lines 222-226) and may
\* leave a node's wrong (line 660); the calls after that, which may take a node apart
\* that is no root, are not among these.
HeapsAreSound == TreesAreBinomial /\ ItemsAreInPlace /\ NothingDroppedUncounted

\* The minima that a heap and its nodes cache survive every call but decreaseKey (lines
\* 136-202, 234-420).
CachesStayExact == CachesExact' \/ \E i \in live \cap live' : key'[i] < key[i]
OnlyDecreaseKeySpoilsMin == [][CachesStayExact]_vars

\* As long as every call finds the cached minima exact, the heaps are a priority queue:
\* deleteMin takes an item of least key out, delete exactly the item named, and meld loses
\* nothing (lines 136-420).
MaxKey == Max(UNION {Range(o) : o \in Orders})
Promise == INSTANCE PriorityBag WITH bag <- contents, Keys <- 1..MaxKey
KeepsPromise == Promise!Spec

\* "Delete the heap's minimal item." (lines 159-160): what findMin returned is
\* gone afterwards.
MinIsDeleted ==
  [][\A h \in Heaps : DeleteMin(h) /\ ~empty(heap[h]) => node[heap[h].min].item \notin itemsOf(h)']_vars
=============================================================================
