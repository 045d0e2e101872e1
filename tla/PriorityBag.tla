--------------------------- MODULE PriorityBag ---------------------------
(* What a mergeable priority queue promises its callers: every heap is a   *)
(* bag of items with keys, whatever trees an implementation keeps them in. *)
EXTENDS Integers

CONSTANTS Heaps,          \* the heaps the callers use
          Items,          \* the items they may ever insert
          Keys            \* their keys

VARIABLE bag              \* bag[h]: the key of each item of h

Least(b) == {i \in DOMAIN b : \A j \in DOMAIN b : b[i] <= b[j]}
Without(b, i) == [j \in DOMAIN b \ {i} |-> b[j]]
Empty == [i \in {} |-> 0]
Both(b, c) == [i \in DOMAIN b \cup DOMAIN c |-> IF i \in DOMAIN b THEN b[i] ELSE c[i]]

Init == bag = [h \in Heaps |-> Empty]

Insert(h, i) == /\ \A g \in Heaps : i \notin DOMAIN bag[g]
                /\ \E k \in Keys : bag' = [bag EXCEPT ![h] = Both(@, [j \in {i} |-> k])]

DeleteMin(h) == \E i \in Least(bag[h]) : bag' = [bag EXCEPT ![h] = Without(@, i)]

DecreaseKey(h, i) == /\ i \in DOMAIN bag[h]
                     /\ \E k \in Keys : k < bag[h][i] /\ bag' = [bag EXCEPT ![h][i] = k]

Delete(h, i) == /\ i \in DOMAIN bag[h]
                /\ bag' = [bag EXCEPT ![h] = Without(@, i)]

Meld(h, g) == /\ h # g
              /\ bag' = [bag EXCEPT ![h] = Both(@, bag[g]), ![g] = Empty]

Next == \/ \E h \in Heaps : DeleteMin(h)
        \/ \E h \in Heaps, i \in Items : Insert(h, i) \/ DecreaseKey(h, i) \/ Delete(h, i)
        \/ \E h, g \in Heaps : Meld(h, g)

Spec == Init /\ [][Next]_bag
===========================================================================
