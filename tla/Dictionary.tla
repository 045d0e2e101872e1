----------------------------- MODULE Dictionary -----------------------------
(* What a dictionary that can be joined and split promises: every tree is  *)
(* a set of keys, whatever its shape.                                      *)
EXTENDS Integers

CONSTANTS Trees, Keys

VARIABLE keys             \* keys[t]: the keys in t

Start == keys \in [Trees -> SUBSET Keys]

Insert(t, k) == /\ k \notin keys[t]
                /\ keys' = [keys EXCEPT ![t] = @ \cup {k}]

Delete(t, k) == /\ k \in keys[t]
                /\ keys' = [keys EXCEPT ![t] = @ \ {k}]

\* t, k and u in this order; u is empty afterwards.
Join(t, u, k) == /\ t # u
                 /\ (\A i \in keys[t] : i < k) /\ (\A j \in keys[u] : k < j)
                 /\ keys' = [keys EXCEPT ![t] = @ \cup {k} \cup keys[u], ![u] = {}]

\* u, empty before, gets the keys above k.
Split(t, u, k) == /\ t # u /\ keys[u] = {}
                  /\ k \in keys[t]
                  /\ keys' = [keys EXCEPT ![t] = {i \in @ : i < k}, ![u] = {i \in keys[t] : i > k}]

Next == \/ \E t \in Trees, k \in Keys : Insert(t, k) \/ Delete(t, k)
        \/ \E t, u \in Trees, k \in Keys : Join(t, u, k) \/ Split(t, u, k)

Spec == Start /\ [][Next]_keys
=============================================================================
