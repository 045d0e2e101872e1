------------------------------ MODULE Transfer ------------------------------
(***************************************************************************)
(* What a hand-over of work promises, whatever the data structure: an item *)
(* that was put in is taken out at most once, by one caller, and nothing   *)
(* else is ever taken out.  It says nothing about order.                   *)
(***************************************************************************)
CONSTANTS Caller, Item

VARIABLES held,     \* items put in and not taken out yet
          taken     \* taken[c]: the items caller c has taken

vars == <<held, taken>>

TakenBy(c) == taken[c]
Gone == UNION {taken[c] : c \in Caller}

TypeOK == held \subseteq Item /\ taken \in [Caller -> SUBSET Item]

Init == held = {} /\ taken = [c \in Caller |-> {}]

Put(i) ==
  /\ i \notin held \cup Gone
  /\ held' = held \cup {i}
  /\ UNCHANGED taken

Take(c, i) ==
  /\ i \in held
  /\ held' = held \ {i}
  /\ taken' = [taken EXCEPT ![c] = @ \cup {i}]

Next == \/ \E i \in Item : Put(i)
        \/ \E c \in Caller, i \in Item : Take(c, i)

Spec == Init /\ [][Next]_vars
=============================================================================
