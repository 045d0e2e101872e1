----------------------------- MODULE MCPccServer -----------------------------
(* Two clients whose files hold x four times, so that a count wraps when UINT is 4.  *)
EXTENDS PccServer

CONSTANTS x, y, z

TwoFiles == [c \in {"c1", "c2"} |-> IF c = "c1" THEN <<x, z, x>> ELSE <<x, x>>]
=============================================================================
