---------------------------- MODULE MCPccServerCpp ----------------------------
(* Two clients whose files hold x four times, so that a count wraps when UINT is 4.  *)
EXTENDS PccServerCpp

CONSTANTS x, y, z

TwoFiles == [c \in {"c1", "c2"} |-> IF c = "c1" THEN <<x, z, x>> ELSE <<x, x>>]

\* pcc.pdf, of a client whose connection is terminated: "The pcc_global statistics must
\* not reflect the data received on the (terminated) connection."  The code counts bytes
\* as they arrive (pcc_server.cpp:128) and takes nothing back,
\* while of the C server pcc_server.c:113 says "Update global statistics only if connection
\* completed successfully".
TotalsOfCompleted ==
  printed # NULL => \A b \in Printable : printed[b] = AnsweredTotal(b)
=============================================================================
