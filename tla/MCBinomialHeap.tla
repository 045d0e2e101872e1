--------------------------- MODULE MCBinomialHeap ---------------------------
(* One heap, with keys that repeat.                                        *)
EXTENDS BinomialHeap

Repeated == {<<1, 5, 1, 5>>}
=============================================================================
