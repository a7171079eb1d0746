--------------------------- MODULE MCNvtxCapture ---------------------------
(* NvtxCapture on a small instance: two threads, two domains, four calls.  *)
EXTENDS NvtxCapture, TLC

CONSTANTS t1, t2, d1, d2

Symmetric == Permutations(Threads) \cup Permutations(Domains)
=============================================================================
