-------------------------- MODULE MCCollectorServer -------------------------
(* CollectorServer on a small instance: one source with three streams of   *)
(* two batches and at most one failure of make; the runs of                *)
(* MCCollectorServerOnce.cfg and MCCollectorServerImport.cfg need no more  *)
(* than two streams of one batch.                                          *)
EXTENDS CollectorServer

CONSTANTS source, a, b, c

MCSourceOf == [t \in Streams |-> source]
=============================================================================
