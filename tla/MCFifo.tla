------------------------------- MODULE MCFifo -------------------------------
(* A ring of three entries and three distinguishable values.               *)
EXTENDS Fifo
=============================================================================
