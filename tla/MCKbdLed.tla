------------------------------ MODULE MCKbdLed ------------------------------
(***************************************************************************)
(* Two lock keys and three strokes.  keycmd holds two pairs, so that a     *)
(* stroke finds it with two, one and no entry free; two messages fill      *)
(* task_a's FIFO.                                                          *)
(***************************************************************************)
EXTENDS KbdLed
=============================================================================
