------------------------------ MODULE MCKernel ------------------------------
(***************************************************************************)
(* The kernel with FIFOs of two entries, under a user who types into       *)
(* task_a's window or one who also moves the focus.                        *)
(***************************************************************************)
EXTENDS Kernel

Typist == [keys |-> {"char"}, strokes |-> 3]
Switcher == [keys |-> {"char", "tab"}, strokes |-> 2]
Busy == [keys |-> {"char", "tab"}, strokes |-> 3]
MCUsers == {Typist, Switcher}
MCBusy == {Busy}
=============================================================================
