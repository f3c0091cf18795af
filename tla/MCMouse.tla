------------------------------ MODULE MCMouse ------------------------------
(***************************************************************************)
(* Movements in both directions of both axes, with and without the left    *)
(* button, one of them with a byte that looks like a first one.            *)
(***************************************************************************)
EXTENDS MouseDec

MCMoves == {[btn |-> 1, dx |-> -1, dy |-> 2], [btn |-> 0, dx |-> 2, dy |-> -256],
            [btn |-> 6, dx |-> 9, dy |-> 0]}
=============================================================================
