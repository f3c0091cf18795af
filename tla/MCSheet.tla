------------------------------ MODULE MCSheet ------------------------------
(***************************************************************************)
(* A screen of three pixels by two, a background, a window of two pixels,  *)
(* and a pointer of two by two with two transparent corners.  The places   *)
(* put them inside the screen and across three of its edges.               *)
(***************************************************************************)
EXTENDS Sheet

BoxOfEach == [s \in Sheet |-> IF s = Back THEN <<3, 2>>
                              ELSE IF s = 1 THEN <<2, 1>> ELSE <<2, 2>>]
HolesOfEach == [s \in Sheet |-> IF s > 1 THEN {<<1, 0>>, <<0, 1>>} ELSE {}]
MCPlaces == {<<-1, 0>>, <<0, 1>>, <<1, -1>>, <<2, 0>>}
=============================================================================
