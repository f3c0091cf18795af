------------------------------ MODULE MCMemman ------------------------------
(***************************************************************************)
(* Pages of two bytes, three of them low and four high, and a list that    *)
(* holds three entries: requests of one, two and three bytes fragment the  *)
(* regions until the list overflows.                                       *)
(***************************************************************************)
EXTENDS Memman

MCLow == [addr |-> 2, size |-> 6]
MCHigh == [addr |-> 12, size |-> 8]
=============================================================================
