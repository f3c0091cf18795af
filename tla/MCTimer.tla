------------------------------ MODULE MCTimer ------------------------------
(***************************************************************************)
(* Four timers: the sentinel, the scheduler's and two of the tasks.        *)
(***************************************************************************)
EXTENDS Timer
=============================================================================
