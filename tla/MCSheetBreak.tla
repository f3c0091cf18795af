---------------------------- MODULE MCSheetBreak ----------------------------
(***************************************************************************)
(* The kernel's four sheets and room for two windows.                      *)
(***************************************************************************)
EXTENDS SheetBreak
=============================================================================
