----------------------------- MODULE SheetBreak -----------------------------
(***************************************************************************)
(* A program opens a window (hrb_api, call 5) and Shift+Alt comes at any   *)
(* point of it: sheet_updown's branch for a hidden sheet, one store at a   *)
(* time, as far as the array, the heights and top go (their pixels are in  *)
(* Sheet.tla).  Nobody else calls sheet_updown after boot; task_a's own    *)
(* calls leave these three alone.                                          *)
(***************************************************************************)
EXTENDS Integers, FiniteSetsExt

CONSTANTS MAX_SHEETS,    \* the length of sheets0 and of sheets
          WindowHeight   \* the height programs' windows get, 3, below MAX_SHEETS

Sheet == 0 .. MAX_SHEETS - 1
NoSheet == -1

VARIABLES sheets, height, top,  \* of struct SHTCTL
          used,                 \* the sheets that sheet_alloc has given away
          pc,                   \* where the console is
          new, h                \* the window being opened, the loop's counter

vars == <<sheets, height, top, used, pc, new, h>>

\* HariMain has shown as many sheets, the mouse on top, as lie at or below
\* WindowHeight.
Init ==
    /\ sheets = [i \in Sheet |-> IF i <= WindowHeight THEN i ELSE NoSheet]
    /\ height = [s \in Sheet |-> IF s <= WindowHeight THEN s ELSE -1]
    /\ top = WindowHeight /\ used = 0 .. WindowHeight
    /\ pc = "prompt" /\ new = NoSheet /\ h = 0

At(where) == pc = where
Goto(where) == pc' = where

StartApp == At("prompt") /\ Goto("app") /\ UNCHANGED <<sheets, height, top, used, new, h>>
EndApp == At("app") /\ Goto("prompt") /\ UNCHANGED <<sheets, height, top, used, new, h>>

\* sheet_alloc, sheet_setbuf, and sheet_slide of a sheet that is hidden.
OpenWindow ==
    /\ At("app") /\ used # Sheet
    /\ new' = Min(Sheet \ used)
    /\ used' = used \cup {new'}
    /\ Goto("height")
    /\ UNCHANGED <<sheets, height, top, h>>

SetHeight ==
    /\ At("height")
    /\ height' = [height EXCEPT ![new] = WindowHeight]
    /\ h' = top
    /\ Goto("entry")
    /\ UNCHANGED <<sheets, top, used, new>>

\* for (h = top; h >= height; h--): the entry, then its sheet's height.
MoveEntry ==
    /\ At("entry") /\ h >= WindowHeight
    /\ sheets' = [sheets EXCEPT ![h + 1] = sheets[h]]
    /\ Goto("number")
    /\ UNCHANGED <<height, top, used, new, h>>

Renumber ==
    /\ At("number")
    /\ height' = [height EXCEPT ![sheets[h + 1]] = h + 1]
    /\ h' = h - 1
    /\ Goto("entry")
    /\ UNCHANGED <<sheets, top, used, new>>

Place ==
    /\ At("entry") /\ h < WindowHeight
    /\ sheets' = [sheets EXCEPT ![WindowHeight] = new]
    /\ Goto("top")
    /\ UNCHANGED <<height, top, used, new, h>>

RaiseTop ==
    /\ At("top")
    /\ top' = top + 1
    /\ Goto("app")
    /\ UNCHANGED <<sheets, height, used, new, h>>

\* task_a redirects the console to asm_end_app.
ShiftAlt ==
    /\ ~ At("prompt")
    /\ Goto("prompt")
    /\ UNCHANGED <<sheets, height, top, used, new, h>>

Next == \/ StartApp \/ EndApp \/ OpenWindow \/ SetHeight \/ MoveEntry
        \/ Renumber \/ Place \/ RaiseTop \/ ShiftAlt

Spec == Init /\ [][Next]_vars

-----------------------------------------------------------------------------
\* bootpack.h:175: top is the height of the uppermost sheet.
TopIsUppermost == pc = "prompt" => top = Max({height[s] : s \in Sheet})
=============================================================================
