------------------------------- MODULE Sheet -------------------------------
(***************************************************************************)
(* The window layers (sheet.c): sheets stacked by height, a map of the     *)
(* screen that says which sheet owns each pixel, and the video memory.     *)
(* Callers show, restack, hide, move and paint sheets one call at a time,  *)
(* above a background that covers the screen.                              *)
(***************************************************************************)
EXTENDS Integers, Sequences, FiniteSetsExt

CONSTANTS xsize, ysize,     \* the screen
          MAX_SHEETS,       \* the length of sheets0 and of sheets
          BoxOf, HolesOf,   \* of each sheet: bxsize and bysize, and the pixels
                            \* its buffer leaves transparent
          Colours,          \* what callers paint
          col_inv,          \* the colour that is transparent
          Places            \* where callers put a sheet's corner

Sheet == 0 .. MAX_SHEETS - 1
Back == 0                   \* the background, HariMain's first sheet
NoSheet == -1               \* a pointer never set, a pixel of map never written

ASSUME SizeAssumption == xsize \in Nat /\ ysize \in Nat /\ MAX_SHEETS \in Nat \ {0}
ASSUME ColourAssumption == col_inv \notin Colours

Screen == (0 .. xsize - 1) \X (0 .. ysize - 1)
Box(s) == (0 .. BoxOf[s][1] - 1) \X (0 .. BoxOf[s][2] - 1)

ASSUME BackAssumption == Box(Back) = Screen /\ HolesOf[Back] = {}
ASSUME PlacesAssumption == Places \subseteq Int \X Int

VARIABLES ctl,        \* struct SHTCTL: top, sheets, map, vram
          sht         \* sheets0: flags, height, vx0, vy0, buf of each sheet

vars == <<ctl, sht>>

-----------------------------------------------------------------------------
\* The pixels of sheet s's box in coordinates of the screen, on the screen, and
\* the pixel of its buffer that lies at p.
Rect(t, s) == {p \in Screen : <<p[1] - t[s].vx0, p[2] - t[s].vy0>> \in Box(s)}
PixelAt(t, s, p) == t[s].buf[<<p[1] - t[s].vx0, p[2] - t[s].vy0>>]

\* Variants with a plausible slip: transparent pixels count, the loop starts one
\* sheet too high, a sheet draws without asking the map.
CoversBox(t, s, p) == p \in Rect(t, s)
CoveredAbove(c, t, h0, p) ==
    {h \in h0 + 1 .. c.top : p \in Rect(t, c.sheets[h]) /\ PixelAt(t, c.sheets[h], p) # col_inv}
DrawUnasked(c, t, area, h0, h1) ==
    [c EXCEPT !.vram = [p \in Screen |->
        LET at == {h \in h0 .. h1 : p \in Rect(t, c.sheets[h])}
        IN  IF p \in area /\ at # {} THEN PixelAt(t, c.sheets[Max(at)], p) ELSE c.vram[p]]]

Covers(t, s, p) == p \in Rect(t, s) /\ PixelAt(t, s, p) # col_inv

\* The heights from h0 up whose sheets are not transparent at p.
Covered(c, t, h0, p) == {h \in h0 .. c.top : Covers(t, c.sheets[h], p)}

\* sheet_refreshmap: from h0 up, the last sheet to cover a pixel owns it.
sheet_refreshmap(c, t, area, h0) ==
    [c EXCEPT !.map = [p \in Screen |->
        IF p \in area /\ Covered(c, t, h0, p) # {}
        THEN c.sheets[Max(Covered(c, t, h0, p))]
        ELSE c.map[p]]]

\* sheet_refreshsub: the sheets of heights h0 to h1 draw the pixels they own.
sheet_refreshsub(c, t, area, h0, h1) ==
    LET Drawn(p) == \E h \in h0 .. h1 : c.sheets[h] = c.map[p] /\ p \in Rect(t, c.map[p])
    IN  [c EXCEPT !.vram = [p \in Screen |->
            IF p \in area /\ Drawn(p) THEN PixelAt(t, c.map[p], p) ELSE c.vram[p]]]

-----------------------------------------------------------------------------
\* Sheets whose entries were moved, to the heights `moved', learn them.
Renumber(t, sheets, moved) ==
    [s \in Sheet |-> LET at == {h \in moved : sheets[h] = s}
                     IN  IF at = {} THEN t[s] ELSE [t[s] EXCEPT !.height = Max(at)]]

\* The array with s at height new and the entries from old to new moved by one.
Lowered(sheets, s, old, new) ==
    [h \in Sheet |-> IF h = new THEN s
                     ELSE IF new < h /\ h <= old THEN sheets[h - 1] ELSE sheets[h]]
Raised(sheets, s, old, new) ==
    [h \in Sheet |-> IF h = new THEN s
                     ELSE IF old <= h /\ h < new THEN sheets[h + 1] ELSE sheets[h]]
\* (A variant closes the gap one entry short.)
ClosedShort(sheets, old, top) ==
    [h \in Sheet |-> IF old <= h /\ h < top - 1 THEN sheets[h + 1] ELSE sheets[h]]
Closed(sheets, old, top) ==
    [h \in Sheet |-> IF old <= h /\ h < top THEN sheets[h + 1] ELSE sheets[h]]

\* "too low or too high is corrected"
Corrected(c, height) == Max({-1, Min({height, c.top + 1})})

\* sheet_updown's four ways; each yields both structures after it.
Lower(c, t, s, new) ==
    LET old == t[s].height
        c1 == [c EXCEPT !.sheets = Lowered(@, s, old, new)]
        t1 == Renumber([t EXCEPT ![s].height = new], c1.sheets, new + 1 .. old)
        c2 == sheet_refreshmap(c1, t1, Rect(t1, s), new + 1)
    IN  [ctl |-> sheet_refreshsub(c2, t1, Rect(t1, s), new + 1, old), sht |-> t1]

Hide(c, t, s) ==
    LET old == t[s].height
        c1 == [c EXCEPT !.sheets = Closed(@, old, c.top), !.top = @ - 1]
        t1 == Renumber([t EXCEPT ![s].height = -1], c1.sheets, old .. c1.top)
        c2 == sheet_refreshmap(c1, t1, Rect(t1, s), 0)
    IN  [ctl |-> sheet_refreshsub(c2, t1, Rect(t1, s), 0, old - 1), sht |-> t1]

Raise(c, t, s, new) ==
    LET old == t[s].height
        c1 == [c EXCEPT !.sheets = Raised(@, s, old, new)]
        t1 == Renumber([t EXCEPT ![s].height = new], c1.sheets, old .. new - 1)
        c2 == sheet_refreshmap(c1, t1, Rect(t1, s), new)
    IN  [ctl |-> sheet_refreshsub(c2, t1, Rect(t1, s), new, new), sht |-> t1]

Show(c, t, s, new) ==
    LET c1 == [c EXCEPT !.sheets = Lowered(@, s, c.top + 1, new), !.top = @ + 1]
        t1 == Renumber([t EXCEPT ![s].height = new], c1.sheets, new + 1 .. c1.top)
        c2 == sheet_refreshmap(c1, t1, Rect(t1, s), new)
    IN  [ctl |-> sheet_refreshsub(c2, t1, Rect(t1, s), new, new), sht |-> t1]

sheet_updown(c, t, s, height) ==
    LET old == t[s].height
        new == Corrected(c, height)
    IN  IF old > new THEN IF new >= 0 THEN Lower(c, t, s, new) ELSE Hide(c, t, s)
        ELSE IF old < new THEN IF old >= 0 THEN Raise(c, t, s, new) ELSE Show(c, t, s, new)
        ELSE [ctl |-> c, sht |-> t]

\* sheet_slide: the old place shows what is below, the new one the sheet.
sheet_slide(c, t, s, vx0, vy0) ==
    LET t1 == [t EXCEPT ![s].vx0 = vx0, ![s].vy0 = vy0]
        h == t[s].height
        c1 == sheet_refreshmap(c, t1, Rect(t, s), 0)
        c2 == sheet_refreshmap(c1, t1, Rect(t1, s), h)
        c3 == sheet_refreshsub(c2, t1, Rect(t, s), 0, h - 1)
    IN  [ctl |-> IF h < 0 THEN c ELSE sheet_refreshsub(c3, t1, Rect(t1, s), h, h),
         sht |-> t1]

\* sheet_refresh of the one pixel px of sheet s.
sheet_refresh(c, t, s, px) ==
    LET area == {<<px[1] + t[s].vx0, px[2] + t[s].vy0>>}
        h == t[s].height
    IN  IF h < 0 THEN c ELSE sheet_refreshsub(c, t, area, h, h)

-----------------------------------------------------------------------------
Used == {s \in Sheet : sht[s].flags = 1}

Empty(s, colour) == [px \in Box(s) |-> IF px \in HolesOf[s] THEN col_inv ELSE colour]

\* HariMain has set up the background; the other sheets were never used.
Init == \E colour \in Colours :
    /\ ctl = [top |-> 0, sheets |-> [h \in Sheet |-> IF h = 0 THEN Back ELSE NoSheet],
              map |-> [p \in Screen |-> Back], vram |-> [p \in Screen |-> colour]]
    /\ sht = [s \in Sheet |->
                 [flags |-> IF s = Back THEN 1 ELSE 0, vx0 |-> 0, vy0 |-> 0,
                  height |-> IF s = Back THEN 0 ELSE -1, buf |-> Empty(s, colour)]]

Becomes(r) == ctl' = r.ctl /\ sht' = r.sht

\* sheet_alloc, sheet_setbuf and sheet_slide, as HariMain and hrb_api call them.
Open(colour, at) ==
    /\ Used # Sheet
    /\ LET s == Min(Sheet \ Used)
           t == [sht EXCEPT ![s].flags = 1, ![s].height = -1, ![s].buf = Empty(s, colour)]
       IN  Becomes(sheet_slide(ctl, t, s, at[1], at[2]))

\* Callers hide a sheet or give it any height; above the top only a hidden one,
\* for which alone sheet_updown's correction is right.
Updown(s, height) ==
    /\ sht[s].height >= 0 => height <= ctl.top
    /\ Becomes(sheet_updown(ctl, sht, s, height))

Slide(s, at) == Becomes(sheet_slide(ctl, sht, s, at[1], at[2]))

\* A caller draws into the buffer and has the place refreshed.
Paint(s, px, colour) ==
    LET t == [sht EXCEPT ![s].buf[px] = colour]
    IN  Becomes([ctl |-> sheet_refresh(ctl, t, s, px), sht |-> t])

sheet_free(c, t, s) ==
    LET r == IF t[s].height >= 0 THEN sheet_updown(c, t, s, -1) ELSE [ctl |-> c, sht |-> t]
    IN  [r EXCEPT !.sht[s].flags = 0]
Free(s) == Becomes(sheet_free(ctl, sht, s))

\* The background stays as it is.
Next ==
    \/ \E colour \in Colours, at \in Places : Open(colour, at)
    \/ \E s \in Used \ {Back} :
           \/ \E height \in -2 .. MAX_SHEETS + 1 : Updown(s, height)
           \/ \E at \in Places : Slide(s, at)
           \/ \E px \in Box(s) \ HolesOf[s], colour \in Colours : Paint(s, px, colour)
           \/ Free(s)

Spec == Init /\ [][Next]_vars

-----------------------------------------------------------------------------
TypeOK ==
    /\ ctl \in [top : -1 .. MAX_SHEETS - 1, sheets : [Sheet -> Sheet \cup {NoSheet}],
                map : [Screen -> Sheet], vram : [Screen -> Colours]]
    /\ \A s \in Sheet : /\ sht[s].flags \in {0, 1}
                        /\ sht[s].height \in -1 .. MAX_SHEETS - 1
                        /\ sht[s].buf \in [Box(s) -> Colours \cup {col_inv}]

\* The array and the heights agree: every sheet is shown once, at the height it
\* bears, below or at top, or it is hidden and in no live entry.
StackExact ==
    \A s \in Sheet :
        {h \in 0 .. ctl.top : ctl.sheets[h] = s}
            = IF sht[s].height = -1 THEN {} ELSE {sht[s].height}

\* The map names, for every pixel, the highest sheet that is not transparent there.
MapNamesTopmost ==
    \A p \in Screen :
        /\ sht[ctl.map[p]].height \in 0 .. ctl.top
        /\ Covers(sht, ctl.map[p], p)
        /\ \A h \in sht[ctl.map[p]].height + 1 .. ctl.top : ~ Covers(sht, ctl.sheets[h], p)

\* What is on the screen is the picture of the stack (see SheetPicture.tla).
Shown == {s \in Sheet : sht[s].height >= 0}
Above == {a \in Shown \X Shown : sht[a[1]].height > sht[a[2]].height}
Look(s) == [p \in {p \in Screen : Covers(sht, s, p)} |-> PixelAt(sht, s, p)]
Picture == INSTANCE SheetPicture
               WITH Points <- Screen, Layers <- Sheet, shown <- Shown, above <- Above,
                    look <- [s \in Sheet |-> Look(s)], screen <- ctl.vram
Implements == Picture!Spec
=============================================================================
