---------------------------- MODULE SheetProofs ----------------------------
(***************************************************************************)
(* Theorems about Sheet, for a screen of any size, any number of sheets of *)
(* any size, and any places: the heights and the array agree, the map      *)
(* names the topmost sheet, and the screen is the picture of the stack.    *)
(*                                                                         *)
(* The map and the screen are argued with heights alone: a restacking      *)
(* keeps the order of all sheets but one, so that at a point that the one  *)
(* does not cover the topmost sheet stays what it was, and elsewhere the   *)
(* code draws just the heights at which it can have changed (Restacked).   *)
(***************************************************************************)
EXTENDS Sheet, FiniteSetTheorems, WellFoundedInduction, TLAPS

-----------------------------------------------------------------------------
(* The inductive invariant, on any struct SHTCTL c and sheets0 t.           *)

\* A buffer of sheet s; it is transparent at its holes and nowhere else.
Filled(s, b) == /\ b \in [Box(s) -> Colours \cup {col_inv}]
                /\ \A px \in Box(s) : b[px] = col_inv <=> px \in HolesOf[s]

Bufs == UNION {[Box(s) -> Colours \cup {col_inv}] : s \in Sheet}
SheetRec == [flags : {0, 1}, vx0 : Int, vy0 : Int, height : Int, buf : Bufs]
Sheets == {t \in [Sheet -> SheetRec] : \A s \in Sheet : Filled(s, t[s].buf)}

Ctl == [top : Int, sheets : [Sheet -> Sheet \cup {NoSheet}], map : [Screen -> Sheet],
        vram : [Screen -> Colours]]

\* The array and the heights are each other's inverse.
Stack(c, t) ==
    /\ c.top \in 0 .. MAX_SHEETS - 1
    /\ \A u \in Sheet : t[u].height \in -1 .. c.top
    /\ \A h \in 0 .. c.top : c.sheets[h] \in Sheet /\ t[c.sheets[h]].height = h
    /\ \A u \in Sheet : t[u].height >= 0 => c.sheets[t[u].height] = u

\* Sheet o is the topmost at p, in terms of heights.
Tops(t, p, o) ==
    /\ o \in Sheet /\ t[o].height >= 0 /\ Covers(t, o, p)
    /\ \A u \in Sheet : t[u].height > t[o].height => ~ Covers(t, u, p)

MapRight(c, t) == \A p \in Screen : Tops(t, p, c.map[p])
Drawn(c, t) == \A p \in Screen : c.vram[p] = PixelAt(t, c.map[p], p)
BackShown(t) == t[Back].flags = 1 /\ t[Back].height >= 0 /\ t[Back].vx0 = 0 /\ t[Back].vy0 = 0

Right(c, t) == /\ c \in Ctl /\ t \in Sheets
               /\ Stack(c, t) /\ MapRight(c, t) /\ Drawn(c, t) /\ BackShown(t)

IInv == /\ Right(ctl, sht)
        /\ \A s \in Sheet : sht[s].flags = 0 => sht[s].height = -1

\* All but the heights is as it was.
SameLook(t, t1) ==
    \A u \in Sheet : /\ t1[u].flags = t[u].flags /\ t1[u].buf = t[u].buf
                     /\ t1[u].vx0 = t[u].vx0 /\ t1[u].vy0 = t[u].vy0

-----------------------------------------------------------------------------
(* Sheets and pixels.                                                       *)

\* The background is a sheet.
LEMMA BackIsSheet == Back \in Sheet
BY SizeAssumption DEF Back, Sheet

\* The fields of a sheet have their types.
LEMMA FieldsOf == ASSUME NEW t \in Sheets, NEW s \in Sheet
                  PROVE  /\ t[s] \in SheetRec /\ t[s].flags \in {0, 1} /\ t[s].height \in Int
                         /\ t[s].vx0 \in Int /\ t[s].vy0 \in Int /\ Filled(s, t[s].buf)
BY DEF Sheets, SheetRec

\* A change of one sheet's height, flags or corner.
LEMMA RecHeight == ASSUME NEW r \in SheetRec, NEW h \in Int
                   PROVE  LET r1 == [r EXCEPT !.height = h]
                          IN  /\ r1 \in SheetRec /\ r1.height = h /\ r1.flags = r.flags
                              /\ r1.vx0 = r.vx0 /\ r1.vy0 = r.vy0 /\ r1.buf = r.buf
BY DEF SheetRec

\* A change of one sheet's flags.
LEMMA RecFlags == ASSUME NEW r \in SheetRec, NEW f \in {0, 1}
                  PROVE  LET r1 == [r EXCEPT !.flags = f]
                         IN  /\ r1 \in SheetRec /\ r1.flags = f /\ r1.height = r.height
                             /\ r1.vx0 = r.vx0 /\ r1.vy0 = r.vy0 /\ r1.buf = r.buf
BY DEF SheetRec

\* All but the height of sheet s stays.
LEMMA SetHeight ==
    ASSUME NEW t \in Sheets, NEW s \in Sheet, NEW h \in Int
    PROVE  LET t1 == [t EXCEPT ![s].height = h]
           IN  /\ t1 \in Sheets /\ SameLook(t, t1)
               /\ \A u \in Sheet : t1[u].height = IF u = s THEN h ELSE t[u].height
<1> DEFINE t1 == [t EXCEPT ![s].height = h]
           r1 == [t[s] EXCEPT !.height = h]
<1>1. t \in [Sheet -> SheetRec] /\ \A u \in Sheet : Filled(u, t[u].buf)
  BY DEF Sheets
<1>2. t1 = [u \in Sheet |-> IF u = s THEN r1 ELSE t[u]]
  BY <1>1
<1>3. /\ r1 \in SheetRec /\ r1.height = h /\ r1.flags = t[s].flags
      /\ r1.vx0 = t[s].vx0 /\ r1.vy0 = t[s].vy0 /\ r1.buf = t[s].buf
  BY <1>1, RecHeight
<1> HIDE DEF t1, r1
<1>4. t1 \in [Sheet -> SheetRec]
  BY <1>1, <1>2, <1>3
<1>5. \A u \in Sheet : t1[u].height = IF u = s THEN h ELSE t[u].height
  BY <1>2, <1>3
<1>6. SameLook(t, t1)
  BY <1>2, <1>3 DEF SameLook
<1>7. t1 \in Sheets
  BY <1>1, <1>4, <1>6 DEF Sheets, SameLook
<1>8. QED
  BY <1>5, <1>6, <1>7 DEF t1

\* All but the flags of sheet s stays.
LEMMA SetFlags ==
    ASSUME NEW t \in Sheets, NEW s \in Sheet, NEW f \in {0, 1}
    PROVE  LET t1 == [t EXCEPT ![s].flags = f]
           IN  /\ t1 \in Sheets
               /\ \A u \in Sheet : /\ t1[u].height = t[u].height /\ t1[u].buf = t[u].buf
                                   /\ t1[u].vx0 = t[u].vx0 /\ t1[u].vy0 = t[u].vy0
                                   /\ t1[u].flags = IF u = s THEN f ELSE t[u].flags
<1> DEFINE t1 == [t EXCEPT ![s].flags = f]
           r1 == [t[s] EXCEPT !.flags = f]
<1>1. t \in [Sheet -> SheetRec] /\ \A u \in Sheet : Filled(u, t[u].buf)
  BY DEF Sheets
<1>2. t1 = [u \in Sheet |-> IF u = s THEN r1 ELSE t[u]]
  BY <1>1
<1>3. /\ r1 \in SheetRec /\ r1.flags = f /\ r1.height = t[s].height
      /\ r1.vx0 = t[s].vx0 /\ r1.vy0 = t[s].vy0 /\ r1.buf = t[s].buf
  BY <1>1, RecFlags
<1> HIDE DEF t1, r1
<1>4. t1 \in [Sheet -> SheetRec]
  BY <1>1, <1>2, <1>3
<1>5. \A u \in Sheet : /\ t1[u].height = t[u].height /\ t1[u].buf = t[u].buf
                       /\ t1[u].vx0 = t[u].vx0 /\ t1[u].vy0 = t[u].vy0
                       /\ t1[u].flags = IF u = s THEN f ELSE t[u].flags
  BY <1>2, <1>3
<1>6. t1 \in Sheets
  BY <1>1, <1>4, <1>5 DEF Sheets
<1>7. QED
  BY <1>5, <1>6 DEF t1

\* What a sheet looks like depends on its corner and its buffer.
LEMMA LookSame ==
    ASSUME NEW t, NEW t1, NEW u, t1[u].vx0 = t[u].vx0, t1[u].vy0 = t[u].vy0, t1[u].buf = t[u].buf
    PROVE  /\ Rect(t1, u) = Rect(t, u)
           /\ \A p : PixelAt(t1, u, p) = PixelAt(t, u, p)
           /\ \A p : Covers(t1, u, p) <=> Covers(t, u, p)
<1>1. Rect(t1, u) = Rect(t, u)
  BY DEF Rect
<1>2. \A p : PixelAt(t1, u, p) = PixelAt(t, u, p)
  BY DEF PixelAt
<1>3. QED
  BY <1>1, <1>2 DEF Covers

\* The background covers every point; what covers a point has a colour there.
LEMMA BackCovers ==
    ASSUME NEW t \in Sheets, t[Back].vx0 = 0, t[Back].vy0 = 0, NEW p \in Screen
    PROVE  Covers(t, Back, p)
<1>1. <<p[1] - 0, p[2] - 0>> = p
  BY SizeAssumption DEF Screen
<1>2. p \in Box(Back) /\ p \notin HolesOf[Back]
  BY BackAssumption
<1>3. p \in Rect(t, Back)
  BY <1>1, <1>2 DEF Rect
<1>4. t[Back].buf[p] # col_inv
  BY <1>2, BackIsSheet, FieldsOf DEF Filled
<1>5. QED
  BY <1>1, <1>3, <1>4 DEF Covers, PixelAt

\* What covers a point has a colour there, not the transparent one.
LEMMA CoverColour ==
    ASSUME NEW t \in Sheets, NEW u \in Sheet, NEW p, Covers(t, u, p)
    PROVE  PixelAt(t, u, p) \in Colours
<1>1. <<p[1] - t[u].vx0, p[2] - t[u].vy0>> \in Box(u) /\ PixelAt(t, u, p) # col_inv
  BY DEF Covers, Rect
<1>2. PixelAt(t, u, p) \in Colours \cup {col_inv}
  BY <1>1, FieldsOf DEF Filled, PixelAt
<1>3. QED
  BY <1>1, <1>2

\* There is one topmost sheet at a point.
LEMMA TopsUnique ==
    ASSUME NEW c, NEW t \in Sheets, Stack(c, t), NEW p, NEW a, NEW b, Tops(t, p, a), Tops(t, p, b)
    PROVE  a = b
<1>1. /\ a \in Sheet /\ b \in Sheet /\ t[a].height >= 0 /\ t[b].height >= 0
      /\ ~ t[a].height > t[b].height /\ ~ t[b].height > t[a].height
  BY DEF Tops
<1>2. t[a].height \in Int /\ t[b].height \in Int
  BY <1>1, FieldsOf
<1>3. t[a].height = t[b].height
  BY <1>1, <1>2
<1>4. QED
  BY <1>1, <1>3 DEF Stack

\* The maximum of a set of integers within bounds is its greatest element.
LEMMA HighestOf ==
    ASSUME NEW S, NEW lo \in Int, NEW hi \in Int, S \subseteq lo .. hi, S # {}
    PROVE  Max(S) \in S /\ \A x \in S : x <= Max(S)
<1> DEFINE T == {hi - x : x \in S}
<1>1. T \subseteq Nat /\ T # {}
  OBVIOUS
<1>2. \E n \in T : \A y \in T : ~ (<<y, n>> \in OpToRel(<, Nat))
  <2> HIDE DEF T
  <2> QED
    BY <1>1, WFMin, NatLessThanWellFounded, Zenon
<1>3. \A x, y \in Nat : y < x => <<y, x>> \in OpToRel(<, Nat)
  BY Zenon DEF OpToRel
<1>4. PICK n \in T : \A y \in T : ~ (y < n)
  <2> HIDE DEF T
  <2> QED
    BY <1>1, <1>2, <1>3, Zenon
<1>5. PICK m \in S : n = hi - m
  OBVIOUS
<1>6. \A x \in S : ~ (hi - x < hi - m)
  BY <1>4, <1>5
<1>7. \A x \in S : x <= m
  BY <1>6
<1>8. \E z \in S : \A x \in S : z >= x
  BY <1>7
<1>9. QED
  BY <1>8 DEF Max

\* A set of one number.
LEMMA OnlyOne == ASSUME NEW x \in Int PROVE Max({x}) = x
BY DEF Max

-----------------------------------------------------------------------------
(* What the parts of the code's functions do.                               *)

\* sheet_refreshmap: at the points of the area that a sheet from h0 up covers,
\* the map names the topmost sheet; elsewhere it stays.
LEMMA RefreshMap ==
    ASSUME NEW c \in Ctl, NEW t \in Sheets, Stack(c, t), NEW area, NEW h0 \in Nat
    PROVE  LET c1 == sheet_refreshmap(c, t, area, h0)
               Covering(p) == \E u \in Sheet : t[u].height >= h0 /\ Covers(t, u, p)
           IN  /\ c1 \in Ctl /\ c1.top = c.top /\ c1.sheets = c.sheets /\ c1.vram = c.vram
               /\ \A p \in Screen : p \in area /\ Covering(p) =>
                      Tops(t, p, c1.map[p]) /\ t[c1.map[p]].height >= h0
               /\ \A p \in Screen : ~ (p \in area /\ Covering(p)) => c1.map[p] = c.map[p]
<1> DEFINE c1 == sheet_refreshmap(c, t, area, h0)
           Covering(p) == \E u \in Sheet : t[u].height >= h0 /\ Covers(t, u, p)
           new == [p \in Screen |-> IF p \in area /\ Covered(c, t, h0, p) # {}
                                    THEN c.sheets[Max(Covered(c, t, h0, p))] ELSE c.map[p]]
<1>1. c.top \in Nat /\ c.top \in Int
  BY DEF Stack
<1>2. ASSUME NEW p \in Screen
      PROVE  Covering(p) <=> Covered(c, t, h0, p) # {}
  <2>1. ASSUME NEW u \in Sheet, t[u].height >= h0, Covers(t, u, p)
        PROVE  t[u].height \in Covered(c, t, h0, p)
    <3>1. t[u].height \in h0 .. c.top /\ c.sheets[t[u].height] = u
      BY <2>1, <1>1 DEF Stack
    <3>2. QED
      BY <2>1, <3>1 DEF Covered
  <2>2. ASSUME NEW h \in Covered(c, t, h0, p)
        PROVE  c.sheets[h] \in Sheet /\ t[c.sheets[h]].height >= h0 /\ Covers(t, c.sheets[h], p)
    <3>1. h \in h0 .. c.top /\ Covers(t, c.sheets[h], p)
      BY DEF Covered
    <3>2. h \in 0 .. c.top
      BY <3>1, <1>1
    <3>3. c.sheets[h] \in Sheet /\ t[c.sheets[h]].height = h
      BY <3>2 DEF Stack
    <3>4. QED
      BY <3>1, <3>3
  <2>3. QED
    BY <2>1, <2>2
<1>3. ASSUME NEW p \in Screen, Covered(c, t, h0, p) # {}
      PROVE  LET o == c.sheets[Max(Covered(c, t, h0, p))]
             IN  Tops(t, p, o) /\ t[o].height >= h0
  <2> DEFINE m == Max(Covered(c, t, h0, p))
  <2>1. Covered(c, t, h0, p) \subseteq h0 .. c.top
    BY DEF Covered
  <2>2. m \in Covered(c, t, h0, p) /\ \A x \in Covered(c, t, h0, p) : x <= m
    <3>1. h0 \in Int /\ c.top \in Int /\ Covered(c, t, h0, p) # {}
      BY <1>1, <1>3
    <3>2. QED
      BY <2>1, <3>1, HighestOf, Zenon
  <2> HIDE DEF m
  <2>3. m \in h0 .. c.top /\ m \in 0 .. c.top /\ Covers(t, c.sheets[m], p)
    BY <1>1, <2>2 DEF Covered
  <2>4. c.sheets[m] \in Sheet /\ t[c.sheets[m]].height = m
    BY <2>3 DEF Stack
  <2>5. ASSUME NEW u \in Sheet, t[u].height > m, Covers(t, u, p) PROVE FALSE
    <3>1. t[u].height \in h0 .. c.top /\ c.sheets[t[u].height] = u
      BY <2>3, <2>5, <1>1 DEF Stack
    <3>2. t[u].height \in Covered(c, t, h0, p)
      BY <2>5, <3>1 DEF Covered
    <3>3. QED
      BY <2>2, <2>3, <2>5, <3>1, <3>2
  <2>6. m >= 0 /\ m >= h0
    BY <2>3
  <2>7. Tops(t, p, c.sheets[m]) /\ t[c.sheets[m]].height >= h0
    BY <2>3, <2>4, <2>5, <2>6 DEF Tops
  <2>8. QED
    BY <2>7 DEF m
<1>4. c1 = [c EXCEPT !.map = new]
  BY DEF sheet_refreshmap
<1>5. new \in [Screen -> Sheet]
  <2>1. c.map \in [Screen -> Sheet]
    BY DEF Ctl
  <2>2. \A p \in Screen : Covered(c, t, h0, p) # {} => c.sheets[Max(Covered(c, t, h0, p))] \in Sheet
    BY <1>3 DEF Tops
  <2>3. QED
    BY <2>1, <2>2
<1>6. \A p \in Screen :
          /\ Covering(p) /\ p \in area => Tops(t, p, new[p]) /\ t[new[p]].height >= h0
          /\ ~ (p \in area /\ Covering(p)) => new[p] = c.map[p]
  BY <1>2, <1>3
<1> HIDE DEF new, Covering, c1
<1>7. /\ c1 \in Ctl /\ c1.top = c.top /\ c1.sheets = c.sheets /\ c1.vram = c.vram
      /\ c1.map = new
  BY <1>4, <1>5 DEF Ctl
<1>8. QED
  BY <1>6, <1>7 DEF c1, Covering

Redrawn(c, c1, t, area, h0, h1) ==
    /\ c1 \in Ctl /\ c1.top = c.top /\ c1.sheets = c.sheets /\ c1.map = c.map
    /\ \A p \in Screen : c1.vram[p] = IF p \in area /\ t[c.map[p]].height \in h0 .. h1
                                      THEN PixelAt(t, c.map[p], p) ELSE c.vram[p]

\* sheet_refreshsub: the points of the area whose owner lies between h0 and h1
\* are drawn; the others stay.
LEMMA RefreshSub ==
    ASSUME NEW c \in Ctl, NEW t \in Sheets, Stack(c, t), MapRight(c, t), NEW area,
           NEW h0 \in Int, NEW h1 \in Int, h0 >= 0, h1 <= c.top
    PROVE  Redrawn(c, sheet_refreshsub(c, t, area, h0, h1), t, area, h0, h1)
<1> DEFINE Draws(p) == \E h \in h0 .. h1 : c.sheets[h] = c.map[p] /\ p \in Rect(t, c.map[p])
           new == [p \in Screen |-> IF p \in area /\ Draws(p) THEN PixelAt(t, c.map[p], p)
                                    ELSE c.vram[p]]
           c1 == sheet_refreshsub(c, t, area, h0, h1)
<1>1. c1 = [c EXCEPT !.vram = new]
  BY DEF sheet_refreshsub
<1>2. ASSUME NEW p \in Screen PROVE Draws(p) <=> t[c.map[p]].height \in h0 .. h1
  <2>1. /\ c.map[p] \in Sheet /\ Covers(t, c.map[p], p) /\ t[c.map[p]].height >= 0
        /\ c.top \in Int
    BY DEF MapRight, Tops, Stack
  <2>2. p \in Rect(t, c.map[p])
    BY <2>1 DEF Covers
  <2>3. c.sheets[t[c.map[p]].height] = c.map[p]
    BY <2>1 DEF Stack
  <2>4. \A h \in h0 .. h1 : c.sheets[h] = c.map[p] => t[c.map[p]].height = h
    BY <2>1 DEF Stack
  <2>5. QED
    BY <2>2, <2>3, <2>4
<1>3. \A p \in Screen : new[p] = IF p \in area /\ t[c.map[p]].height \in h0 .. h1
                                 THEN PixelAt(t, c.map[p], p) ELSE c.vram[p]
  BY <1>2
<1>4. new \in [Screen -> Colours]
  <2>1. \A p \in Screen : PixelAt(t, c.map[p], p) \in Colours
    BY CoverColour DEF MapRight, Tops
  <2>2. c.vram \in [Screen -> Colours]
    BY DEF Ctl
  <2>3. QED
    BY <2>1, <2>2
<1> HIDE DEF new, Draws, c1
<1>5. /\ c1 \in Ctl /\ c1.top = c.top /\ c1.sheets = c.sheets /\ c1.map = c.map
      /\ c1.vram = new
  BY <1>1, <1>4 DEF Ctl
<1>6. QED
  BY <1>3, <1>5 DEF c1, Redrawn

\* The array of c holds the sheets at the heights H.
Fits(c, H) ==
    /\ H \in [Sheet -> Int]
    /\ c.top \in 0 .. MAX_SHEETS - 1
    /\ \A u \in Sheet : H[u] \in -1 .. c.top
    /\ \A h \in 0 .. c.top : c.sheets[h] \in Sheet /\ H[c.sheets[h]] = h
    /\ \A u \in Sheet : H[u] >= 0 => c.sheets[H[u]] = u

HasHeights(t, H) == \A u \in Sheet : t[u].height = H[u]

\* The sheets whose height is not to be set bear it.
OthersBear(t, H, moved) == \A u \in Sheet : H[u] \notin moved => t[u].height = H[u]

\* Renumber gives the sheets the heights H that fit the array, when those it
\* does not number bear theirs already.
LEMMA Renumbered ==
    ASSUME NEW c \in Ctl, NEW t \in Sheets, NEW H, Fits(c, H),
           NEW moved, moved \subseteq 0 .. c.top, OthersBear(t, H, moved),
           NEW t1, t1 = Renumber(t, c.sheets, moved)
    PROVE  t1 \in Sheets /\ SameLook(t, t1) /\ Stack(c, t1) /\ HasHeights(t1, H)
<1> DEFINE At(u) == {h \in moved : c.sheets[h] = u}
<1> USE DEF Fits, OthersBear
<1>1. ASSUME NEW u \in Sheet
      PROVE  /\ t1[u] \in SheetRec /\ t1[u].height = H[u] /\ t1[u].flags = t[u].flags
             /\ t1[u].vx0 = t[u].vx0 /\ t1[u].vy0 = t[u].vy0 /\ t1[u].buf = t[u].buf
  <2>1. t1[u] = IF At(u) = {} THEN t[u] ELSE [t[u] EXCEPT !.height = Max(At(u))]
    BY DEF Renumber
  <2>2. t[u] \in SheetRec
    BY FieldsOf
  <2>3. \A h \in At(u) : h \in moved /\ h = H[u]
    OBVIOUS
  <2>4. CASE At(u) = {}
    <3>1. H[u] \notin moved
      <4>1. H[u] \in moved => H[u] \in At(u)
        OBVIOUS
      <4>2. QED
        BY <4>1, <2>4
    <3>2. QED
      <4>1. t1[u] = t[u]
        BY <2>1, <2>4
      <4>2. t[u].height = H[u]
        BY <3>1
      <4>3. QED
        BY ONLY <2>2, <4>1, <4>2
  <2>5. CASE At(u) # {}
    <3>1. At(u) = {H[u]}
      BY <2>3, <2>5
    <3>2. H[u] \in Int
      OBVIOUS
    <3>3. Max(At(u)) = H[u]
      BY <3>1, <3>2, OnlyOne
    <3>4. t1[u] = [t[u] EXCEPT !.height = H[u]]
      BY <2>1, <2>5, <3>3
    <3> HIDE DEF At
    <3>5. QED
      BY <2>2, <3>2, <3>4, RecHeight
  <2>6. QED
    BY <2>4, <2>5
<1>2. t1 = [u \in Sheet |-> t1[u]]
  BY DEF Renumber
<1> HIDE DEF At
<1>3. t1 \in [Sheet -> SheetRec]
  BY <1>1, <1>2
<1>4. SameLook(t, t1)
  BY <1>1 DEF SameLook
<1>5. t1 \in Sheets
  BY <1>3, <1>4 DEF Sheets, SameLook
<1>6. Stack(c, t1)
  BY <1>1 DEF Stack
<1>7. HasHeights(t1, H)
  BY <1>1 DEF HasHeights
<1>8. QED
  BY <1>4, <1>5, <1>6, <1>7

\* One sheet s is restacked: all else keeps its order.  Where s has not covered
\* a point, its topmost sheet stays; where s has, the code renews the map from h0
\* up, which is right when s can only have lost points to sheets from h0 up, and
\* then draws h0 to h1, which is enough when above h1 nothing can have changed.
Kept(t, t1, s) ==
    \A u, v \in Sheet \ {s} : /\ t1[u].height > t1[v].height <=> t[u].height > t[v].height
                              /\ t1[u].height >= 0 <=> t[u].height >= 0

\* The restacked sheet draws right (see Kept).
LEMMA Restacked ==
    ASSUME NEW c \in Ctl, NEW t \in Sheets, Stack(c, t), MapRight(c, t), Drawn(c, t), BackShown(t),
           NEW c1 \in Ctl, NEW t1 \in Sheets, Stack(c1, t1), SameLook(t, t1),
           c1.map = c.map, c1.vram = c.vram,
           NEW s \in Sheet, s # Back, Kept(t, t1, s),
           NEW h0 \in Nat, NEW h1 \in Int, h1 <= c1.top,
           t1[s].height >= h0 - 1, t1[s].height >= 0 \/ h0 = 0, t1[s].height <= h1 \/ t1[s].height < 0,
           \A u \in Sheet \ {s} : /\ t1[u].height >= 0 /\ t1[s].height > t1[u].height /\ t1[s].height < h0
                                  => t[s].height > t[u].height,
           \A u \in Sheet \ {s} : t1[u].height >= h0 /\ t1[u].height > h1
                                  => t[u].height > t[s].height
    PROVE  LET c2 == sheet_refreshmap(c1, t1, Rect(t1, s), h0)
           IN  Right(sheet_refreshsub(c2, t1, Rect(t1, s), h0, h1), t1)
<1> DEFINE area == Rect(t1, s)
           c2 == sheet_refreshmap(c1, t1, area, h0)
           c3 == sheet_refreshsub(c2, t1, area, h0, h1)
           Covering(p) == \E u \in Sheet : t1[u].height >= h0 /\ Covers(t1, u, p)
<1>1. /\ c2 \in Ctl /\ c2.top = c1.top /\ c2.sheets = c1.sheets /\ c2.vram = c1.vram
      /\ \A p \in Screen : p \in area /\ Covering(p) =>
             Tops(t1, p, c2.map[p]) /\ t1[c2.map[p]].height >= h0
      /\ \A p \in Screen : ~ (p \in area /\ Covering(p)) => c2.map[p] = c.map[p]
  <2> HIDE DEF area
  <2> QED
    BY RefreshMap
<1>2. \A u \in Sheet : /\ t[u].height \in Int /\ t1[u].height \in Int
                       /\ \A p : Covers(t1, u, p) <=> Covers(t, u, p)
                       /\ \A p : PixelAt(t1, u, p) = PixelAt(t, u, p)
  BY FieldsOf, LookSame DEF SameLook
<1>3. \A p : Covers(t, s, p) => p \in area
  BY <1>2 DEF Covers
<1>4. BackShown(t1)
  BY BackIsSheet DEF BackShown, SameLook, Kept
<1> HIDE DEF area, c2, c3, Covering
<1>5. ASSUME NEW p \in Screen
      PROVE  Tops(t1, p, c2.map[p])
  <2> DEFINE o == c.map[p]
  <2>1. Tops(t, p, o)
    BY DEF MapRight
  <2> HIDE DEF o
  <2>2. o \in Sheet /\ t[o].height >= 0 /\ Covers(t1, o, p)
    BY <2>1, <1>2 DEF Tops
  <2>3. ASSUME o # s,
               Covers(t, s, p) => /\ p \in area /\ ~ Covering(p)
        PROVE  Tops(t1, p, o)
    <3>1. t1[o].height >= 0
      BY <2>2, <2>3 DEF Kept
    <3>2. ASSUME NEW u \in Sheet, t1[u].height > t1[o].height, Covers(t1, u, p) PROVE FALSE
      <4>1. CASE u # s
        <5>1. t[u].height > t[o].height
          BY <2>2, <2>3, <3>2, <4>1 DEF Kept
        <5>2. QED
          BY <2>1, <3>2, <5>1, <1>2 DEF Tops
      <4>2. CASE u = s
        <5>1. Covers(t, s, p)
          BY <3>2, <4>2, <1>2
        <5>2. t1[s].height < h0
          BY <2>3, <3>2, <4>2, <5>1, <1>2 DEF Covering
        <5>3. t[s].height > t[o].height
          BY <2>2, <2>3, <3>1, <3>2, <4>2, <5>2
        <5>4. QED
          BY <2>1, <5>1, <5>3 DEF Tops
      <4>3. QED
        BY <4>1, <4>2
    <3>3. QED
      BY <2>2, <3>1, <3>2 DEF Tops
  <2>4. CASE p \in area /\ Covering(p)
    BY <1>1, <2>4
  <2>5. CASE ~ (p \in area /\ Covering(p))
    <3>1. c2.map[p] = o
      BY <1>1, <2>5 DEF o
    <3>2. CASE o # s
      BY <1>3, <2>3, <2>5, <3>1, <3>2
    <3>3. CASE o = s
      <4>1. p \in area /\ ~ Covering(p)
        BY <1>2, <1>3, <2>2, <2>5, <3>3
      <4>2. t1[s].height < h0
        BY <1>2, <2>2, <3>3, <4>1 DEF Covering
      <4>3. h0 # 0
        <5>1. Covers(t1, Back, p) /\ t1[Back].height >= 0
          BY <1>4, BackCovers DEF BackShown
        <5>2. QED
          BY <4>1, <5>1, BackIsSheet DEF Covering
      <4>4. t1[s].height >= 0
        BY <4>3
      <4>5. \A u \in Sheet : t1[u].height > t1[s].height => t1[u].height >= h0
        BY <1>2
      <4>6. \A u \in Sheet : t1[u].height > t1[s].height => ~ Covers(t1, u, p)
        BY <4>1, <4>5 DEF Covering
      <4>7. QED
        BY <2>2, <3>1, <3>3, <4>4, <4>6 DEF Tops
    <3>4. QED
      BY <3>2, <3>3
  <2>6. QED
    BY <2>4, <2>5
<1>6. MapRight(c2, t1) /\ Stack(c2, t1)
  BY <1>1, <1>5 DEF MapRight, Stack
<1>7. /\ c3 \in Ctl /\ c3.top = c2.top /\ c3.sheets = c2.sheets /\ c3.map = c2.map
      /\ \A p \in Screen : c3.vram[p] =
             IF p \in area /\ t1[c2.map[p]].height \in h0 .. h1
             THEN PixelAt(t1, c2.map[p], p) ELSE c2.vram[p]
  <2>1. h0 \in Int /\ h0 >= 0 /\ h1 <= c2.top
    BY <1>1
  <2>2. Redrawn(c2, c3, t1, area, h0, h1)
    BY <1>1, <1>6, <2>1, RefreshSub DEF c3
  <2>3. QED
    BY <2>2 DEF Redrawn
<1>8. ASSUME NEW p \in Screen, ~ (p \in area /\ t1[c2.map[p]].height \in h0 .. h1)
      PROVE  c2.map[p] = c.map[p]
  <2>1. CASE ~ (p \in area /\ Covering(p))
    BY <1>1, <2>1
  <2>2. CASE p \in area /\ Covering(p)
    <3> DEFINE n == c2.map[p]
    <3>1. Tops(t1, p, n) /\ t1[n].height >= h0
      BY <1>1, <2>2
    <3> HIDE DEF n
    <3>2. /\ n \in Sheet /\ t1[n].height \in Int /\ t1[n].height >= 0 /\ t1[n].height > h1
          /\ Covers(t, n, p)
      <4>1. n \in Sheet /\ t1[n].height >= 0 /\ Covers(t1, n, p)
        BY <3>1 DEF Tops
      <4>2. t1[n].height \in Int /\ Covers(t, n, p)
        BY <4>1, <1>2
      <4>3. ~ t1[n].height \in h0 .. h1
        BY <1>8, <2>2 DEF n
      <4>4. QED
        BY <3>1, <4>1, <4>2, <4>3
    <3>3. n # s
      BY <3>2
    <3>4. t[n].height > t[s].height
      BY <3>1, <3>2, <3>3
    <3>5. t[n].height >= 0
      BY <3>2, <3>3 DEF Kept
    <3>6. ASSUME NEW u \in Sheet, t[u].height > t[n].height, Covers(t, u, p) PROVE FALSE
      <4>1. u # s
        BY <3>2, <3>4, <3>6, <1>2
      <4>2. t1[u].height > t1[n].height
        BY <3>2, <3>3, <3>6, <4>1 DEF Kept
      <4>3. QED
        BY <3>1, <3>6, <4>2, <1>2 DEF Tops
    <3>7. Tops(t, p, n)
      BY <3>2, <3>5, <3>6 DEF Tops
    <3>8. Tops(t, p, c.map[p])
      BY DEF MapRight
    <3>9. n = c.map[p]
      BY <3>7, <3>8, TopsUnique
    <3>10. QED
      BY <3>9 DEF n
  <2>3. QED
    BY <2>1, <2>2
<1>9. Drawn(c3, t1)
  <2>1. ASSUME NEW p \in Screen PROVE c3.vram[p] = PixelAt(t1, c2.map[p], p)
    <3>1. CASE p \in area /\ t1[c2.map[p]].height \in h0 .. h1
      BY <1>7, <3>1
    <3>2. CASE ~ (p \in area /\ t1[c2.map[p]].height \in h0 .. h1)
      <4>1. c3.vram[p] = c.vram[p] /\ c2.map[p] = c.map[p] /\ c.map[p] \in Sheet
        BY <1>1, <1>7, <1>8, <3>2 DEF Ctl
      <4>2. QED
        BY <4>1, <1>2 DEF Drawn
    <3>3. QED
      BY <3>1, <3>2
  <2>2. QED
    BY <1>7, <2>1 DEF Drawn
<1>10. MapRight(c3, t1) /\ Stack(c3, t1)
  BY <1>6, <1>7 DEF MapRight, Stack
<1>11. QED
  BY <1>4, <1>7, <1>9, <1>10 DEF Right, area, c2, c3

-----------------------------------------------------------------------------
(* The four ways of sheet_updown.                                           *)

Moved(t, t1, s) == SameLook(t, t1) /\ Kept(t, t1, s)

\* A height below or at top is the index of an entry, and the height of its sheet.
LEMMA Entry ==
    ASSUME NEW c \in Ctl, NEW t \in Sheets, Stack(c, t)
    PROVE  /\ c.top \in Int /\ c.top \in 0 .. MAX_SHEETS - 1
           /\ \A h \in 0 .. c.top : h \in Sheet /\ c.sheets[h] \in Sheet /\ t[c.sheets[h]].height = h
           /\ \A u \in Sheet : /\ t[u].height \in Int /\ t[u].height \in -1 .. c.top
                               /\ t[u].height >= 0 => c.sheets[t[u].height] = u
           /\ \A u, v \in Sheet : t[u].height = t[v].height /\ t[u].height >= 0 => u = v
<1>1. c.top \in 0 .. MAX_SHEETS - 1 /\ MAX_SHEETS \in Nat
  BY SizeAssumption DEF Stack
<1>2. c.top \in Int /\ \A h \in 0 .. c.top : h \in Sheet
  BY <1>1 DEF Sheet
<1>3. \A u \in Sheet : t[u].height \in Int
  BY FieldsOf
<1>4. QED
  BY <1>1, <1>2, <1>3 DEF Stack

\* The heights H order all sheets but s as they are in t.
KeptBy(H, t, s) == \A u, v \in Sheet \ {s} : /\ H[u] > H[v] <=> t[u].height > t[v].height
                                             /\ H[u] >= 0 <=> t[u].height >= 0

\* Renewing from h0 and drawing to h1 is enough when sheet s goes to H[s].
Enough(H, t, s, h0, h1) ==
    /\ H[s] >= h0 - 1 /\ (H[s] >= 0 \/ h0 = 0) /\ (H[s] <= h1 \/ H[s] < 0)
    /\ \A u \in Sheet \ {s} : H[u] >= 0 /\ H[s] > H[u] /\ H[s] < h0 => t[s].height > t[u].height
    /\ \A u \in Sheet \ {s} : H[u] >= h0 /\ H[u] > h1 => t[u].height > t[s].height

\* The sheets whose entries have not moved bear their heights already.
Settled(H, t, s, moved) == \A u \in Sheet \ {s} : H[u] \notin moved => t[u].height = H[u]

\* Sheet s gets its height, the array becomes that of c1, its heights H.
LEMMA Branch ==
    ASSUME NEW c, NEW t, Right(c, t), NEW s \in Sheet, s # Back, NEW n \in Int,
           NEW c1 \in Ctl, c1.map = c.map, c1.vram = c.vram,
           NEW H, Fits(c1, H), H[s] = n, KeptBy(H, t, s),
           NEW moved, moved \subseteq 0 .. c1.top,
           Settled(H, t, s, moved),
           NEW h0 \in Nat, NEW h1 \in Int, h1 <= c1.top, Enough(H, t, s, h0, h1),
           NEW t1, t1 = Renumber([t EXCEPT ![s].height = n], c1.sheets, moved)
    PROVE  LET c2 == sheet_refreshmap(c1, t1, Rect(t1, s), h0)
           IN  /\ Right(sheet_refreshsub(c2, t1, Rect(t1, s), h0, h1), t1)
               /\ Moved(t, t1, s) /\ t1[s].height = n
<1> DEFINE t0 == [t EXCEPT ![s].height = n]
<1>1. c \in Ctl /\ t \in Sheets /\ Stack(c, t) /\ MapRight(c, t) /\ Drawn(c, t) /\ BackShown(t)
  BY DEF Right
<1>2. /\ t0 \in Sheets /\ SameLook(t, t0)
      /\ \A u \in Sheet : t0[u].height = IF u = s THEN n ELSE t[u].height
  BY <1>1, SetHeight
<1> HIDE DEF t0
<1>3. OthersBear(t0, H, moved)
  BY <1>2 DEF Settled, OthersBear
<1>4. /\ t1 \in Sheets /\ SameLook(t0, t1) /\ Stack(c1, t1)
      /\ \A u \in Sheet : t1[u].height = H[u]
  <2>1. t1 = Renumber(t0, c1.sheets, moved)
    BY DEF t0
  <2>2. t1 \in Sheets /\ SameLook(t0, t1) /\ Stack(c1, t1) /\ HasHeights(t1, H)
    <3>1. t0 \in Sheets
      BY <1>2
    <3>2. t1 \in Sheets /\ SameLook(t0, t1) /\ Stack(c1, t1) /\ HasHeights(t1, H)
      BY ONLY c1 \in Ctl, <3>1, Fits(c1, H), moved \subseteq 0 .. c1.top, <1>3, <2>1, Renumbered
    <3>3. QED
      BY <3>2
  <2>3. QED
    BY <2>2 DEF HasHeights
<1>5. SameLook(t, t1)
  BY ONLY <1>2, <1>4 DEF SameLook
<1>6. Kept(t, t1, s)
  BY <1>4 DEF Kept, KeptBy
<1>7. /\ t1[s].height >= h0 - 1 /\ (t1[s].height >= 0 \/ h0 = 0)
      /\ (t1[s].height <= h1 \/ t1[s].height < 0) /\ t1[s].height = n
  BY <1>4 DEF Enough
<1>8. \A u \in Sheet \ {s} : /\ t1[u].height >= 0 /\ t1[s].height > t1[u].height
                             /\ t1[s].height < h0
                             => t[s].height > t[u].height
  BY <1>4 DEF Enough
<1>9. \A u \in Sheet \ {s} : t1[u].height >= h0 /\ t1[u].height > h1
                             => t[u].height > t[s].height
  BY <1>4 DEF Enough
<1>10. Right(sheet_refreshsub(sheet_refreshmap(c1, t1, Rect(t1, s), h0),
                              t1, Rect(t1, s), h0, h1), t1)
  BY <1>1, <1>4, <1>5, <1>6, <1>7, <1>8, <1>9, Restacked
<1>11. QED
  BY <1>5, <1>6, <1>7, <1>10 DEF Moved

\* The heights when s goes to new and the entries from new to old move up, and
\* when s goes to n and the entries from old to new move down.
UpFrom(t, s, old, new) ==
    [u \in Sheet |-> IF u = s THEN new
                     ELSE IF new <= t[u].height /\ t[u].height < old THEN t[u].height + 1
                     ELSE t[u].height]
DownFrom(t, s, old, new, n) ==
    [u \in Sheet |-> IF u = s THEN n
                     ELSE IF old < t[u].height /\ t[u].height <= new THEN t[u].height - 1
                     ELSE t[u].height]

\* The entries from new up make way for s at new.
LEMMA EntriesUp ==
    ASSUME NEW c \in Ctl, NEW t \in Sheets, Stack(c, t), NEW s \in Sheet,
           NEW old \in Int, NEW new \in Int, new >= 0, new <= old,
           NEW c1 \in Ctl, c1.top \in 0 .. MAX_SHEETS - 1,
           \/ old = t[s].height /\ c1.top = c.top
           \/ old = c.top + 1 /\ c1.top = c.top + 1 /\ t[s].height = -1,
           \A h \in 0 .. c1.top : c1.sheets[h] = IF h = new THEN s
                                                 ELSE IF new < h /\ h <= old THEN c.sheets[h - 1]
                                                 ELSE c.sheets[h]
    PROVE  LET H == UpFrom(t, s, old, new)
           IN  Fits(c1, H) /\ H[s] = new /\ KeptBy(H, t, s) /\ Settled(H, t, s, new + 1 .. old)
<1> DEFINE H == UpFrom(t, s, old, new)
<1>1. /\ c.top \in Int /\ c.top \in 0 .. MAX_SHEETS - 1
      /\ \A h \in 0 .. c.top : h \in Sheet /\ c.sheets[h] \in Sheet /\ t[c.sheets[h]].height = h
      /\ \A u \in Sheet : /\ t[u].height \in Int /\ t[u].height \in -1 .. c.top
                          /\ t[u].height >= 0 => c.sheets[t[u].height] = u
      /\ \A u, v \in Sheet : t[u].height = t[v].height /\ t[u].height >= 0 => u = v
  BY Entry
<1>2. MAX_SHEETS \in Int /\ c.top \in Int /\ c1.top \in Int /\ c.top <= c1.top /\ old <= c1.top
  BY <1>1, SizeAssumption
<1>3. /\ H \in [Sheet -> Int] /\ H[s] = new
      /\ \A u \in Sheet \ {s} : H[u] = IF new <= t[u].height /\ t[u].height < old
                                       THEN t[u].height + 1 ELSE t[u].height
  BY <1>1 DEF UpFrom
<1> HIDE DEF H
<1>4. \A u \in Sheet \ {s} : t[u].height \in Int /\ t[u].height # old
                             /\ t[u].height >= -1 /\ t[u].height <= c.top
  BY <1>1, <1>2
<1>5. \A u \in Sheet : H[u] \in -1 .. c1.top
  BY <1>2, <1>3, <1>4
<1>6. ASSUME NEW h \in 0 .. c1.top PROVE c1.sheets[h] \in Sheet /\ H[c1.sheets[h]] = h
  <2>1. CASE h = new
    BY <1>3, <2>1
  <2>2. CASE new < h /\ h <= old
    <3>1. c1.sheets[h] = c.sheets[h - 1] /\ h - 1 \in 0 .. c.top
      BY <1>2, <2>2
    <3>2. c1.sheets[h] \in Sheet /\ t[c1.sheets[h]].height = h - 1
      BY <1>1, <3>1
    <3>3. c1.sheets[h] # s
      BY <1>2, <2>2, <3>1, <3>2
    <3>4. QED
      BY <1>3, <2>2, <3>2, <3>3
  <2>3. CASE h < new \/ h > old
    <3>1. c1.sheets[h] = c.sheets[h] /\ h \in 0 .. c.top
      BY <1>2, <2>3
    <3>2. c1.sheets[h] \in Sheet /\ t[c1.sheets[h]].height = h
      BY <1>1, <3>1
    <3>3. c1.sheets[h] # s
      BY <1>2, <2>3, <3>2
    <3>4. QED
      BY <1>3, <2>3, <3>2, <3>3
  <2>4. QED
    BY <2>1, <2>2, <2>3
<1>7. ASSUME NEW u \in Sheet, H[u] >= 0 PROVE c1.sheets[H[u]] = u
  <2>1. CASE u = s
    <3>1. new \in 0 .. c1.top
      BY <1>2
    <3>2. QED
      BY <1>3, <2>1, <3>1
  <2>2. CASE u # s
    <3>1. /\ t[u].height >= 0 /\ t[u].height <= c.top /\ t[u].height # old
          /\ t[u].height \in Int /\ c.sheets[t[u].height] = u
      BY <1>1, <1>3, <1>4, <1>7, <2>2
    <3>2. CASE new <= t[u].height /\ t[u].height < old
      <4>1. H[u] = t[u].height + 1 /\ H[u] \in 0 .. c1.top
        BY <1>2, <1>3, <2>2, <3>1, <3>2
      <4>2. c1.sheets[H[u]] = c.sheets[H[u] - 1]
        BY <3>1, <3>2, <4>1
      <4>3. QED
        BY <3>1, <4>1, <4>2
    <3>3. CASE t[u].height < new \/ t[u].height > old
      <4>1. H[u] = t[u].height /\ H[u] \in 0 .. c1.top
        BY <1>2, <1>3, <2>2, <3>1, <3>3
      <4>2. QED
        BY <3>1, <3>3, <4>1
    <3>4. QED
      BY <3>1, <3>2, <3>3
  <2>3. QED
    BY <2>1, <2>2
<1>8. Fits(c1, H)
  BY <1>3, <1>5, <1>6, <1>7 DEF Fits
<1>9. KeptBy(H, t, s)
  BY <1>3, <1>4 DEF KeptBy
<1>10. Settled(H, t, s, new + 1 .. old)
  BY <1>3, <1>4 DEF Settled
<1>11. QED
  BY <1>3, <1>8, <1>9, <1>10 DEF H

\* The entries above s move down, s goes to new or is taken out.
LEMMA EntriesDown ==
    ASSUME NEW c \in Ctl, NEW t \in Sheets, Stack(c, t), NEW s \in Sheet,
           NEW old \in Int, NEW new \in Int, NEW n \in Int,
           old = t[s].height, old >= 0, old <= new, new <= c.top,
           NEW c1 \in Ctl, c1.top \in 0 .. MAX_SHEETS - 1,
           \/ n = new /\ c1.top = c.top
           \/ n = -1 /\ new = c.top /\ c1.top = c.top - 1,
           \A h \in 0 .. c1.top : c1.sheets[h] = IF h = new THEN s
                                                 ELSE IF old <= h /\ h < new THEN c.sheets[h + 1]
                                                 ELSE c.sheets[h]
    PROVE  LET H == DownFrom(t, s, old, new, n)
           IN  Fits(c1, H) /\ H[s] = n /\ KeptBy(H, t, s) /\ Settled(H, t, s, old .. new - 1)
<1> DEFINE H == DownFrom(t, s, old, new, n)
<1>1. /\ c.top \in Int /\ c.top \in 0 .. MAX_SHEETS - 1
      /\ \A h \in 0 .. c.top : h \in Sheet /\ c.sheets[h] \in Sheet /\ t[c.sheets[h]].height = h
      /\ \A u \in Sheet : /\ t[u].height \in Int /\ t[u].height \in -1 .. c.top
                          /\ t[u].height >= 0 => c.sheets[t[u].height] = u
      /\ \A u, v \in Sheet : t[u].height = t[v].height /\ t[u].height >= 0 => u = v
  BY Entry
<1>2. MAX_SHEETS \in Int /\ c.top \in Int /\ c1.top \in Int /\ c1.top <= c.top
  BY <1>1, SizeAssumption
<1>3. /\ H \in [Sheet -> Int] /\ H[s] = n
      /\ \A u \in Sheet \ {s} : H[u] = IF old < t[u].height /\ t[u].height <= new
                                       THEN t[u].height - 1 ELSE t[u].height
  BY <1>1 DEF DownFrom
<1> HIDE DEF H
<1>4. \A u \in Sheet \ {s} : t[u].height \in Int /\ t[u].height # old
                             /\ t[u].height >= -1 /\ t[u].height <= c.top
  BY <1>1
<1>5. \A u \in Sheet : H[u] \in -1 .. c1.top
  BY <1>2, <1>3, <1>4
<1>6. ASSUME NEW h \in 0 .. c1.top PROVE c1.sheets[h] \in Sheet /\ H[c1.sheets[h]] = h
  <2>1. CASE h = new
    <3>1. n = new
      BY <1>2, <2>1
    <3>2. QED
      BY <1>3, <2>1, <3>1
  <2>2. CASE old <= h /\ h < new
    <3>1. c1.sheets[h] = c.sheets[h + 1] /\ h + 1 \in 0 .. c.top
      BY <1>2, <2>2
    <3>2. c1.sheets[h] \in Sheet /\ t[c1.sheets[h]].height = h + 1
      BY <1>1, <3>1
    <3>3. c1.sheets[h] # s
      BY <1>2, <2>2, <3>1, <3>2
    <3>4. QED
      BY <1>3, <2>2, <3>2, <3>3
  <2>3. CASE h < old \/ h > new
    <3>1. c1.sheets[h] = c.sheets[h] /\ h \in 0 .. c.top
      BY <1>2, <2>3
    <3>2. c1.sheets[h] \in Sheet /\ t[c1.sheets[h]].height = h
      BY <1>1, <3>1
    <3>3. c1.sheets[h] # s
      BY <1>2, <2>3, <3>2
    <3>4. QED
      BY <1>3, <2>3, <3>2, <3>3
  <2>4. QED
    BY <2>1, <2>2, <2>3
<1>7. ASSUME NEW u \in Sheet, H[u] >= 0 PROVE c1.sheets[H[u]] = u
  <2>1. CASE u = s
    <3>1. n = new /\ new \in 0 .. c1.top
      BY <1>2, <1>3, <1>7, <2>1
    <3>2. QED
      BY <1>3, <2>1, <3>1
  <2>2. CASE u # s
    <3>1. /\ t[u].height >= 0 /\ t[u].height <= c.top /\ t[u].height # old
          /\ t[u].height \in Int /\ c.sheets[t[u].height] = u
      BY <1>1, <1>3, <1>4, <1>7, <2>2
    <3>2. CASE old < t[u].height /\ t[u].height <= new
      <4>1. H[u] = t[u].height - 1 /\ H[u] \in 0 .. c1.top
        BY <1>2, <1>3, <2>2, <3>1, <3>2
      <4>2. c1.sheets[H[u]] = c.sheets[H[u] + 1]
        BY <3>1, <3>2, <4>1
      <4>3. QED
        BY <3>1, <4>1, <4>2
    <3>3. CASE t[u].height < old \/ t[u].height > new
      <4>1. H[u] = t[u].height /\ H[u] \in 0 .. c1.top
        BY <1>2, <1>3, <2>2, <3>1, <3>3
      <4>2. QED
        BY <3>1, <3>3, <4>1
    <3>4. QED
      BY <3>1, <3>2, <3>3
  <2>3. QED
    BY <2>1, <2>2
<1>8. Fits(c1, H)
  BY <1>3, <1>5, <1>6, <1>7 DEF Fits
<1>9. KeptBy(H, t, s)
  BY <1>3, <1>4 DEF KeptBy
<1>10. Settled(H, t, s, old .. new - 1)
  BY <1>3, <1>4 DEF Settled
<1>11. QED
  BY <1>3, <1>8, <1>9, <1>10 DEF H

\* While a sheet is hidden, there is room for one more above top.
LEMMA Room ==
    ASSUME NEW c \in Ctl, NEW t \in Sheets, Stack(c, t), NEW s \in Sheet, t[s].height = -1
    PROVE  c.top + 1 \in 0 .. MAX_SHEETS - 1
<1> DEFINE f == [h \in 0 .. c.top |-> c.sheets[h]]
           others == Sheet \ {s}
<1>1. /\ c.top \in Int /\ c.top \in 0 .. MAX_SHEETS - 1 /\ MAX_SHEETS \in Int
      /\ \A h \in 0 .. c.top : h \in Sheet /\ c.sheets[h] \in Sheet /\ t[c.sheets[h]].height = h
  BY Entry, SizeAssumption
<1>2. f \in [0 .. c.top -> others]
  BY <1>1
<1>3. \A g, h \in 0 .. c.top : f[g] = f[h] => g = h
  BY <1>1
<1>4. IsFiniteSet(Sheet) /\ Cardinality(Sheet) = MAX_SHEETS
  BY <1>1, FS_Interval, SizeAssumption DEF Sheet
<1>5. IsFiniteSet(others) /\ Cardinality(others) = MAX_SHEETS - 1
  BY <1>4, FS_RemoveElement
<1>6. IsFiniteSet(0 .. c.top) /\ Cardinality(0 .. c.top) = c.top + 1
  BY <1>1, FS_Interval
<1> HIDE DEF f, others
<1>7. ~ Cardinality(others) < Cardinality(0 .. c.top)
  <2>1. SUFFICES ASSUME Cardinality(others) < Cardinality(0 .. c.top) PROVE FALSE
    OBVIOUS
  <2>2. \E g, h \in 0 .. c.top : g # h /\ f[g] = f[h]
    BY <1>2, <1>5, <1>6, <2>1, FS_PigeonHole, Zenon
  <2>3. QED
    BY <1>3, <2>2
<1>8. QED
  BY <1>1, <1>5, <1>6, <1>7

\* sheet_updown when the sheet goes down.
LEMMA LowerRight ==
    ASSUME NEW c, NEW t, Right(c, t), NEW s \in Sheet, s # Back,
           NEW new \in Int, new >= 0, new < t[s].height
    PROVE  LET r == Lower(c, t, s, new)
           IN  Right(r.ctl, r.sht) /\ Moved(t, r.sht, s) /\ r.sht[s].height = new
<1> DEFINE old == t[s].height
           sh1 == Lowered(c.sheets, s, old, new)
           c1 == [c EXCEPT !.sheets = Lowered(@, s, old, new)]
           t1 == Renumber([t EXCEPT ![s].height = new], c1.sheets, new + 1 .. old)
           H == UpFrom(t, s, old, new)
<1>1. c \in Ctl /\ t \in Sheets /\ Stack(c, t)
  BY DEF Right
<1>2. /\ c.top \in Int /\ c.top \in 0 .. MAX_SHEETS - 1 /\ \A h \in 0 .. c.top : h \in Sheet
      /\ old \in Int /\ old <= c.top /\ \A u \in Sheet : t[u].height \in Int
      /\ \A u \in Sheet \ {s} : t[u].height # old
  BY <1>1, Entry
<1>3. /\ sh1 \in [Sheet -> Sheet \cup {NoSheet}]
      /\ \A h \in 0 .. c.top : sh1[h] = IF h = new THEN s
                                        ELSE IF new < h /\ h <= old THEN c.sheets[h - 1] ELSE c.sheets[h]
  <2>1. c.sheets \in [Sheet -> Sheet \cup {NoSheet}]
    BY <1>1 DEF Ctl
  <2>2. \A h \in Sheet : new < h /\ h <= old => h - 1 \in Sheet
    BY <1>2, SizeAssumption DEF Sheet
  <2>3. sh1 \in [Sheet -> Sheet \cup {NoSheet}]
    BY <2>1, <2>2 DEF Lowered
  <2>4. QED
    BY <1>2, <2>3 DEF Lowered
<1> HIDE DEF sh1
<1>4. c1 \in Ctl /\ c1.top = c.top /\ c1.sheets = sh1 /\ c1.map = c.map /\ c1.vram = c.vram
  <2>1. c1 = [c EXCEPT !.sheets = sh1]
    BY DEF sh1
  <2>2. QED
    BY <1>1, <1>3, <2>1 DEF Ctl
<1> HIDE DEF c1, H
<1>5. Fits(c1, H) /\ H[s] = new /\ KeptBy(H, t, s) /\ Settled(H, t, s, new + 1 .. old)
  <2>1. PICK o \in Int : o = old
    BY <1>2
  <2>2. /\ o = t[s].height /\ c1.top = c.top /\ new <= o /\ c1.top \in 0 .. MAX_SHEETS - 1
        /\ \A h \in 0 .. c1.top : c1.sheets[h] = IF h = new THEN s
                                                 ELSE IF new < h /\ h <= o THEN c.sheets[h - 1]
                                                 ELSE c.sheets[h]
    BY <1>2, <1>3, <1>4, <2>1
  <2>3. /\ Fits(c1, UpFrom(t, s, o, new)) /\ UpFrom(t, s, o, new)[s] = new
        /\ KeptBy(UpFrom(t, s, o, new), t, s)
        /\ Settled(UpFrom(t, s, o, new), t, s, new + 1 .. o)
    BY <1>1, <1>4, <2>2, EntriesUp
  <2>4. QED
    BY <2>1, <2>3 DEF H
<1>6. \A u \in Sheet \ {s} : H[u] = IF new <= t[u].height /\ t[u].height < old
                                    THEN t[u].height + 1 ELSE t[u].height
  BY DEF H, UpFrom
<1>7. Enough(H, t, s, new + 1, old)
  BY <1>2, <1>5, <1>6 DEF Enough
<1> DEFINE c3 == sheet_refreshsub(sheet_refreshmap(c1, t1, Rect(t1, s), new + 1),
                                  t1, Rect(t1, s), new + 1, old)
<1>8. Right(c3, t1) /\ Moved(t, t1, s) /\ t1[s].height = new
  <2>1. PICK h0 \in Nat : h0 = new + 1
    OBVIOUS
  <2>2. PICK h1 \in Int : h1 = old
    BY <1>2
  <2>3. PICK moved : moved = new + 1 .. old
    OBVIOUS
  <2>4. /\ Fits(c1, H) /\ KeptBy(H, t, s) /\ Settled(H, t, s, moved) /\ H[s] = new
        /\ moved \subseteq 0 .. c1.top /\ h1 <= c1.top /\ Enough(H, t, s, h0, h1)
    BY <1>2, <1>4, <1>5, <1>7, <2>1, <2>2, <2>3
  <2>5. t1 = Renumber([t EXCEPT ![s].height = new], c1.sheets, moved)
    BY <2>3
  <2> HIDE DEF t1
  <2>6. Right(sheet_refreshsub(sheet_refreshmap(c1, t1, Rect(t1, s), h0),
                               t1, Rect(t1, s), h0, h1), t1)
        /\ Moved(t, t1, s) /\ t1[s].height = new
    BY <1>4, <2>4, <2>5, Branch
  <2>7. QED
    BY <2>1, <2>2, <2>6
<1>9. Lower(c, t, s, new) = [ctl |-> c3, sht |-> t1]
  BY DEF Lower, c1
<1> HIDE DEF t1, c3
<1>10. QED
  BY <1>8, <1>9

\* sheet_updown when the sheet goes up.
LEMMA RaiseRight ==
    ASSUME NEW c, NEW t, Right(c, t), NEW s \in Sheet, s # Back,
           t[s].height >= 0, NEW new \in Int, t[s].height < new, new <= c.top
    PROVE  LET r == Raise(c, t, s, new)
           IN  Right(r.ctl, r.sht) /\ Moved(t, r.sht, s) /\ r.sht[s].height = new
<1> DEFINE old == t[s].height
           sh1 == Raised(c.sheets, s, old, new)
           c1 == [c EXCEPT !.sheets = Raised(@, s, old, new)]
           t1 == Renumber([t EXCEPT ![s].height = new], c1.sheets, old .. new - 1)
           H == DownFrom(t, s, old, new, new)
<1>1. c \in Ctl /\ t \in Sheets /\ Stack(c, t)
  BY DEF Right
<1>2. /\ c.top \in Int /\ c.top \in 0 .. MAX_SHEETS - 1 /\ \A h \in 0 .. c.top : h \in Sheet
      /\ old \in Int /\ old <= c.top /\ \A u \in Sheet : t[u].height \in Int
      /\ \A u \in Sheet \ {s} : t[u].height # old
  BY <1>1, Entry
<1>3. /\ sh1 \in [Sheet -> Sheet \cup {NoSheet}]
      /\ \A h \in 0 .. c.top : sh1[h] = IF h = new THEN s
                                        ELSE IF old <= h /\ h < new THEN c.sheets[h + 1] ELSE c.sheets[h]
  <2>1. c.sheets \in [Sheet -> Sheet \cup {NoSheet}]
    BY <1>1 DEF Ctl
  <2>2. \A h \in Sheet : old <= h /\ h < new => h + 1 \in Sheet
    BY <1>2, SizeAssumption DEF Sheet
  <2>3. sh1 \in [Sheet -> Sheet \cup {NoSheet}]
    BY <2>1, <2>2 DEF Raised
  <2>4. QED
    BY <1>2, <2>3 DEF Raised
<1> HIDE DEF sh1
<1>4. c1 \in Ctl /\ c1.top = c.top /\ c1.sheets = sh1 /\ c1.map = c.map /\ c1.vram = c.vram
  <2>1. c1 = [c EXCEPT !.sheets = sh1]
    BY DEF sh1
  <2>2. QED
    BY <1>1, <1>3, <2>1 DEF Ctl
<1> HIDE DEF c1, H
<1>5. Fits(c1, H) /\ H[s] = new /\ KeptBy(H, t, s) /\ Settled(H, t, s, old .. new - 1)
  BY <1>1, <1>2, <1>3, <1>4, EntriesDown DEF H
<1>6. \A u \in Sheet \ {s} : H[u] = IF old < t[u].height /\ t[u].height <= new
                                    THEN t[u].height - 1 ELSE t[u].height
  BY DEF H, DownFrom
<1>7. Enough(H, t, s, new, new)
  BY <1>2, <1>5, <1>6 DEF Enough
<1> DEFINE c3 == sheet_refreshsub(sheet_refreshmap(c1, t1, Rect(t1, s), new),
                                  t1, Rect(t1, s), new, new)
<1>8. Right(c3, t1) /\ Moved(t, t1, s) /\ t1[s].height = new
  <2>1. PICK h0 \in Nat : h0 = new
    BY <1>2
  <2>2. PICK h1 \in Int : h1 = new
    BY <1>2
  <2>3. PICK moved : moved = old .. new - 1
    OBVIOUS
  <2>4. /\ Fits(c1, H) /\ KeptBy(H, t, s) /\ Settled(H, t, s, moved) /\ H[s] = new
        /\ moved \subseteq 0 .. c1.top /\ h1 <= c1.top /\ Enough(H, t, s, h0, h1)
    BY <1>2, <1>4, <1>5, <1>7, <2>1, <2>2, <2>3
  <2>5. t1 = Renumber([t EXCEPT ![s].height = new], c1.sheets, moved)
    BY <2>3
  <2> HIDE DEF t1
  <2>6. Right(sheet_refreshsub(sheet_refreshmap(c1, t1, Rect(t1, s), h0),
                               t1, Rect(t1, s), h0, h1), t1)
        /\ Moved(t, t1, s) /\ t1[s].height = new
    BY <1>4, <2>4, <2>5, Branch
  <2>7. QED
    BY <2>1, <2>2, <2>6
<1>9. Raise(c, t, s, new) = [ctl |-> c3, sht |-> t1]
  BY DEF Raise, c1
<1> HIDE DEF t1, c3
<1>10. QED
  BY <1>8, <1>9

\* sheet_updown when the sheet is hidden.
LEMMA HideRight ==
    ASSUME NEW c, NEW t, Right(c, t), NEW s \in Sheet, s # Back,
           t[s].height >= 0
    PROVE  LET r == Hide(c, t, s)
           IN  Right(r.ctl, r.sht) /\ Moved(t, r.sht, s) /\ r.sht[s].height = -1
<1> DEFINE old == t[s].height
           sh1 == Closed(c.sheets, old, c.top)
           c1 == [c EXCEPT !.sheets = Closed(@, old, c.top), !.top = @ - 1]
           t1 == Renumber([t EXCEPT ![s].height = -1], c1.sheets, old .. c1.top)
           H == DownFrom(t, s, old, c.top, -1)
<1>1. c \in Ctl /\ t \in Sheets /\ Stack(c, t)
  BY DEF Right
<1>2. /\ c.top \in Int /\ c.top \in 0 .. MAX_SHEETS - 1 /\ \A h \in 0 .. c.top : h \in Sheet
      /\ old \in Int /\ old <= c.top /\ \A u \in Sheet : t[u].height \in Int
      /\ \A u \in Sheet \ {s} : t[u].height # old
  BY <1>1, Entry
<1>3. /\ sh1 \in [Sheet -> Sheet \cup {NoSheet}]
      /\ \A h \in 0 .. c.top : sh1[h] = IF old <= h /\ h < c.top THEN c.sheets[h + 1] ELSE c.sheets[h]
  <2>1. c.sheets \in [Sheet -> Sheet \cup {NoSheet}]
    BY <1>1 DEF Ctl
  <2>2. \A h \in Sheet : old <= h /\ h < c.top => h + 1 \in Sheet
    BY <1>2, SizeAssumption DEF Sheet
  <2>3. sh1 \in [Sheet -> Sheet \cup {NoSheet}]
    BY <2>1, <2>2 DEF Closed
  <2>4. QED
    BY <1>2, <2>3 DEF Closed
<1> HIDE DEF sh1
<1>4. c1 \in Ctl /\ c1.top = c.top - 1 /\ c1.sheets = sh1 /\ c1.map = c.map /\ c1.vram = c.vram
  <2>1. PICK n \in Int : n = c.top - 1
    BY <1>2
  <2>2. c1 = [c EXCEPT !.sheets = sh1, !.top = n]
    BY <2>1 DEF sh1
  <2> HIDE DEF c1
  <2>3. sh1 \in [Sheet -> Sheet \cup {NoSheet}] /\ c \in Ctl
    BY <1>1, <1>3
  <2>4. /\ c1 \in Ctl /\ c1.sheets = sh1 /\ c1.top = n
        /\ c1.map = c.map /\ c1.vram = c.vram
    BY ONLY <2>2, <2>3, n \in Int DEF Ctl
  <2>5. QED
    BY <2>1, <2>4
<1> HIDE DEF c1, H
<1>5. Fits(c1, H) /\ H[s] = -1 /\ KeptBy(H, t, s) /\ Settled(H, t, s, old .. c.top - 1)
  <2>1. t[Back].height \in 0 .. c.top /\ t[Back].height # old
    BY <1>1, <1>2, BackIsSheet, Entry DEF Right, BackShown
  <2>2. PICK new \in Int : new = c.top
    BY <1>2
  <2>3. PICK n \in Int : n = -1
    OBVIOUS
  <2>4. /\ old \in Int /\ old = t[s].height /\ old >= 0 /\ old <= new /\ new <= c.top
        /\ c1.top \in 0 .. MAX_SHEETS - 1
        /\ n = -1 /\ new = c.top /\ c1.top = c.top - 1
        /\ \A h \in 0 .. c1.top : c1.sheets[h] = IF h = new THEN s
                                                 ELSE IF old <= h /\ h < new THEN c.sheets[h + 1]
                                                 ELSE c.sheets[h]
    BY <1>2, <1>3, <1>4, <2>1, <2>2, <2>3, SizeAssumption
  <2>5. LET G == DownFrom(t, s, old, new, n)
        IN  Fits(c1, G) /\ G[s] = n /\ KeptBy(G, t, s) /\ Settled(G, t, s, old .. new - 1)
    BY <1>1, <1>4, <2>4, EntriesDown
  <2>6. QED
    BY <2>2, <2>3, <2>5 DEF H
<1>6. \A u \in Sheet \ {s} : H[u] = IF old < t[u].height /\ t[u].height <= c.top
                                    THEN t[u].height - 1 ELSE t[u].height
  BY DEF H, DownFrom
<1>7. Enough(H, t, s, 0, old - 1)
  BY <1>2, <1>5, <1>6 DEF Enough
<1> DEFINE c3 == sheet_refreshsub(sheet_refreshmap(c1, t1, Rect(t1, s), 0),
                                  t1, Rect(t1, s), 0, old - 1)
<1>8. Right(c3, t1) /\ Moved(t, t1, s) /\ t1[s].height = -1
  <2>1. PICK h0 \in Nat : h0 = 0
    OBVIOUS
  <2>2. PICK h1 \in Int : h1 = old - 1
    BY <1>2
  <2>3. PICK moved : moved = old .. c1.top
    OBVIOUS
  <2>4. PICK n \in Int : n = -1
    OBVIOUS
  <2>5. /\ Fits(c1, H) /\ KeptBy(H, t, s) /\ Settled(H, t, s, moved) /\ H[s] = n
        /\ moved \subseteq 0 .. c1.top /\ h1 <= c1.top /\ Enough(H, t, s, h0, h1)
    BY <1>2, <1>4, <1>5, <1>7, <2>1, <2>2, <2>3, <2>4
  <2>6. t1 = Renumber([t EXCEPT ![s].height = n], c1.sheets, moved)
    BY <2>3, <2>4
  <2> HIDE DEF t1
  <2>7. Right(sheet_refreshsub(sheet_refreshmap(c1, t1, Rect(t1, s), h0),
                               t1, Rect(t1, s), h0, h1), t1)
        /\ Moved(t, t1, s) /\ t1[s].height = n
    BY <1>4, <2>5, <2>6, Branch
  <2>8. QED
    BY <2>1, <2>2, <2>4, <2>7
<1>9. Hide(c, t, s) = [ctl |-> c3, sht |-> t1]
  BY DEF Hide, c1
<1> HIDE DEF t1, c3
<1>10. QED
  BY <1>8, <1>9

\* sheet_updown when a hidden sheet is shown.
LEMMA ShowRight ==
    ASSUME NEW c, NEW t, Right(c, t), NEW s \in Sheet, s # Back,
           t[s].height = -1, NEW new \in Int, new >= 0, new <= c.top + 1
    PROVE  LET r == Show(c, t, s, new)
           IN  Right(r.ctl, r.sht) /\ Moved(t, r.sht, s) /\ r.sht[s].height = new
<1> DEFINE old == c.top + 1
           sh1 == Lowered(c.sheets, s, old, new)
           c1 == [c EXCEPT !.sheets = Lowered(@, s, c.top + 1, new), !.top = @ + 1]
           t1 == Renumber([t EXCEPT ![s].height = new], c1.sheets, new + 1 .. c1.top)
           H == UpFrom(t, s, old, new)
<1>1. c \in Ctl /\ t \in Sheets /\ Stack(c, t)
  BY DEF Right
<1>2. /\ c.top \in Int /\ c.top \in 0 .. MAX_SHEETS - 1 /\ \A h \in 0 .. c.top : h \in Sheet
      /\ old \in Int /\ old \in 0 .. MAX_SHEETS - 1
      /\ \A u \in Sheet : t[u].height \in Int /\ t[u].height >= -1 /\ t[u].height < old
  BY <1>1, Entry, Room
<1>3. /\ sh1 \in [Sheet -> Sheet \cup {NoSheet}]
      /\ \A h \in 0 .. old : sh1[h] = IF h = new THEN s
                                        ELSE IF new < h /\ h <= old THEN c.sheets[h - 1] ELSE c.sheets[h]
  <2>1. c.sheets \in [Sheet -> Sheet \cup {NoSheet}]
    BY <1>1 DEF Ctl
  <2>2. \A h \in Sheet : new < h /\ h <= old => h - 1 \in Sheet
    BY <1>2, SizeAssumption DEF Sheet
  <2>3. sh1 \in [Sheet -> Sheet \cup {NoSheet}]
    BY <2>1, <2>2 DEF Lowered
  <2>4. \A h \in 0 .. old : h \in Sheet
    BY <1>2, SizeAssumption DEF Sheet
  <2>5. QED
    BY <2>3, <2>4 DEF Lowered
<1> HIDE DEF sh1
<1>4. c1 \in Ctl /\ c1.top = old /\ c1.sheets = sh1 /\ c1.map = c.map /\ c1.vram = c.vram
  <2>1. PICK n \in Int : n = old
    BY <1>2
  <2>2. c1 = [c EXCEPT !.sheets = sh1, !.top = n]
    BY <2>1 DEF sh1
  <2> HIDE DEF c1
  <2>3. sh1 \in [Sheet -> Sheet \cup {NoSheet}] /\ c \in Ctl
    BY <1>1, <1>3
  <2>4. /\ c1 \in Ctl /\ c1.sheets = sh1 /\ c1.top = n
        /\ c1.map = c.map /\ c1.vram = c.vram
    BY ONLY <2>2, <2>3, n \in Int DEF Ctl
  <2>5. QED
    BY <2>1, <2>4
<1> HIDE DEF c1, H
<1>5. Fits(c1, H) /\ H[s] = new /\ KeptBy(H, t, s) /\ Settled(H, t, s, new + 1 .. old)
  <2>1. PICK o \in Int : o = old
    BY <1>2
  <2>2. /\ o = c.top + 1 /\ c1.top = c.top + 1 /\ t[s].height = -1 /\ new <= o /\ c1.top \in 0 .. MAX_SHEETS - 1
        /\ \A h \in 0 .. c1.top : c1.sheets[h] = IF h = new THEN s
                                                 ELSE IF new < h /\ h <= o THEN c.sheets[h - 1]
                                                 ELSE c.sheets[h]
    BY <1>2, <1>3, <1>4, <2>1
  <2>3. /\ Fits(c1, UpFrom(t, s, o, new)) /\ UpFrom(t, s, o, new)[s] = new
        /\ KeptBy(UpFrom(t, s, o, new), t, s)
        /\ Settled(UpFrom(t, s, o, new), t, s, new + 1 .. o)
    BY <1>1, <1>4, <2>2, EntriesUp
  <2>4. QED
    BY <2>1, <2>3 DEF H
<1>6. \A u \in Sheet \ {s} : H[u] = IF new <= t[u].height /\ t[u].height < old
                                    THEN t[u].height + 1 ELSE t[u].height
  BY DEF H, UpFrom
<1>7. Enough(H, t, s, new, new)
  BY <1>2, <1>5, <1>6 DEF Enough
<1> DEFINE c3 == sheet_refreshsub(sheet_refreshmap(c1, t1, Rect(t1, s), new),
                                  t1, Rect(t1, s), new, new)
<1>8. Right(c3, t1) /\ Moved(t, t1, s) /\ t1[s].height = new
  <2>1. PICK h0 \in Nat : h0 = new
    OBVIOUS
  <2>2. PICK h1 \in Int : h1 = new
    OBVIOUS
  <2>3. PICK moved : moved = new + 1 .. c1.top
    OBVIOUS
  <2>4. /\ Fits(c1, H) /\ KeptBy(H, t, s) /\ Settled(H, t, s, moved) /\ H[s] = new
        /\ moved \subseteq 0 .. c1.top /\ h1 <= c1.top /\ Enough(H, t, s, h0, h1)
    BY ONLY <1>2, <1>4, <1>5, <1>7, <2>1, <2>2, <2>3, new \in Int, new >= 0, new <= c.top + 1
  <2>5. t1 = Renumber([t EXCEPT ![s].height = new], c1.sheets, moved)
    BY <2>3
  <2> HIDE DEF t1
  <2>6. Right(sheet_refreshsub(sheet_refreshmap(c1, t1, Rect(t1, s), h0),
                               t1, Rect(t1, s), h0, h1), t1)
        /\ Moved(t, t1, s) /\ t1[s].height = new
    BY <1>4, <2>4, <2>5, Branch
  <2>7. QED
    BY <2>1, <2>2, <2>6
<1>9. Show(c, t, s, new) = [ctl |-> c3, sht |-> t1]
  BY DEF Show, c1
<1> HIDE DEF t1, c3
<1>10. QED
  BY <1>8, <1>9

\* The maximum of two numbers.
LEMMA MaxTwo == ASSUME NEW a \in Int, NEW b \in Int
                PROVE  Max({a, b}) = IF a >= b THEN a ELSE b
BY DEF Max

\* The minimum of two numbers.
LEMMA MinTwo == ASSUME NEW a \in Int, NEW b \in Int
                PROVE  Min({a, b}) = IF a <= b THEN a ELSE b
BY DEF Min

\* sheet_updown, whichever way it goes.
LEMMA UpdownRight ==
    ASSUME NEW c, NEW t, Right(c, t), NEW s \in Sheet, s # Back, NEW height \in Int,
           t[s].height >= 0 => height <= c.top
    PROVE  LET r == sheet_updown(c, t, s, height)
           IN  /\ Right(r.ctl, r.sht) /\ Moved(t, r.sht, s)
               /\ height = -1 => r.sht[s].height = -1
<1> DEFINE old == t[s].height
           r == sheet_updown(c, t, s, height)
<1>1. /\ c.top \in Int /\ c.top \in 0 .. MAX_SHEETS - 1
      /\ old \in Int /\ old >= -1 /\ old <= c.top
  BY Entry DEF Right
<1>2. PICK new \in Int : /\ new = Corrected(c, height)
                         /\ new >= -1 /\ new <= c.top + 1
                         /\ height <= c.top => new <= c.top
                         /\ height = -1 => new = -1
  <2>1. Min({height, c.top + 1}) = IF height <= c.top + 1 THEN height ELSE c.top + 1
    BY <1>1, MinTwo
  <2>2. PICK m \in Int : m = Min({height, c.top + 1})
    BY <1>1, <2>1
  <2>3. Corrected(c, height) = IF -1 >= m THEN -1 ELSE m
    <3>1. Corrected(c, height) = Max({-1, m})
      BY <2>2 DEF Corrected
    <3>2. PICK a \in Int : a = -1
      OBVIOUS
    <3>3. Max({a, m}) = IF a >= m THEN a ELSE m
      BY MaxTwo
    <3>4. QED
      BY <3>1, <3>2, <3>3
  <2>4. QED
    BY <1>1, <2>1, <2>2, <2>3
<1>3. r = IF old > new THEN IF new >= 0 THEN Lower(c, t, s, new) ELSE Hide(c, t, s)
          ELSE IF old < new THEN IF old >= 0 THEN Raise(c, t, s, new) ELSE Show(c, t, s, new)
          ELSE [ctl |-> c, sht |-> t]
  BY <1>2 DEF sheet_updown
<1> HIDE DEF r
<1>4. Right(r.ctl, r.sht) /\ Moved(t, r.sht, s) /\ r.sht[s].height = new
  <2>1. CASE old > new /\ new >= 0
    <3>1. r = Lower(c, t, s, new)
      BY <1>3, <2>1
    <3>2. QED
      BY <2>1, <3>1, LowerRight
  <2>2. CASE old > new /\ ~ new >= 0
    <3>1. r = Hide(c, t, s) /\ new = -1 /\ t[s].height >= 0
      BY <1>1, <1>2, <1>3, <2>2
    <3>2. QED
      BY <3>1, HideRight
  <2>3. CASE old < new /\ old >= 0
    <3>1. r = Raise(c, t, s, new) /\ new <= c.top
      BY <1>1, <1>2, <1>3, <2>3
    <3>2. QED
      BY <2>3, <3>1, RaiseRight
  <2>4. CASE old < new /\ ~ old >= 0
    <3>1. r = Show(c, t, s, new) /\ t[s].height = -1 /\ new >= 0
      BY <1>1, <1>2, <1>3, <2>4
    <3>2. QED
      BY <1>2, <3>1, ShowRight
  <2>5. CASE ~ old > new /\ ~ old < new
    <3>1. r = [ctl |-> c, sht |-> t]
      BY <1>3, <2>5
    <3>2. r.ctl = c /\ r.sht = t
      BY <3>1
    <3>3. t[s].height = new
      BY <1>1, <2>5
    <3>4. Moved(t, t, s)
      BY DEF Moved, SameLook, Kept
    <3>5. QED
      BY <3>2, <3>3, <3>4
  <2>6. QED
    BY <2>1, <2>2, <2>3, <2>4, <2>5
<1>5. QED
  BY <1>2, <1>4 DEF r

-----------------------------------------------------------------------------
(* The other calls change one sheet.                                        *)

OnlySheet(t, t1, s) ==
    /\ \A u \in Sheet : t1[u].height = t[u].height
    /\ \A u \in Sheet \ {s} : t1[u] = t[u]

OneRec(t, t1, s, r) == \A u \in Sheet : t1[u] = IF u = s THEN r ELSE t[u]

\* Another record for sheet s.
LEMMA SetRec ==
    ASSUME NEW t \in Sheets, NEW s \in Sheet, NEW r \in SheetRec, Filled(s, r.buf),
           NEW t1, t1 = [t EXCEPT ![s] = r]
    PROVE  t1 \in Sheets /\ OneRec(t, t1, s, r)
<1>1. t \in [Sheet -> SheetRec] /\ \A u \in Sheet : Filled(u, t[u].buf)
  BY DEF Sheets
<1>2. t1 \in [Sheet -> SheetRec] /\ \A u \in Sheet : t1[u] = IF u = s THEN r ELSE t[u]
  BY <1>1
<1>3. \A u \in Sheet : Filled(u, t1[u].buf)
  BY <1>1, <1>2
<1>4. QED
  BY <1>2, <1>3 DEF Sheets, OneRec

\* The looks of the other sheets.
LEMMA OthersLook ==
    ASSUME NEW t, NEW t1, NEW s \in Sheet, OnlySheet(t, t1, s)
    PROVE  \A u \in Sheet \ {s} : \A p : /\ Covers(t1, u, p) <=> Covers(t, u, p)
                                         /\ PixelAt(t1, u, p) = PixelAt(t, u, p)
<1>1. ASSUME NEW u \in Sheet \ {s}
      PROVE  /\ \A p : PixelAt(t1, u, p) = PixelAt(t, u, p)
             /\ \A p : Covers(t1, u, p) <=> Covers(t, u, p)
  <2>1. t1[u].vx0 = t[u].vx0 /\ t1[u].vy0 = t[u].vy0 /\ t1[u].buf = t[u].buf
    BY DEF OnlySheet
  <2>2. QED
    BY <2>1, LookSame
<1>2. QED
  BY <1>1

\* What happens to a hidden sheet does not show.
LEMMA HiddenRight ==
    ASSUME NEW c, NEW t, Right(c, t), NEW t1 \in Sheets, NEW s \in Sheet, s # Back,
           t[s].height = -1, OnlySheet(t, t1, s)
    PROVE  Right(c, t1)
<1>1. c \in Ctl /\ t \in Sheets /\ Stack(c, t) /\ MapRight(c, t) /\ Drawn(c, t) /\ BackShown(t)
  BY DEF Right
<1>2. \A u \in Sheet : t1[u].height = t[u].height /\ t[u].height \in Int
  BY <1>1, FieldsOf DEF OnlySheet
<1>3. Stack(c, t1)
  BY <1>1, <1>2 DEF Stack
<1>4. ASSUME NEW p \in Screen
      PROVE  Tops(t1, p, c.map[p]) /\ PixelAt(t1, c.map[p], p) = PixelAt(t, c.map[p], p)
  <2> DEFINE o == c.map[p]
  <2>1. Tops(t, p, o)
    BY <1>1 DEF MapRight
  <2> HIDE DEF o
  <2>2. o \in Sheet /\ t[o].height >= 0 /\ o # s /\ Covers(t, o, p)
    BY <2>1 DEF Tops
  <2>3. Covers(t1, o, p) /\ PixelAt(t1, o, p) = PixelAt(t, o, p)
    BY <2>2, OthersLook
  <2>4. \A u \in Sheet : t1[u].height > t1[o].height => ~ Covers(t1, u, p)
    <3>1. ASSUME NEW u \in Sheet, t1[u].height > t1[o].height PROVE ~ Covers(t1, u, p)
      <4>1. t[u].height > t[o].height /\ u # s
        BY <1>2, <2>2, <3>1
      <4>2. ~ Covers(t, u, p)
        BY <2>1, <4>1 DEF Tops
      <4>3. QED
        BY <4>1, <4>2, OthersLook
    <3>2. QED
      BY <3>1
  <2>5. Tops(t1, p, o)
    BY <1>2, <2>2, <2>3, <2>4 DEF Tops
  <2>6. QED
    BY <2>3, <2>5 DEF o
<1>5. MapRight(c, t1) /\ Drawn(c, t1)
  BY <1>1, <1>4 DEF MapRight, Drawn
<1>6. BackShown(t1)
  BY <1>1, <1>2, BackIsSheet DEF BackShown, OnlySheet
<1>7. QED
  BY <1>1, <1>3, <1>5, <1>6 DEF Right

\* sheet_slide: where sheet s has left, the map is renewed from the bottom; where
\* it has come, from its height.
LEMMA SlideRight ==
    ASSUME NEW c, NEW t, Right(c, t), NEW s \in Sheet, s # Back, t[s].height >= -1,
           NEW vx0 \in Int, NEW vy0 \in Int
    PROVE  LET r == sheet_slide(c, t, s, vx0, vy0)
           IN  /\ Right(r.ctl, r.sht) /\ OnlySheet(t, r.sht, s)
               /\ r.sht[s].flags = t[s].flags
<1> DEFINE t1 == [t EXCEPT ![s].vx0 = vx0, ![s].vy0 = vy0]
           h == t[s].height
           R == Rect(t, s)
           R1 == Rect(t1, s)
           c1 == sheet_refreshmap(c, t1, R, 0)
           c2 == sheet_refreshmap(c1, t1, R1, h)
           c3 == sheet_refreshsub(c2, t1, R, 0, h - 1)
           c4 == sheet_refreshsub(c3, t1, R1, h, h)
           r == sheet_slide(c, t, s, vx0, vy0)
<1>1. c \in Ctl /\ t \in Sheets /\ Stack(c, t) /\ MapRight(c, t) /\ Drawn(c, t) /\ BackShown(t)
  BY DEF Right
<1>2. t1 \in Sheets /\ OnlySheet(t, t1, s) /\ t1[s].flags = t[s].flags
  <2> DEFINE q == [t[s] EXCEPT !.vx0 = vx0, !.vy0 = vy0]
  <2>1. t \in [Sheet -> SheetRec] /\ t[s] \in SheetRec /\ Filled(s, t[s].buf)
    BY <1>1, FieldsOf DEF Sheets
  <2>2. t1 = [t EXCEPT ![s] = q]
    BY <2>1
  <2>3. q \in SheetRec /\ q.flags = t[s].flags /\ q.buf = t[s].buf /\ q.height = t[s].height
    BY <2>1 DEF SheetRec
  <2> HIDE DEF q, t1
  <2>4. t1 \in Sheets /\ OneRec(t, t1, s, q)
    BY <1>1, <2>1, <2>2, <2>3, SetRec
  <2>5. QED
    BY <2>3, <2>4 DEF OneRec, OnlySheet
<1>3. r = [ctl |-> IF h < 0 THEN c ELSE c4, sht |-> t1]
  BY DEF sheet_slide
<1> HIDE DEF t1, r
<1>4. r.ctl = (IF h < 0 THEN c ELSE c4) /\ r.sht = t1
  BY <1>3
<1> HIDE DEF R, R1, c1, c2, c3, c4
<1>5. h \in Int /\ \A u \in Sheet : /\ t[u].height \in Int /\ t1[u].height = t[u].height
                                    /\ t[u].height = h /\ h >= 0 => u = s
  BY <1>1, <1>2, FieldsOf, Entry DEF OnlySheet
<1>6. CASE h < 0
  <2>1. t[s].height = -1
    BY <1>5, <1>6
  <2>2. Right(c, t1)
    BY <1>2, <2>1, HiddenRight
  <2>3. QED
    BY <1>2, <1>4, <1>6, <2>2 DEF r
<1>7. CASE h >= 0
  <2>1. /\ \A u \in Sheet \ {s} : \A p : /\ Covers(t1, u, p) <=> Covers(t, u, p)
                                         /\ PixelAt(t1, u, p) = PixelAt(t, u, p)
        /\ \A p : Covers(t, s, p) => p \in R
        /\ \A p : Covers(t1, s, p) => p \in R1
    BY <1>2, OthersLook DEF Covers, R, R1
  <2>2. Stack(c, t1) /\ BackShown(t1) /\ c.top \in Int /\ h <= c.top /\ h \in Nat
    <3>1. h \in 0 .. c.top /\ c.top \in Int
      BY <1>1, <1>7, Entry
    <3>2. Stack(c, t1)
      BY <1>1, <1>5 DEF Stack
    <3>3. BackShown(t1)
      BY <1>1, <1>2, BackIsSheet DEF BackShown, OnlySheet
    <3>4. QED
      BY <3>1, <3>2, <3>3
  <2>3. /\ c1 \in Ctl /\ c1.top = c.top /\ c1.sheets = c.sheets /\ c1.vram = c.vram
        /\ \A p \in Screen : p \in R => Tops(t1, p, c1.map[p])
        /\ \A p \in Screen : p \notin R => c1.map[p] = c.map[p]
    <3> DEFINE Covering(p) == \E u \in Sheet : t1[u].height >= 0 /\ Covers(t1, u, p)
    <3>1. PICK h0 \in Nat : h0 = 0
      OBVIOUS
    <3>2. c1 = sheet_refreshmap(c, t1, R, h0)
      BY <3>1 DEF c1
    <3>3. /\ c1 \in Ctl /\ c1.top = c.top /\ c1.sheets = c.sheets /\ c1.vram = c.vram
          /\ \A p \in Screen : p \in R /\ Covering(p) => Tops(t1, p, c1.map[p])
          /\ \A p \in Screen : ~ (p \in R /\ Covering(p)) => c1.map[p] = c.map[p]
      BY <1>1, <1>2, <2>2, <3>1, <3>2, RefreshMap
    <3>4. \A p \in Screen : Covering(p)
      BY <1>2, <2>2, BackIsSheet, BackCovers DEF BackShown
    <3> HIDE DEF Covering
    <3>5. QED
      BY <3>3, <3>4
  <2> DEFINE Covering(p) == \E u \in Sheet : t1[u].height >= h /\ Covers(t1, u, p)
  <2>4. /\ c2 \in Ctl /\ c2.top = c.top /\ c2.sheets = c.sheets /\ c2.vram = c.vram
        /\ \A p \in Screen : p \in R1 /\ Covering(p) => Tops(t1, p, c2.map[p])
        /\ \A p \in Screen : ~ (p \in R1 /\ Covering(p)) => c2.map[p] = c1.map[p]
    <3>1. PICK h0 \in Nat : h0 = h
      BY <2>2
    <3>2. c2 = sheet_refreshmap(c1, t1, R1, h0)
      BY <3>1 DEF c2
    <3>3. Stack(c1, t1)
      BY <2>2, <2>3 DEF Stack
    <3>4. /\ c2 \in Ctl /\ c2.top = c1.top /\ c2.sheets = c1.sheets /\ c2.vram = c1.vram
          /\ \A p \in Screen : p \in R1 /\ Covering(p) => Tops(t1, p, c2.map[p])
          /\ \A p \in Screen : ~ (p \in R1 /\ Covering(p)) => c2.map[p] = c1.map[p]
      BY <1>2, <2>3, <3>1, <3>2, <3>3, RefreshMap
    <3>5. QED
      BY <2>3, <3>4
  <2>5. Stack(c2, t1)
    BY <2>2, <2>4 DEF Stack
  <2>6. \A p \in Screen : ~ (p \in R1 /\ Covering(p)) => ~ Covers(t1, s, p)
    <3>1. t1[s].height >= h
      BY <1>5
    <3>2. QED
      BY <2>1, <3>1
  <2> HIDE DEF Covering, h
  <2>7. ASSUME NEW p \in Screen PROVE Tops(t1, p, c2.map[p])
    <3>1. CASE p \in R1 /\ Covering(p)
      BY <2>4, <3>1
    <3>2. CASE ~ (p \in R1 /\ Covering(p)) /\ p \in R
      BY <2>3, <2>4, <3>2
    <3>3. CASE ~ (p \in R1 /\ Covering(p)) /\ p \notin R
      <4> DEFINE o == c.map[p]
      <4>1. c2.map[p] = o /\ Tops(t, p, o) /\ ~ Covers(t1, s, p)
        BY <1>1, <2>3, <2>4, <2>6, <3>3 DEF MapRight
      <4> HIDE DEF o
      <4>2. o \in Sheet \ {s} /\ t[o].height >= 0 /\ Covers(t, o, p)
        BY <2>1, <3>3, <4>1 DEF Tops
      <4>3. ASSUME NEW u \in Sheet, t1[u].height > t1[o].height PROVE ~ Covers(t1, u, p)
        <5>1. ~ Covers(t, u, p)
          BY <1>5, <4>1, <4>2, <4>3 DEF Tops
        <5>2. QED
          BY <2>1, <4>1, <5>1
      <4>4. Tops(t1, p, o)
        BY <1>5, <2>1, <4>2, <4>3 DEF Tops
      <4>5. QED
        BY <4>1, <4>4
    <3>4. QED
      BY <3>1, <3>2, <3>3
  <2>8. MapRight(c2, t1)
    BY <2>7 DEF MapRight
  <2>9. /\ c3 \in Ctl /\ c3.top = c.top /\ c3.sheets = c.sheets /\ c3.map = c2.map
        /\ \A p \in Screen : c3.vram[p] = IF p \in R /\ t1[c2.map[p]].height \in 0 .. h - 1
                                          THEN PixelAt(t1, c2.map[p], p) ELSE c.vram[p]
    <3>1. PICK h0 \in Int : h0 = 0
      OBVIOUS
    <3>2. PICK h1 \in Int : h1 = h - 1
      BY <2>2
    <3>3. c3 = sheet_refreshsub(c2, t1, R, h0, h1) /\ h0 >= 0 /\ h1 <= c2.top
      BY <2>2, <2>4, <3>1, <3>2 DEF c3, h
    <3>4. Redrawn(c2, c3, t1, R, h0, h1)
      BY <1>2, <2>4, <2>5, <2>8, <3>3, RefreshSub
    <3>5. QED
      BY <2>4, <3>1, <3>2, <3>4 DEF Redrawn
  <2>10. Stack(c3, t1) /\ MapRight(c3, t1)
    BY <2>2, <2>8, <2>9 DEF Stack, MapRight
  <2>11. /\ c4 \in Ctl /\ c4.top = c.top /\ c4.sheets = c.sheets /\ c4.map = c2.map
         /\ \A p \in Screen : c4.vram[p] = IF p \in R1 /\ t1[c2.map[p]].height \in h .. h
                                           THEN PixelAt(t1, c2.map[p], p) ELSE c3.vram[p]
    <3>1. PICK h0 \in Int : h0 = h
      BY <2>2
    <3>2. c4 = sheet_refreshsub(c3, t1, R1, h0, h0) /\ h0 >= 0 /\ h0 <= c3.top
      BY <2>2, <2>9, <3>1 DEF c4, h
    <3>3. Redrawn(c3, c4, t1, R1, h0, h0)
      BY <1>2, <2>9, <2>10, <3>2, RefreshSub
    <3>4. QED
      BY <2>9, <3>1, <3>3 DEF Redrawn
  <2>12. ASSUME NEW p \in Screen PROVE c4.vram[p] = PixelAt(t1, c2.map[p], p)
    <3> DEFINE n == c2.map[p]
    <3>1. Tops(t1, p, n)
      BY <2>7
    <3>2. Tops(t, p, c.map[p]) /\ c.vram[p] = PixelAt(t, c.map[p], p)
      BY <1>1 DEF MapRight, Drawn
    <3>3. CASE \/ p \in R /\ t1[n].height \in 0 .. h - 1
               \/ p \in R1 /\ t1[n].height \in h .. h
      BY <2>9, <2>11, <3>3
    <3>4. CASE ~ \/ p \in R /\ t1[n].height \in 0 .. h - 1
                 \/ p \in R1 /\ t1[n].height \in h .. h
      <4>1. c4.vram[p] = c.vram[p]
        BY <2>9, <2>11, <3>4
      <4> HIDE DEF n
      <4>2. n \in Sheet /\ t[n].height >= 0 /\ t[n].height \in Int /\ Covers(t1, n, p)
        BY <1>5, <3>1 DEF Tops
      <4>3. n # s
        BY <1>5, <2>1, <2>2, <3>4, <4>2 DEF h
      <4>4. ASSUME NEW u \in Sheet, t[u].height > t[n].height PROVE ~ Covers(t, u, p)
        <5>1. ~ Covers(t1, u, p)
          BY <1>5, <3>1, <4>2, <4>4 DEF Tops
        <5>2. CASE u # s
          BY <2>1, <5>1, <5>2
        <5>3. CASE u = s
          <6>1. t1[n].height \in 0 .. h - 1
            BY <1>5, <4>2, <4>4, <5>3 DEF h
          <6>2. p \notin R
            BY <3>4, <6>1
          <6>3. QED
            BY <2>1, <5>3, <6>2
        <5>4. QED
          BY <5>2, <5>3
      <4>5. Tops(t, p, n)
        BY <2>1, <4>2, <4>3, <4>4 DEF Tops
      <4>6. n = c.map[p]
        BY <1>1, <3>2, <4>5, TopsUnique
      <4>7. PixelAt(t1, n, p) = PixelAt(t, n, p)
        BY <2>1, <4>2, <4>3
      <4>8. QED
        BY <3>2, <4>1, <4>6, <4>7 DEF n
    <3>5. QED
      BY <3>3, <3>4
  <2>13. Drawn(c4, t1) /\ MapRight(c4, t1) /\ Stack(c4, t1)
    BY <2>2, <2>8, <2>11, <2>12 DEF Drawn, MapRight, Stack
  <2>14. Right(c4, t1)
    BY <1>2, <2>2, <2>11, <2>13 DEF Right
  <2>15. r.ctl = c4 /\ r.sht = t1
    BY <1>4, <1>7, <2>2
  <2>16. QED
    BY <1>2, <2>14, <2>15 DEF r
<1>8. QED
  BY <1>5, <1>6, <1>7 DEF r

Painted(t, s, px, colour) == [t EXCEPT ![s].buf[px] = colour]

\* A caller's painting of one pixel, and its refreshing.
LEMMA PaintRight ==
    ASSUME NEW c, NEW t, Right(c, t), NEW s \in Sheet, s # Back, t[s].height >= -1,
           NEW px \in Box(s), px \notin HolesOf[s], NEW colour \in Colours,
           NEW t1, t1 = Painted(t, s, px, colour)
    PROVE  /\ Right(sheet_refresh(c, t1, s, px), t1)
           /\ OnlySheet(t, t1, s) /\ t1[s].flags = t[s].flags
<1> DEFINE b == [t[s].buf EXCEPT ![px] = colour]
           q == [t[s] EXCEPT !.buf = b]
           area == {<<px[1] + t1[s].vx0, px[2] + t1[s].vy0>>}
           h == t[s].height
<1>1. c \in Ctl /\ t \in Sheets /\ Stack(c, t) /\ MapRight(c, t) /\ Drawn(c, t) /\ BackShown(t)
  BY DEF Right
<1>2. t \in [Sheet -> SheetRec] /\ t[s] \in SheetRec /\ Filled(s, t[s].buf)
  BY <1>1, FieldsOf DEF Sheets
<1>3. /\ b \in [Box(s) -> Colours \cup {col_inv}]
      /\ \A x \in Box(s) : b[x] = IF x = px THEN colour ELSE t[s].buf[x]
  BY <1>2 DEF Filled
<1> HIDE DEF b
<1>4. Filled(s, b)
  BY <1>2, <1>3, ColourAssumption DEF Filled
<1>5. /\ q \in SheetRec /\ q.buf = b /\ q.flags = t[s].flags /\ q.vx0 = t[s].vx0
      /\ q.vy0 = t[s].vy0 /\ q.height = t[s].height
  <2>1. b \in Bufs
    BY <1>3 DEF Bufs
  <2>2. QED
    BY <1>2, <2>1 DEF SheetRec
<1>6. t1 = [t EXCEPT ![s] = q] /\ t \in Sheets /\ q \in SheetRec /\ Filled(s, q.buf)
  <2>1. t1 = [t EXCEPT ![s] = q]
    BY <1>2 DEF b, Painted
  <2>2. QED
    BY <1>1, <1>4, <1>5, <2>1
<1> HIDE DEF q, h
<1>7. t1 \in Sheets /\ OneRec(t, t1, s, q)
  BY ONLY <1>6, s \in Sheet, SetRec
<1>8. OnlySheet(t, t1, s) /\ t1[s] = q
  BY <1>5, <1>7 DEF OneRec, OnlySheet
<1>9. /\ h \in Int /\ h >= -1 /\ h <= c.top /\ c.top \in Int
      /\ \A u \in Sheet : t1[u].height = t[u].height /\ t[u].height \in Int
  BY <1>1, <1>8, Entry DEF h, OnlySheet
<1>10. CASE h < 0
  <2>1. t[s].height = -1
    BY <1>9, <1>10 DEF h
  <2>2. Right(c, t1)
    BY <1>7, <1>8, <2>1, HiddenRight
  <2>3. sheet_refresh(c, t1, s, px) = c
    BY <1>5, <1>8, <2>1 DEF sheet_refresh
  <2>4. QED
    BY <1>5, <1>8, <2>2, <2>3
<1>11. CASE h >= 0
  <2> DEFINE c1 == sheet_refreshsub(c, t1, area, h, h)
  <2>1. sheet_refresh(c, t1, s, px) = c1
    BY <1>5, <1>8, <1>9, <1>11 DEF sheet_refresh, h
  <2> HIDE DEF c1
  <2>2. \A u \in Sheet \ {s} : \A p : /\ Covers(t1, u, p) <=> Covers(t, u, p)
                                      /\ PixelAt(t1, u, p) = PixelAt(t, u, p)
    BY <1>8, OthersLook
  <2>3. ASSUME NEW p \in Screen
        PROVE  /\ Covers(t1, s, p) <=> Covers(t, s, p)
               /\ Covers(t, s, p) /\ p \notin area => PixelAt(t1, s, p) = PixelAt(t, s, p)
    <3> DEFINE x == <<p[1] - t[s].vx0, p[2] - t[s].vy0>>
    <3>1. /\ Rect(t1, s) = Rect(t, s)
          /\ p \in Rect(t, s) <=> x \in Box(s)
          /\ PixelAt(t1, s, p) = b[x] /\ PixelAt(t, s, p) = t[s].buf[x]
      BY <1>5, <1>8 DEF Rect, PixelAt
    <3>2. x = px => p \in area
      <4>1. p \in Int \X Int /\ t[s].vx0 \in Int /\ t[s].vy0 \in Int
        BY <1>1, FieldsOf, SizeAssumption DEF Screen
      <4>2. ASSUME x = px PROVE p = <<px[1] + t[s].vx0, px[2] + t[s].vy0>>
        BY <4>1, <4>2
      <4>3. QED
        BY <1>5, <1>8, <4>2
    <3> HIDE DEF x, area
    <3>3. x \in Box(s) => (b[x] = col_inv <=> t[s].buf[x] = col_inv)
      BY <1>2, <1>4 DEF Filled
    <3>4. x \in Box(s) /\ x # px => b[x] = t[s].buf[x]
      BY <1>3
    <3>5. QED
      BY <3>1, <3>2, <3>3, <3>4 DEF Covers
  <2> HIDE DEF area
  <2>4. \A u \in Sheet : \A p \in Screen : Covers(t1, u, p) <=> Covers(t, u, p)
    BY <2>2, <2>3
  <2>5. MapRight(c, t1)
    <3>1. ASSUME NEW p \in Screen PROVE Tops(t1, p, c.map[p])
      <4>1. Tops(t, p, c.map[p])
        BY <1>1 DEF MapRight
      <4>2. QED
        BY <1>9, <2>4, <4>1 DEF Tops
    <3>2. QED
      BY <3>1 DEF MapRight
  <2>6. Stack(c, t1)
    BY <1>1, <1>9 DEF Stack
  <2>7. BackShown(t1)
    BY <1>1, <1>8, BackIsSheet DEF BackShown, OnlySheet
  <2>8. /\ c1 \in Ctl /\ c1.top = c.top /\ c1.sheets = c.sheets /\ c1.map = c.map
        /\ \A p \in Screen : c1.vram[p] = IF p \in area /\ t1[c.map[p]].height \in h .. h
                                          THEN PixelAt(t1, c.map[p], p) ELSE c.vram[p]
    <3>1. PICK h0 \in Int : h0 = h
      BY <1>9
    <3>2. c1 = sheet_refreshsub(c, t1, area, h0, h0) /\ h0 >= 0 /\ h0 <= c.top
      BY <1>9, <1>11, <3>1 DEF c1
    <3>3. Redrawn(c, c1, t1, area, h0, h0)
      <4>1. c \in Ctl /\ t1 \in Sheets
        BY <1>1, <1>7
      <4>2. QED
        BY ONLY <4>1, <2>5, <2>6, <3>2, h0 \in Int, RefreshSub
    <3>4. QED
      BY <3>1, <3>3 DEF Redrawn
  <2>9. ASSUME NEW p \in Screen PROVE c1.vram[p] = PixelAt(t1, c.map[p], p)
    <3>1. c.map[p] \in Sheet /\ Covers(t, c.map[p], p) /\ c.vram[p] = PixelAt(t, c.map[p], p)
      BY <1>1 DEF MapRight, Tops, Drawn
    <3>2. CASE c.map[p] # s
      BY <2>2, <2>8, <3>1, <3>2
    <3>3. CASE c.map[p] = s /\ p \in area
      <4>1. t1[c.map[p]].height \in h .. h
        BY <1>9, <3>3 DEF h
      <4>2. QED
        BY <2>8, <3>3, <4>1
    <3>4. CASE c.map[p] = s /\ p \notin area
      BY <2>3, <2>8, <3>1, <3>4
    <3>5. QED
      BY <3>2, <3>3, <3>4
  <2>10. Drawn(c1, t1) /\ MapRight(c1, t1) /\ Stack(c1, t1)
    BY <2>5, <2>6, <2>8, <2>9 DEF Drawn, MapRight, Stack
  <2>11. Right(c1, t1)
    BY <1>7, <2>7, <2>8, <2>10 DEF Right
  <2>12. QED
    BY <1>5, <1>8, <2>1, <2>11
<1>12. QED
  BY <1>9, <1>10, <1>11

\* What a call may do to the sheets: restack one, or change one's look.
Alike(t, t1) == \A u \in Sheet : /\ t1[u].vx0 = t[u].vx0 /\ t1[u].vy0 = t[u].vy0
                                 /\ t1[u].buf = t[u].buf
OneSheet(t, t1, s) == (Alike(t, t1) /\ Kept(t, t1, s)) \/ OnlySheet(t, t1, s)

\* The flags of the other sheets stay.
FlagsStay(t, t1, s) == \A u \in Sheet \ {s} : t1[u].flags = t[u].flags

\* sheet_free hides the sheet first if it is shown.
LEMMA FreeRight ==
    ASSUME NEW c, NEW t, Right(c, t), NEW s \in Sheet, s # Back
    PROVE  LET r == sheet_free(c, t, s)
           IN  /\ Right(r.ctl, r.sht) /\ OneSheet(t, r.sht, s) /\ FlagsStay(t, r.sht, s)
               /\ r.sht[s].height = -1
<1> DEFINE r0 == IF t[s].height >= 0 THEN sheet_updown(c, t, s, -1) ELSE [ctl |-> c, sht |-> t]
           t0 == r0.sht
           t1 == [t0 EXCEPT ![s].flags = 0]
           r == sheet_free(c, t, s)
<1>1. /\ c \in Ctl /\ t \in Sheets /\ Stack(c, t)
      /\ \A u \in Sheet : t[u].height \in Int /\ t[u].height \in -1 .. c.top
      /\ c.top \in Int /\ c.top >= 0
  BY Entry DEF Right
<1>2. Right(r0.ctl, t0) /\ Moved(t, t0, s) /\ t0[s].height = -1
  <2>1. CASE t[s].height >= 0
    <3>1. r0 = sheet_updown(c, t, s, -1)
      BY <2>1
    <3>2. PICK height \in Int : height = -1
      OBVIOUS
    <3>3. t[s].height >= 0 => height <= c.top
      BY <1>1, <3>2
    <3>4. LET x == sheet_updown(c, t, s, height)
          IN  Right(x.ctl, x.sht) /\ Moved(t, x.sht, s) /\ (height = -1 => x.sht[s].height = -1)
      BY <3>3, UpdownRight
    <3>5. QED
      BY <3>1, <3>2, <3>4
  <2>2. CASE ~ t[s].height >= 0
    <3>1. r0 = [ctl |-> c, sht |-> t]
      BY <2>2
    <3>2. r0.ctl = c /\ t0 = t
      BY <3>1
    <3>3. Moved(t, t, s)
      BY DEF Moved, SameLook, Kept
    <3>4. QED
      BY <1>1, <2>2, <3>2, <3>3
  <2>3. QED
    BY <2>1, <2>2
<1>3. r.ctl = r0.ctl /\ r.sht = t1
  BY DEF sheet_free
<1> HIDE DEF r, r0, t0
<1>4. /\ t1 \in Sheets
      /\ \A u \in Sheet : /\ t1[u].height = t0[u].height /\ t1[u].buf = t0[u].buf
                          /\ t1[u].vx0 = t0[u].vx0 /\ t1[u].vy0 = t0[u].vy0
                          /\ t1[u].flags = IF u = s THEN 0 ELSE t0[u].flags
      /\ \A u \in Sheet \ {s} : t1[u] = t0[u]
  <2>1. t0 \in Sheets /\ t0 \in [Sheet -> SheetRec]
    BY <1>2 DEF Right, Sheets
  <2>2. \A u \in Sheet \ {s} : t1[u] = t0[u]
    BY <2>1
  <2>3. QED
    BY <2>1, <2>2, SetFlags
<1> HIDE DEF t1
<1>5. OnlySheet(t0, t1, s)
  BY <1>4 DEF OnlySheet
<1>6. Right(r0.ctl, t1)
  BY <1>2, <1>4, <1>5, HiddenRight
<1>7. Alike(t, t1) /\ Kept(t, t1, s) /\ FlagsStay(t, t1, s)
  BY <1>2, <1>4 DEF Moved, SameLook, Kept, Alike, FlagsStay
<1>8. QED
  BY <1>2, <1>3, <1>4, <1>6, <1>7 DEF OneSheet, r

\* The minimum of a set of integers within bounds is one of them.
LEMMA LowestOf ==
    ASSUME NEW S, NEW lo \in Int, NEW hi \in Int, S \subseteq lo .. hi, S # {}
    PROVE  Min(S) \in S
<1> DEFINE T == {x - lo : x \in S}
<1>1. T \subseteq Nat /\ T # {}
  OBVIOUS
<1>2. \E n \in T : \A y \in T : ~ (<<y, n>> \in OpToRel(<, Nat))
  <2> HIDE DEF T
  <2> QED
    BY <1>1, WFMin, NatLessThanWellFounded, Zenon
<1>3. \A x, y \in Nat : y < x => <<y, x>> \in OpToRel(<, Nat)
  BY Zenon DEF OpToRel
<1>4. PICK n \in T : \A y \in T : ~ (y < n)
  <2> HIDE DEF T
  <2> QED
    BY <1>1, <1>2, <1>3, Zenon
<1>5. PICK m \in S : n = m - lo
  OBVIOUS
<1>6. \A x \in S : ~ (x - lo < m - lo)
  BY <1>4, <1>5
<1>7. \A x \in S : m <= x
  BY <1>6
<1>8. \E z \in S : \A x \in S : z <= x
  BY <1>7
<1>9. QED
  BY <1>8 DEF Min

\* An unused sheet is hidden, after a call as before it.
LEMMA UnusedHidden ==
    ASSUME NEW c, NEW t, NEW c1, NEW t1, Right(c, t), Right(c1, t1), NEW s \in Sheet,
           \A u \in Sheet : t[u].flags = 0 => t[u].height = -1,
           OneSheet(t, t1, s), FlagsStay(t, t1, s), t1[s].flags = 1 \/ t1[s].height = -1
    PROVE  \A u \in Sheet : t1[u].flags = 0 => t1[u].height = -1
<1>1. ASSUME NEW u \in Sheet, t1[u].flags = 0 PROVE t1[u].height = -1
  <2>1. CASE u = s
    BY <1>1, <2>1
  <2>2. CASE u # s
    <3>1. t[u].height = -1
      BY <1>1, <2>2 DEF FlagsStay
    <3>2. /\ c1.top \in Int /\ t1[u].height \in Int /\ t1[u].height \in -1 .. c1.top
      BY Entry DEF Right
    <3>3. ~ t1[u].height >= 0
      BY <2>2, <3>1 DEF OneSheet, OnlySheet, Kept
    <3>4. QED
      BY <3>2, <3>3
  <2>3. QED
    BY <2>1, <2>2
<1>2. QED
  BY <1>1

\* Sheet s when sheet_alloc and sheet_setbuf have prepared it.
Prepared(s, colour) ==
    [sht EXCEPT ![s].flags = 1, ![s].height = -1, ![s].buf = Empty(s, colour)]

\* sheet_alloc takes a sheet that is hidden; setting it up does not show.
LEMMA OpenRight ==
    ASSUME IInv, Used # Sheet, NEW colour \in Colours, NEW at \in Places,
           NEW s, s = Min(Sheet \ Used),
           NEW t, t = Prepared(s, colour)
    PROVE  LET r == sheet_slide(ctl, t, s, at[1], at[2])
           IN  /\ s \in Sheet /\ Right(r.ctl, r.sht) /\ OneSheet(sht, r.sht, s)
               /\ FlagsStay(sht, r.sht, s) /\ r.sht[s].flags = 1
<1> DEFINE b == Empty(s, colour)
           q == [sht[s] EXCEPT !.flags = 1, !.height = -1, !.buf = b]
           r == sheet_slide(ctl, t, s, at[1], at[2])
<1>1. Right(ctl, sht) /\ sht \in Sheets /\ \A u \in Sheet : sht[u].flags = 0 => sht[u].height = -1
  BY DEF IInv, Right
<1>2. s \in Sheet /\ s \notin Used
  <2>1. Sheet \ Used \subseteq 0 .. MAX_SHEETS - 1 /\ Sheet \ Used # {}
    BY DEF Sheet, Used
  <2>2. PICK hi \in Int : hi = MAX_SHEETS - 1
    BY SizeAssumption
  <2>3. PICK S : S = Sheet \ Used
    OBVIOUS
  <2>4. PICK lo \in Int : lo = 0
    OBVIOUS
  <2>5. S \subseteq lo .. hi /\ S # {}
    BY <2>1, <2>2, <2>3, <2>4
  <2>6. Min(S) \in S
    BY ONLY <2>5, lo \in Int, hi \in Int, LowestOf
  <2>7. QED
    BY <2>3, <2>6
<1>3. s # Back /\ sht[s].height = -1
  <2>1. sht[Back].flags = 1
    BY <1>1 DEF Right, BackShown
  <2>2. sht[s].flags \in {0, 1} /\ sht[s].flags # 1
    BY <1>1, <1>2, FieldsOf DEF Used
  <2>3. QED
    BY <1>1, <1>2, <2>1, <2>2
<1>4. sht \in [Sheet -> SheetRec] /\ sht[s] \in SheetRec
  BY <1>1, <1>2 DEF Sheets
<1>5. b \in [Box(s) -> Colours \cup {col_inv}] /\ Filled(s, b)
  BY ColourAssumption DEF Empty, Filled
<1> HIDE DEF b
<1>6. q \in SheetRec /\ q.height = -1 /\ q.flags = 1 /\ q.buf = b
  <2>1. b \in Bufs
    BY <1>2, <1>5 DEF Bufs
  <2>2. QED
    <3>1. PICK r0 \in SheetRec : r0 = sht[s]
      BY <1>4
    <3>2. PICK r1 \in SheetRec : r1 = [r0 EXCEPT !.flags = 1] /\ r1.flags = 1
      BY RecFlags
    <3>3. PICK r2 \in SheetRec : r2 = [r1 EXCEPT !.height = -1] /\ r2.flags = 1 /\ r2.height = -1
      <4>1. PICK low \in Int : low = -1
        OBVIOUS
      <4>2. LET r2 == [r1 EXCEPT !.height = low]
            IN  r2 \in SheetRec /\ r2.flags = 1 /\ r2.height = low
        BY <3>2, RecHeight
      <4>3. QED
        BY <4>1, <4>2
    <3>4. q = [r2 EXCEPT !.buf = b]
      BY <3>1, <3>2, <3>3 DEF SheetRec
    <3> HIDE DEF q
    <3>5. QED
      BY <2>1, <3>3, <3>4 DEF SheetRec
<1>7. t = [sht EXCEPT ![s] = q]
  BY <1>2, <1>4 DEF b, Prepared
<1> HIDE DEF q
<1>8. t \in Sheets /\ OneRec(sht, t, s, q)
  BY ONLY <1>1, <1>2, <1>5, <1>6, <1>7, SetRec
<1>9. OnlySheet(sht, t, s) /\ t[s].height = -1 /\ t[s].flags = 1
  BY <1>2, <1>3, <1>6, <1>8 DEF OneRec, OnlySheet
<1>10. Right(ctl, t)
  BY ONLY <1>1, <1>2, <1>3, <1>8, <1>9, HiddenRight
<1>11. PICK x, y \in Int : x = at[1] /\ y = at[2]
  BY PlacesAssumption
<1>12. r = sheet_slide(ctl, t, s, x, y)
  BY <1>11
<1> HIDE DEF r
<1>13. Right(r.ctl, r.sht) /\ OnlySheet(t, r.sht, s) /\ r.sht[s].flags = t[s].flags
  <2>1. t[s].height >= -1
    BY <1>9
  <2>2. LET z == sheet_slide(ctl, t, s, x, y)
        IN  Right(z.ctl, z.sht) /\ OnlySheet(t, z.sht, s) /\ z.sht[s].flags = t[s].flags
    BY ONLY <1>2, <1>3, <1>10, <2>1, x \in Int, y \in Int, SlideRight
  <2>3. QED
    BY ONLY <1>12, <2>2
<1>14. OneSheet(sht, r.sht, s) /\ FlagsStay(sht, r.sht, s)
  BY <1>9, <1>13 DEF OnlySheet, OneSheet, FlagsStay
<1>15. QED
  BY <1>2, <1>9, <1>13, <1>14 DEF r

-----------------------------------------------------------------------------
(* The invariant is inductive.                                              *)

\* The state HariMain has set up is right.
LEMMA InitRight == Init => IInv
<1> SUFFICES ASSUME Init PROVE IInv
  OBVIOUS
<1>1. PICK colour \in Colours :
          /\ ctl = [top |-> 0, sheets |-> [h \in Sheet |-> IF h = 0 THEN Back ELSE NoSheet],
                    map |-> [p \in Screen |-> Back], vram |-> [p \in Screen |-> colour]]
          /\ sht = [s \in Sheet |->
                       [flags |-> IF s = Back THEN 1 ELSE 0, vx0 |-> 0, vy0 |-> 0,
                        height |-> IF s = Back THEN 0 ELSE -1, buf |-> Empty(s, colour)]]
  BY DEF Init
<1>2. \A s \in Sheet : /\ sht[s].flags = (IF s = Back THEN 1 ELSE 0)
                       /\ sht[s].height = (IF s = Back THEN 0 ELSE -1)
                       /\ sht[s].vx0 = 0 /\ sht[s].vy0 = 0 /\ sht[s].buf = Empty(s, colour)
                       /\ sht[s].flags \in {0, 1} /\ sht[s].height \in Int
  BY <1>1
<1>3. /\ ctl.top = 0 /\ ctl.sheets = [h \in Sheet |-> IF h = 0 THEN Back ELSE NoSheet]
      /\ ctl.map = [p \in Screen |-> Back] /\ ctl.vram = [p \in Screen |-> colour]
  BY <1>1
<1>4. \A s \in Sheet : /\ Empty(s, colour) \in [Box(s) -> Colours \cup {col_inv}]
                       /\ Filled(s, Empty(s, colour))
  BY ColourAssumption DEF Empty, Filled
<1>5. ctl \in Ctl
  BY <1>1, BackIsSheet DEF Ctl
<1>6. sht \in Sheets
  <2>1. \A s \in Sheet : Empty(s, colour) \in Bufs
    BY <1>4 DEF Bufs
  <2>2. sht \in [Sheet -> SheetRec]
    <3>1. \A s \in Sheet :
              [flags |-> IF s = Back THEN 1 ELSE 0, vx0 |-> 0, vy0 |-> 0,
               height |-> IF s = Back THEN 0 ELSE -1, buf |-> Empty(s, colour)] \in SheetRec
      BY <2>1 DEF SheetRec
    <3>2. QED
      BY <1>1, <3>1
  <2>3. QED
    BY <1>2, <1>4, <2>2 DEF Sheets
<1>7. Stack(ctl, sht)
  <2>1. 0 \in Sheet /\ Back = 0 /\ 0 \in 0 .. MAX_SHEETS - 1
    BY SizeAssumption DEF Sheet, Back
  <2>2. \A h \in 0 .. 0 : h = 0
    OBVIOUS
  <2>3. QED
    BY <1>2, <1>3, <2>1, <2>2 DEF Stack
<1>8. BackShown(sht)
  BY <1>2, BackIsSheet DEF BackShown
<1>9. ASSUME NEW p \in Screen
      PROVE  Tops(sht, p, ctl.map[p]) /\ ctl.vram[p] = PixelAt(sht, ctl.map[p], p)
  <2>1. ctl.map[p] = Back /\ ctl.vram[p] = colour
    BY <1>3
  <2>2. Covers(sht, Back, p)
    BY <1>6, <1>8, BackCovers DEF BackShown
  <2>3. Tops(sht, p, Back)
    BY <1>2, <2>2, BackIsSheet DEF Tops
  <2>4. <<p[1] - 0, p[2] - 0>> = p /\ p \in Box(Back) /\ p \notin HolesOf[Back]
    BY SizeAssumption, BackAssumption DEF Screen
  <2>5. sht[Back].vx0 = 0 /\ sht[Back].vy0 = 0 /\ sht[Back].buf = Empty(Back, colour)
    BY <1>2, BackIsSheet
  <2>6. PixelAt(sht, Back, p) = Empty(Back, colour)[p]
    BY <2>4, <2>5 DEF PixelAt
  <2>7. Empty(Back, colour)[p] = colour
    BY <2>4 DEF Empty
  <2>8. QED
    BY <2>1, <2>3, <2>6, <2>7
<1>10. QED
  BY <1>2, <1>5, <1>6, <1>7, <1>8, <1>9 DEF IInv, Right, MapRight, Drawn

\* Every call preserves the invariant, and touches one sheet.
LEMMA NextRight == IInv /\ [Next]_vars => IInv' /\ \E s \in Sheet : OneSheet(sht, sht', s)
<1> SUFFICES ASSUME IInv, [Next]_vars
             PROVE  IInv' /\ \E s \in Sheet : OneSheet(sht, sht', s)
  OBVIOUS
<1>1. /\ Right(ctl, sht) /\ \A u \in Sheet : sht[u].flags = 0 => sht[u].height = -1
      /\ \A u \in Sheet : sht[u].height \in Int /\ sht[u].height >= -1
  BY Entry DEF IInv, Right
<1>2. ASSUME NEW s \in Sheet, Right(ctl', sht'), OneSheet(sht, sht', s), FlagsStay(sht, sht', s),
             sht'[s].flags = 1 \/ sht'[s].height = -1
      PROVE  IInv' /\ \E z \in Sheet : OneSheet(sht, sht', z)
  <2>1. \A u \in Sheet : sht'[u].flags = 0 => sht'[u].height = -1
    BY <1>1, <1>2, UnusedHidden
  <2>2. QED
    BY <1>2, <2>1 DEF IInv
<1>3. ASSUME NEW colour \in Colours, NEW at \in Places, Open(colour, at)
      PROVE  IInv' /\ \E s \in Sheet : OneSheet(sht, sht', s)
  <2>1. PICK s : s = Min(Sheet \ Used)
    OBVIOUS
  <2>2. PICK t : t = Prepared(s, colour)
    OBVIOUS
  <2>3. PICK r : r = sheet_slide(ctl, t, s, at[1], at[2])
    OBVIOUS
  <2>4. Used # Sheet /\ ctl' = r.ctl /\ sht' = r.sht
    BY <1>3, <2>1, <2>2, <2>3 DEF Open, Becomes, Prepared
  <2>5. /\ s \in Sheet /\ Right(r.ctl, r.sht) /\ OneSheet(sht, r.sht, s)
        /\ FlagsStay(sht, r.sht, s) /\ r.sht[s].flags = 1
    BY <2>1, <2>2, <2>3, <2>4, OpenRight
  <2>6. QED
    BY <1>2, <2>4, <2>5
<1>4. ASSUME NEW s \in Used \ {Back}, NEW height \in -2 .. MAX_SHEETS + 1, Updown(s, height)
      PROVE  IInv' /\ \E z \in Sheet : OneSheet(sht, sht', z)
  <2>1. s \in Sheet /\ s # Back /\ sht[s].flags = 1 /\ height \in Int
    BY SizeAssumption DEF Used
  <2>2. PICK r : r = sheet_updown(ctl, sht, s, height)
    OBVIOUS
  <2>3. /\ sht[s].height >= 0 => height <= ctl.top
        /\ ctl' = r.ctl /\ sht' = r.sht
    BY <1>4, <2>2 DEF Updown, Becomes
  <2>4. Right(r.ctl, r.sht) /\ Moved(sht, r.sht, s)
    BY <1>1, <2>1, <2>2, <2>3, UpdownRight
  <2>5. OneSheet(sht, r.sht, s) /\ FlagsStay(sht, r.sht, s) /\ r.sht[s].flags = 1
    BY <2>1, <2>4 DEF Moved, SameLook, OneSheet, Alike, FlagsStay
  <2>6. QED
    BY <1>2, <2>1, <2>3, <2>4, <2>5
<1>5. ASSUME NEW s \in Used \ {Back}, NEW at \in Places, Slide(s, at)
      PROVE  IInv' /\ \E z \in Sheet : OneSheet(sht, sht', z)
  <2>1. s \in Sheet /\ s # Back /\ sht[s].flags = 1 /\ sht[s].height >= -1
    BY <1>1 DEF Used
  <2>2. PICK x, y \in Int : x = at[1] /\ y = at[2]
    BY PlacesAssumption
  <2>3. PICK r : r = sheet_slide(ctl, sht, s, x, y)
    OBVIOUS
  <2>4. ctl' = r.ctl /\ sht' = r.sht
    BY <1>5, <2>2, <2>3 DEF Slide, Becomes
  <2>5. Right(r.ctl, r.sht) /\ OnlySheet(sht, r.sht, s) /\ r.sht[s].flags = sht[s].flags
    BY <1>1, <2>1, <2>3, SlideRight
  <2>6. OneSheet(sht, r.sht, s) /\ FlagsStay(sht, r.sht, s) /\ r.sht[s].flags = 1
    BY <2>1, <2>5 DEF OnlySheet, OneSheet, FlagsStay
  <2>7. QED
    BY <1>2, <2>1, <2>4, <2>5, <2>6
<1>6. ASSUME NEW s \in Used \ {Back}, NEW px \in Box(s) \ HolesOf[s], NEW colour \in Colours,
             Paint(s, px, colour)
      PROVE  IInv' /\ \E z \in Sheet : OneSheet(sht, sht', z)
  <2>1. /\ s \in Sheet /\ s # Back /\ sht[s].flags = 1 /\ sht[s].height >= -1
        /\ px \in Box(s) /\ px \notin HolesOf[s]
    BY <1>1 DEF Used
  <2>2. PICK t : t = [sht EXCEPT ![s].buf[px] = colour]
    OBVIOUS
  <2>3. ctl' = sheet_refresh(ctl, t, s, px) /\ sht' = t
    BY <1>6, <2>2 DEF Paint, Becomes
  <2>4. /\ Right(sheet_refresh(ctl, t, s, px), t)
        /\ OnlySheet(sht, t, s) /\ t[s].flags = sht[s].flags
    <3>1. t = Painted(sht, s, px, colour)
      BY <2>2 DEF Painted
    <3>2. Right(ctl, sht)
      BY <1>1
    <3>3. QED
      BY ONLY <2>1, <3>1, <3>2, colour \in Colours, PaintRight
  <2>5. OneSheet(sht, t, s) /\ FlagsStay(sht, t, s) /\ t[s].flags = 1
    BY <2>1, <2>4 DEF OnlySheet, OneSheet, FlagsStay
  <2>6. QED
    BY <1>2, <2>1, <2>3, <2>4, <2>5
<1>7. ASSUME NEW s \in Used \ {Back}, Free(s)
      PROVE  IInv' /\ \E z \in Sheet : OneSheet(sht, sht', z)
  <2>1. s \in Sheet /\ s # Back
    BY DEF Used
  <2>2. PICK r : r = sheet_free(ctl, sht, s)
    OBVIOUS
  <2>3. ctl' = r.ctl /\ sht' = r.sht
    BY <1>7, <2>2 DEF Free, Becomes
  <2>4. /\ Right(r.ctl, r.sht) /\ OneSheet(sht, r.sht, s) /\ FlagsStay(sht, r.sht, s)
        /\ r.sht[s].height = -1
    BY <1>1, <2>1, <2>2, FreeRight
  <2>5. QED
    BY <1>2, <2>1, <2>3, <2>4
<1>8. CASE UNCHANGED vars
  <2>1. ctl' = ctl /\ sht' = sht
    BY <1>8 DEF vars
  <2>2. IInv'
    BY <2>1 DEF IInv
  <2>3. OneSheet(sht, sht', Back)
    BY <2>1 DEF OneSheet, OnlySheet
  <2>4. QED
    BY <2>2, <2>3, BackIsSheet
<1>9. QED
  BY <1>3, <1>4, <1>5, <1>6, <1>7, <1>8 DEF Next

\* IInv is an invariant.
LEMMA Invariant == Spec => []IInv
<1>1. IInv /\ [Next]_vars => IInv'
  BY NextRight
<1>2. QED
  BY <1>1, InitRight, PTL DEF Spec

-----------------------------------------------------------------------------
(* The theorems.                                                            *)

\* IInv contains the types.
LEMMA InvariantType == IInv => TypeOK
<1> SUFFICES ASSUME IInv PROVE TypeOK
  OBVIOUS
<1>1. ctl \in Ctl /\ sht \in Sheets /\ Stack(ctl, sht)
  BY DEF IInv, Right
<1>2. /\ ctl.top \in Int /\ ctl.top \in 0 .. MAX_SHEETS - 1
      /\ \A s \in Sheet : sht[s].height \in Int /\ sht[s].height \in -1 .. ctl.top
  BY <1>1, Entry
<1>3. ctl \in [top : -1 .. MAX_SHEETS - 1, sheets : [Sheet -> Sheet \cup {NoSheet}],
               map : [Screen -> Sheet], vram : [Screen -> Colours]]
  <2>1. ctl.top \in -1 .. MAX_SHEETS - 1
    BY <1>2, SizeAssumption
  <2>2. QED
    BY <1>1, <2>1 DEF Ctl
<1>4. ASSUME NEW s \in Sheet
      PROVE  /\ sht[s].flags \in {0, 1} /\ sht[s].height \in -1 .. MAX_SHEETS - 1
             /\ sht[s].buf \in [Box(s) -> Colours \cup {col_inv}]
  <2>1. sht[s].flags \in {0, 1} /\ Filled(s, sht[s].buf)
    BY <1>1, FieldsOf
  <2>2. sht[s].height \in -1 .. MAX_SHEETS - 1
    BY <1>2, SizeAssumption
  <2>3. QED
    BY <2>1, <2>2 DEF Filled
<1>5. QED
  BY <1>3, <1>4 DEF TypeOK

\* IInv implies that the array and the heights agree.
LEMMA InvariantStack == IInv => StackExact
<1> SUFFICES ASSUME IInv, NEW s \in Sheet
             PROVE  {h \in 0 .. ctl.top : ctl.sheets[h] = s}
                        = IF sht[s].height = -1 THEN {} ELSE {sht[s].height}
  BY DEF StackExact
<1>1. /\ ctl.top \in Int
      /\ \A h \in 0 .. ctl.top : ctl.sheets[h] \in Sheet /\ sht[ctl.sheets[h]].height = h
      /\ sht[s].height \in Int /\ sht[s].height \in -1 .. ctl.top
      /\ sht[s].height >= 0 => ctl.sheets[sht[s].height] = s
  BY Entry DEF IInv, Right
<1>2. \A h \in 0 .. ctl.top : ctl.sheets[h] = s <=> h = sht[s].height
  BY <1>1
<1>3. QED
  BY <1>1, <1>2

\* IInv implies that the map is right.
LEMMA InvariantMap == IInv => MapNamesTopmost
<1> SUFFICES ASSUME IInv, NEW p \in Screen
             PROVE  /\ sht[ctl.map[p]].height \in 0 .. ctl.top
                    /\ Covers(sht, ctl.map[p], p)
                    /\ \A h \in sht[ctl.map[p]].height + 1 .. ctl.top :
                           ~ Covers(sht, ctl.sheets[h], p)
  BY DEF MapNamesTopmost
<1>1. PICK o : o = ctl.map[p]
  OBVIOUS
<1>2. Tops(sht, p, o)
  BY <1>1 DEF IInv, Right, MapRight
<1>3. /\ ctl.top \in Int
      /\ \A h \in 0 .. ctl.top : ctl.sheets[h] \in Sheet /\ sht[ctl.sheets[h]].height = h
      /\ sht[o].height \in Int /\ sht[o].height \in -1 .. ctl.top /\ sht[o].height >= 0
  BY <1>2, Entry DEF IInv, Right, Tops
<1>4. ASSUME NEW h \in sht[o].height + 1 .. ctl.top PROVE ~ Covers(sht, ctl.sheets[h], p)
  <2>1. h \in 0 .. ctl.top /\ h > sht[o].height
    BY <1>3
  <2>2. ctl.sheets[h] \in Sheet /\ sht[ctl.sheets[h]].height > sht[o].height
    BY <1>3, <2>1
  <2>3. QED
    BY <1>2, <2>2 DEF Tops
<1>5. sht[o].height \in 0 .. ctl.top /\ Covers(sht, o, p)
  BY <1>2, <1>3 DEF Tops
<1>6. QED
  BY <1>1, <1>4, <1>5

\* The structures keep their types: top, heights and entries stay within the
\* arrays, the map names sheets, and what is on the screen is a colour that was
\* painted, never a transparent one.
THEOREM TypeCorrect == Spec => []TypeOK
BY Invariant, InvariantType, PTL

\* Whatever callers do, one call at a time, the array and the heights agree: a
\* sheet shown is in one live entry, at the height it bears, a hidden one in none.
THEOREM StackCorrect == Spec => []StackExact
BY Invariant, InvariantStack, PTL

\* The map names, for every pixel and after every call, the highest sheet that is
\* not transparent there, though each call renews a part of it only.
THEOREM MapCorrect == Spec => []MapNamesTopmost
BY Invariant, InvariantMap, PTL

-----------------------------------------------------------------------------
(* The screen is the picture of the stack.                                  *)

\* The abstract stack and looks, of any sheets0.
LEMMA Pictured == IInv => Picture!IsPicture /\ Picture!IsStack(Shown, Above)
<1> SUFFICES ASSUME IInv PROVE Picture!IsPicture /\ Picture!IsStack(Shown, Above)
  OBVIOUS
<1>1. /\ ctl \in Ctl /\ sht \in Sheets /\ Stack(ctl, sht) /\ MapRight(ctl, sht)
      /\ Drawn(ctl, sht)
  BY DEF IInv, Right
<1>2. /\ \A u \in Sheet : sht[u].height \in Int
      /\ \A u, v \in Sheet : sht[u].height = sht[v].height /\ sht[u].height >= 0 => u = v
  BY <1>1, Entry
<1>3. ASSUME NEW p \in Screen
      PROVE  \E s \in Sheet : Picture!Topmost(s, p) /\ ctl.vram[p] = [z \in Sheet |-> Look(z)][s][p]
  <2>1. PICK o \in Sheet : o = ctl.map[p]
    BY <1>1 DEF MapRight, Tops
  <2>2. Tops(sht, p, o) /\ ctl.vram[p] = PixelAt(sht, o, p)
    BY <1>1, <2>1 DEF MapRight, Drawn
  <2>3. o \in Shown /\ p \in DOMAIN Look(o) /\ Look(o)[p] = PixelAt(sht, o, p)
    BY <2>2 DEF Tops, Shown, Look
  <2>4. ASSUME NEW u \in Shown \ {o}, p \in DOMAIN Look(u) PROVE <<o, u>> \in Above
    <3>1. Covers(sht, u, p) /\ u \in Sheet /\ sht[u].height >= 0
      BY <2>4 DEF Look, Shown
    <3>2. ~ sht[u].height > sht[o].height /\ sht[u].height # sht[o].height
      BY <1>2, <2>2, <3>1 DEF Tops
    <3>3. sht[o].height > sht[u].height
      BY <1>2, <3>1, <3>2
    <3>4. QED
      BY <2>3, <3>3 DEF Above
  <2>5. \A u \in Shown \ {o} : u \in Sheet
    BY DEF Shown
  <2>6. Picture!Topmost(o, p)
    BY <2>3, <2>4, <2>5 DEF Picture!Topmost
  <2>7. QED
    BY <2>2, <2>3, <2>6
<1>4. DOMAIN ctl.vram = Screen
  BY <1>1 DEF Ctl
<1>5. Picture!IsPicture
  BY <1>3, <1>4 DEF Picture!IsPicture
<1>6. Picture!IsStack(Shown, Above)
  BY <1>2 DEF Picture!IsStack, Shown, Above
<1>7. QED
  BY <1>5, <1>6

\* One sheet touched is one layer restacked or changed.
LEMMA OneLayer ==
    ASSUME NEW s \in Sheet, OneSheet(sht, sht', s)
    PROVE  Picture!Restack(s) \/ Picture!Change(s)
<1>1. CASE Alike(sht, sht') /\ Kept(sht, sht', s)
  <2>1. \A u \in Sheet \ {s} : sht'[u].height >= 0 <=> sht[u].height >= 0
    BY <1>1 DEF Kept
  <2>2. Shown' \ {s} = Shown \ {s}
    BY <2>1 DEF Shown
  <2>3. \A a, b \in Sheet \ {s} : <<a, b>> \in Above' <=> <<a, b>> \in Above
    BY <1>1, <2>1 DEF Kept, Above, Shown
  <2>4. \A u \in Sheet : Look(u)' = Look(u)
    <3>1. ASSUME NEW u \in Sheet PROVE Look(u)' = Look(u)
      <4>1. /\ \A p : PixelAt(sht', u, p) = PixelAt(sht, u, p)
            /\ \A p : Covers(sht', u, p) <=> Covers(sht, u, p)
        BY <1>1, LookSame DEF Alike
      <4>2. QED
        BY <4>1 DEF Look
    <3>2. QED
      BY <3>1
  <2>5. [u \in Sheet |-> Look(u)]' = [u \in Sheet |-> Look(u)]
    BY <2>4
  <2>6. QED
    BY <2>2, <2>3, <2>5 DEF Picture!Restack
<1>2. CASE OnlySheet(sht, sht', s)
  <2>1. Shown' = Shown /\ Above' = Above
    BY <1>2 DEF OnlySheet, Shown, Above
  <2>2. ASSUME NEW u \in Sheet \ {s} PROVE Look(u)' = Look(u)
    <3>1. /\ \A p : PixelAt(sht', u, p) = PixelAt(sht, u, p)
          /\ \A p : Covers(sht', u, p) <=> Covers(sht, u, p)
      BY <1>2, OthersLook
    <3>2. QED
      BY <3>1 DEF Look
  <2>3. \A r \in Sheet \ {s} : [u \in Sheet |-> Look(u)]'[r] = [u \in Sheet |-> Look(u)][r]
    BY <2>2
  <2>4. QED
    BY <2>1, <2>3 DEF Picture!Change
<1>3. QED
  BY <1>1, <1>2 DEF OneSheet

\* The window layers do what their callers see of them: the screen is always the
\* picture of a stack of layers, and a call restacks, moves or paints one layer.
THEOREM DrawsPicture == Spec => Implements
<1>1. Init => Picture!Init
  <2> SUFFICES ASSUME Init PROVE Picture!Init
    OBVIOUS
  <2>1. IInv
    BY InitRight
  <2>2. \A s \in Sheet : sht[s].height = IF s = Back THEN 0 ELSE -1
    BY DEF Init
  <2>3. Shown = {Back}
    BY <2>2, BackIsSheet DEF Shown
  <2>4. Above = {}
    <3>1. sht[Back].height = 0
      BY <2>2, BackIsSheet
    <3>2. QED
      BY <2>3, <3>1 DEF Above
  <2>5. Picture!IsPicture
    BY <2>1, Pictured
  <2>6. QED
    BY <2>3, <2>4, <2>5, BackIsSheet DEF Picture!Init
<1>2. IInv' => Picture!IsPicture' /\ Picture!IsStack(Shown, Above)'
  BY Pictured, PTL
<1>3. IInv /\ [Next]_vars => [Picture!Next]_Picture!vars
  <2> SUFFICES ASSUME IInv, [Next]_vars PROVE Picture!Next
    OBVIOUS
  <2>1. PICK s \in Sheet : OneSheet(sht, sht', s)
    BY NextRight
  <2>2. Picture!Restack(s) \/ Picture!Change(s)
    BY <2>1, OneLayer
  <2>3. IInv'
    BY NextRight
  <2>4. Picture!IsPicture' /\ Picture!IsStack(Shown', Above')
    BY <1>2, <2>3 DEF Picture!IsStack
  <2>5. QED
    BY <2>2, <2>4 DEF Picture!Next
<1>4. QED
  BY <1>1, <1>3, Invariant, PTL DEF Spec, Implements, Picture!Spec
=============================================================================
