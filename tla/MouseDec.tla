------------------------------ MODULE MouseDec ------------------------------
(***************************************************************************)
(* The mouse (mouse.c and HariMain's branch for its messages): movements   *)
(* arrive as three bytes through task_a's FIFO, which drops a byte when it *)
(* is full; the decoder finds the first byte of a movement by three of its *)
(* bits, and the pointer moves within the screen.                          *)
(*                                                                         *)
(* The mouse itself is external.  Its bytes carry, for the properties      *)
(* alone, the movement and the place in it they belong to, and whether     *)
(* bytes were dropped just before them.                                    *)
(***************************************************************************)
EXTENDS Integers, Sequences

CONSTANTS Moves,         \* the movements a mouse can report
          Room,          \* entries of the FIFO that are left for its bytes
          scrnx, scrny,  \* the screen
          PointerSize, BarHeight,  \* 16 and 28 pixels, for where the pointer starts
          MaxLosses      \* bound: runs of dropped bytes in a behaviour

Movement == [btn : 0 .. 7, dx : -256 .. 255, dy : -256 .. 255]

ASSUME MovesAssumption == Moves # {} /\ Moves \subseteq Movement
ASSUME ScreenAssumption == scrnx \in Nat \ {0} /\ scrny \in Nat \ {0}
ASSUME StartAssumption == /\ PointerSize \in 0 .. scrnx /\ BarHeight \in Nat
                          /\ PointerSize + BarHeight <= scrny
ASSUME RoomAssumption == Room \in Nat \ {0} /\ MaxLosses \in Nat

VARIABLES mdec,          \* struct MOUSE_DEC: phase, buf, btn, x, y
          pointer, win,  \* where sht_mouse and sht_win are
          queue,         \* the bytes in the FIFO
          report, sent,  \* the movement the mouse reports, its bytes sent
          from,          \* whose bytes buf holds
          kinds,         \* what this mouse reports, a subset of Moves
          dropping,      \* the byte before the next one was dropped
          losses,        \* runs of bytes dropped one after the other
          spoiled        \* movements with a report's first byte put together wrongly

vars == <<mdec, pointer, win, queue, report, sent, from, kinds, dropping, losses, spoiled>>

-----------------------------------------------------------------------------
Negative(n) == IF n < 0 THEN 1 ELSE 0

\* The PS/2 mouse: buttons, the signs and a bit that is always set; then the
\* low eight bits of each direction.
Bytes(m) == <<8 + m.btn + 16 * Negative(m.dx) + 32 * Negative(m.dy),
              m.dx % 256, m.dy % 256>>

Ack == [dat |-> 250, of |-> report, nth |-> 0, gap |-> FALSE]

\* Variants: the decoder trusts its phase, both bytes kept lead to phase 3, signs
\* are ignored, the pointer may leave the screen by one.
TrustsPhase(dat) == TRUE
BufferedSkips(d, n, dat) == [d EXCEPT !.phase = 3, !.buf[n] = dat]
ExtendedNever(dat, sign) == dat
WithinByOne(n, size) == IF n < 0 THEN 0 ELSE IF n > size THEN size ELSE n

\* (dat & 0xc8) == 0x08, (dat & mask) != 0
LooksFirst(dat) == dat < 64 /\ (dat \div 8) % 2 = 1
Bit(dat, mask) == (dat \div mask) % 2 = 1
\* x |= 0xffffff00 if the bit is set
Extended(dat, sign) == IF sign THEN dat - 256 ELSE dat

Within(n, size) == IF n < 0 THEN 0 ELSE IF n > size - 1 THEN size - 1 ELSE n
Moved(at, x, y) == <<Within(at[1] + x, scrnx), Within(at[2] + y, scrny)>>

-----------------------------------------------------------------------------
\* A report is clear when none of its later bytes could be a first one.
FirstBytes == {8 + b + 16 * s + 32 * t : b \in 0 .. 7, s \in 0 .. 1, t \in 0 .. 1}
Clear(m) == Bytes(m)[2] \notin FirstBytes /\ Bytes(m)[3] \notin FirstBytes

\* HariMain's preparations and enable_mouse; the mouse answers before it reports.
Init ==
    /\ mdec = [phase |-> 0, buf |-> <<0, 0, 0>>, btn |-> 0, x |-> 0, y |-> 0]
    /\ pointer = <<(scrnx - PointerSize) \div 2, (scrny - BarHeight - PointerSize) \div 2>>
    /\ win = <<64, 56>>
    /\ kinds \in {Moves, {m \in Moves : Clear(m)}} \ {{}}
    /\ report \in kinds /\ sent = 0
    /\ queue = <<Ack>>
    /\ from = <<Ack, Ack, Ack>>
    /\ dropping = FALSE /\ losses = 0 /\ spoiled = 0

\* inthandler2c: fifo32_put drops the byte when the FIFO is full.
Interrupt ==
    /\ IF Len(queue) < Room
       THEN /\ queue' = Append(queue, [dat |-> Bytes(report)[sent + 1], of |-> report,
                                       nth |-> sent + 1, gap |-> dropping])
            /\ dropping' = FALSE
            /\ UNCHANGED losses
       ELSE /\ dropping \/ losses < MaxLosses
            /\ dropping' = TRUE
            /\ losses' = IF dropping THEN losses ELSE losses + 1
            /\ UNCHANGED queue
    /\ sent' = (sent + 1) % 3
    /\ IF sent = 2 THEN report' \in kinds ELSE UNCHANGED report
    /\ UNCHANGED <<mdec, pointer, win, from, kinds, spoiled>>

\* task_a reads a byte for mouse_decode in the given phase.
Read(phase) ==
    /\ queue # << >>
    /\ mdec.phase = phase
    /\ queue' = Tail(queue)
    /\ UNCHANGED <<report, sent, kinds, dropping, losses>>

Buffered(d, n, dat) == [phase |-> n + 1, buf |-> [d.buf EXCEPT ![n] = dat],
                        btn |-> d.btn, x |-> d.x, y |-> d.y]
Stays == UNCHANGED <<pointer, win, spoiled>>

ReadAck ==
    /\ Read(0)
    /\ mdec' = IF Head(queue).dat = 250 THEN [mdec EXCEPT !.phase = 1] ELSE mdec
    /\ UNCHANGED from /\ Stays

ReadFirst ==
    /\ Read(1)
    /\ IF LooksFirst(Head(queue).dat)
       THEN /\ mdec' = Buffered(mdec, 1, Head(queue).dat)
            /\ from' = [from EXCEPT ![1] = Head(queue)]
       ELSE UNCHANGED <<mdec, from>>
    /\ Stays

ReadSecond ==
    /\ Read(2)
    /\ mdec' = Buffered(mdec, 2, Head(queue).dat)
    /\ from' = [from EXCEPT ![2] = Head(queue)]
    /\ Stays

\* The movement is decoded and the pointer moved; the left button drags sht_win.
ReadThird ==
    /\ Read(3)
    /\ mdec' = [phase |-> 1, buf |-> [mdec.buf EXCEPT ![3] = Head(queue).dat],
                btn |-> mdec.buf[1] % 8,
                x |-> Extended(mdec.buf[2], Bit(mdec.buf[1], 16)),
                y |-> - Extended(Head(queue).dat, Bit(mdec.buf[1], 32))]
    /\ from' = [from EXCEPT ![3] = Head(queue)]
    /\ pointer' = Moved(pointer, mdec'.x, mdec'.y)
    /\ win' = IF Bit(mdec'.btn, 1) THEN <<pointer'[1] - 80, pointer'[2] - 80>> ELSE win
    /\ spoiled' = IF /\ from'[1].nth = 1
                     /\ \E n \in 2 .. 3 : from'[n].nth # n \/ from'[n].of # from'[1].of
                  THEN spoiled + 1 ELSE spoiled

Next == Interrupt \/ ReadAck \/ ReadFirst \/ ReadSecond \/ ReadThird

Spec == Init /\ [][Next]_vars

-----------------------------------------------------------------------------
Byte == [dat : 0 .. 255, of : Moves, nth : 0 .. 3, gap : BOOLEAN]
Dec == [phase : 0 .. 3, buf : [1 .. 3 -> 0 .. 255], btn : 0 .. 7,
        x : -256 .. 255, y : -255 .. 256]

TypeOK ==
    /\ mdec \in Dec
    /\ pointer \in (0 .. scrnx - 1) \X (0 .. scrny - 1)
    /\ win \in Int \X Int
    /\ queue \in Seq(Byte) /\ Len(queue) <= Room
    /\ report \in kinds /\ kinds \subseteq Moves /\ sent \in 0 .. 2
    /\ from \in [1 .. 3 -> Byte]
    /\ dropping \in BOOLEAN /\ losses \in 0 .. MaxLosses /\ spoiled \in Nat

\* As long as no byte was dropped, the pointer moves exactly when the last byte
\* of a report is read, by what the mouse reported, upwards being negative, and
\* stops at the screen's edges; and the window follows the pointer exactly when
\* the report has the left button.
MovesAsMouse ==
    [][losses = 0 =>
        IF queue # << >> /\ queue' = Tail(queue) /\ Head(queue).nth = 3
        THEN LET m == Head(queue).of
             IN  /\ pointer' = Moved(pointer, m.dx, - m.dy)
                 /\ win' = IF m.btn % 2 = 1
                           THEN <<pointer'[1] - 80, pointer'[2] - 80>> ELSE win
        ELSE UNCHANGED <<pointer, win>>]_vars

\* Bytes dropped one after the other spoil one movement at the most: of those
\* that begin with a report's first byte no more are put together wrongly than
\* there were such runs of losses, whatever the mouse reports.  If no later byte
\* of its reports could be a first one, no movement begins with any other byte,
\* so that this is true of all movements: mouse_decode is in step again before
\* a second one is complete.  Else it may stay out of step.
OneWrongPerLoss ==
    /\ spoiled <= losses
    /\ (\A m \in kinds : Clear(m)) => (mdec.phase >= 2 => from[1].nth = 1)
=============================================================================
