---------------------------- MODULE MouseProofs ----------------------------
(***************************************************************************)
(* Proofs about MouseDec.tla, for any mouse, screen and FIFO: as long as   *)
(* no byte is dropped, the pointer moves as the mouse does, and a run of   *)
(* dropped bytes spoils one movement at the most.                          *)
(*                                                                         *)
(* The decoder can be in step only if the bytes in the FIFO are those of   *)
(* one report after the other and the first of them is the one its phase   *)
(* waits for.  With the byte the mouse sends next put behind the FIFO's,   *)
(* this is one statement for an empty FIFO and for any other.  When bytes  *)
(* are dropped, what counts is how often, in that sequence, a byte is not  *)
(* the one that should come behind the byte before it.                     *)
(***************************************************************************)
EXTENDS MouseDec, SequenceTheorems, FiniteSetTheorems, TLAPS

USE MovesAssumption, ScreenAssumption, RoomAssumption

Next1 == [dat |-> Bytes(report)[sent + 1], of |-> report, nth |-> sent + 1, gap |-> dropping]
Coming == Append(queue, Next1)

Genuine(e) == e.dat = IF e.nth = 0 THEN 250 ELSE Bytes(e.of)[e.nth]
Follows(e, f) == ~ f.gap /\ f.nth = (e.nth % 3) + 1 /\ (f.nth # 1 => f.of = e.of)

InStep ==
    losses = 0 =>
        /\ \A i \in 1 .. Len(Coming) : Genuine(Coming[i])
        /\ \A i \in 1 .. Len(Coming) - 1 : Follows(Coming[i], Coming[i + 1])
        /\ mdec.phase = Coming[1].nth
        /\ mdec.phase >= 2 => /\ Coming[1].of = from[1].of
                              /\ mdec.buf[1] = Bytes(from[1].of)[1]
        /\ mdec.phase = 3 => mdec.buf[2] = Bytes(from[1].of)[2]

IInv == TypeOK /\ (dropping => losses > 0) /\ InStep

\* The bytes of a report are bytes, its first one is taken for a first one, and
\* the decoder gets the report back from the three.
LEMMA Decodes ==
    ASSUME NEW m \in Movement
    PROVE  /\ \A n \in 1 .. 3 : Bytes(m)[n] \in 0 .. 255
           /\ LooksFirst(Bytes(m)[1])
           /\ Bytes(m)[1] % 8 = m.btn
           /\ Extended(Bytes(m)[2], Bit(Bytes(m)[1], 16)) = m.dx
           /\ Extended(Bytes(m)[3], Bit(Bytes(m)[1], 32)) = m.dy
<1> PICK b \in 0 .. 7, x \in -256 .. 255, y \in -256 .. 255 :
        m.btn = b /\ m.dx = x /\ m.dy = y
  BY DEF Movement
<1> DEFINE first == 8 + b + 16 * Negative(x) + 32 * Negative(y)
<1>1. Bytes(m) = <<first, x % 256, y % 256>>
  BY DEF Bytes
<1>2. Negative(x) \in {0, 1} /\ Negative(y) \in {0, 1}
  BY DEF Negative
<1>3. first \in 0 .. 63 /\ first % 8 = b /\ (first \div 8) % 2 = 1
  BY <1>2
<1>4. ((first \div 16) % 2 = 1) = (x < 0)
  BY <1>2 DEF Negative
<1>5. ((first \div 32) % 2 = 1) = (y < 0)
  BY <1>2 DEF Negative
<1>6. \A z \in -256 .. 255 : z % 256 \in 0 .. 255 /\ z = IF z < 0 THEN (z % 256) - 256 ELSE z % 256
  OBVIOUS
<1>7. \A n \in 1 .. 3 : Bytes(m)[n] \in 0 .. 255
  BY <1>1, <1>3, <1>6
<1>8. LooksFirst(Bytes(m)[1]) /\ Bytes(m)[1] % 8 = m.btn
  BY <1>1, <1>3 DEF LooksFirst
<1>9. Extended(Bytes(m)[2], Bit(Bytes(m)[1], 16)) = m.dx
  BY <1>1, <1>4, <1>6 DEF Extended, Bit
<1>10. Extended(Bytes(m)[3], Bit(Bytes(m)[1], 32)) = m.dy
  BY <1>1, <1>5, <1>6 DEF Extended, Bit
<1>11. QED
  BY <1>7, <1>8, <1>9, <1>10

\* What any two bytes decode to.
LEMMA ExtendedRange ==
    ASSUME NEW dat \in 0 .. 255, NEW sign
    PROVE  Extended(dat, sign) \in -256 .. 255
BY DEF Extended

\* A byte put into the buffer.
LEMMA BufferedByte ==
    ASSUME NEW d \in Dec, NEW n \in 1 .. 2, NEW v \in 0 .. 255
    PROVE  /\ Buffered(d, n, v) \in Dec
           /\ Buffered(d, n, v).phase = n + 1
           /\ Buffered(d, n, v).buf[n] = v
           /\ \A k \in 1 .. 3 : k # n => Buffered(d, n, v).buf[k] = d.buf[k]
<1>1. d.buf \in [1 .. 3 -> 0 .. 255] /\ d.btn \in 0 .. 7 /\ d.x \in -256 .. 255
      /\ d.y \in -255 .. 256
  BY DEF Dec
<1>2. PICK buf \in [1 .. 3 -> 0 .. 255] : buf = [d.buf EXCEPT ![n] = v]
  BY <1>1
<1>3. buf[n] = v /\ \A k \in 1 .. 3 : k # n => buf[k] = d.buf[k]
  BY <1>1, <1>2
<1>4. Buffered(d, n, v) = [phase |-> n + 1, buf |-> buf, btn |-> d.btn, x |-> d.x, y |-> d.y]
  BY <1>2 DEF Buffered
<1>5. n + 1 \in 0 .. 3
  OBVIOUS
<1>6. QED
  BY <1>1, <1>3, <1>4, <1>5 DEF Dec

\* The pointer stays on the screen.
LEMMA MovedOnScreen ==
    ASSUME NEW at \in (0 .. scrnx - 1) \X (0 .. scrny - 1), NEW x \in Int, NEW y \in Int
    PROVE  Moved(at, x, y) \in (0 .. scrnx - 1) \X (0 .. scrny - 1)
BY DEF Moved, Within

-----------------------------------------------------------------------------
\* The mouse's next byte is one of the report it is sending.
LEMMA NextByte ==
    ASSUME report \in Moves, sent \in 0 .. 2, dropping \in BOOLEAN
    PROVE  Next1 \in Byte /\ Genuine(Next1) /\ Next1.nth = sent + 1 /\ Next1.of = report
<1>1. report \in Movement
  BY DEF Movement
<1>2. Bytes(report)[sent + 1] \in 0 .. 255
  BY <1>1, Decodes
<1>3. QED
  BY <1>2 DEF Next1, Byte, Genuine

\* The answer to the enable command is a byte like the others.
LEMMA AckIsByte == ASSUME report \in Moves PROVE Ack \in Byte
BY DEF Ack, Byte

\* Everything the decoder can read, with the byte behind it.
LEMMA InitInv == Init => IInv
<1> SUFFICES ASSUME Init PROVE IInv
  OBVIOUS
<1>1. report \in Moves /\ report \in kinds /\ kinds \subseteq Moves /\ sent \in 0 .. 2
      /\ dropping = FALSE /\ losses = 0
  BY DEF Init
<1>2. Ack \in Byte
  BY <1>1, AckIsByte
<1>3. TypeOK
  <2>1. pointer \in (0 .. scrnx - 1) \X (0 .. scrny - 1)
    BY StartAssumption DEF Init
  <2>2. mdec \in Dec
    BY DEF Init, Dec
  <2>3. from \in [1 .. 3 -> Byte]
    BY <1>2 DEF Init
  <2>4. queue \in Seq(Byte) /\ Len(queue) = 1
    BY <1>2 DEF Init
  <2>5. losses \in 0 .. MaxLosses /\ spoiled \in Nat /\ Len(queue) <= Room /\ win \in Int \X Int
    BY <2>4 DEF Init
  <2>6. QED
    BY <1>1, <2>1, <2>2, <2>3, <2>4, <2>5 DEF TypeOK
<1>4. InStep
  <2>1. Len(Coming) = 2 /\ Coming[1] = Ack /\ Coming[2] = Next1
    <3>1. queue = <<Ack>> /\ queue \in Seq(Byte) /\ Len(queue) = 1 /\ queue[1] = Ack
      BY <1>2 DEF Init
    <3>2. Next1 \in Byte
      BY <1>1, NextByte
    <3>3. QED
      BY <3>1, <3>2, AppendProperties DEF Coming
  <2>2. Genuine(Ack) /\ Genuine(Next1) /\ Follows(Ack, Next1) /\ Ack.nth = 0
    <3>1. Genuine(Next1) /\ Next1.nth = 1 /\ Next1.gap = FALSE
      <4>1. sent = 0 /\ dropping \in BOOLEAN /\ dropping = FALSE
        BY <1>1 DEF Init
      <4>2. Genuine(Next1) /\ Next1.nth = sent + 1
        BY <1>1, <4>1, NextByte
      <4>3. Next1.gap = FALSE
        BY <4>1 DEF Next1
      <4>4. QED
        BY <4>1, <4>2, <4>3
    <3>2. Genuine(Ack) /\ Ack.nth = 0
      BY DEF Genuine, Ack
    <3>3. QED
      BY <3>1, <3>2 DEF Follows
  <2>4. mdec.phase = 0
    BY DEF Init
  <2>5. \A i \in 1 .. Len(Coming) : Genuine(Coming[i])
    BY <2>1, <2>2
  <2>6. \A i \in 1 .. Len(Coming) - 1 : Follows(Coming[i], Coming[i + 1])
    BY <2>1, <2>2
  <2>7. QED
    BY <2>1, <2>2, <2>4, <2>5, <2>6 DEF InStep
<1>5. QED
  BY <1>1, <1>3, <1>4 DEF IInv

\* The mouse puts one more byte behind those to come, or one is lost.
LEMMA InterruptKeeps == IInv /\ Interrupt => IInv'
<1> SUFFICES ASSUME IInv, Interrupt PROVE IInv'
  OBVIOUS
<1>1. /\ report \in kinds /\ kinds \subseteq Moves /\ sent \in 0 .. 2 /\ losses \in 0 .. MaxLosses
      /\ dropping \in BOOLEAN /\ dropping' \in BOOLEAN /\ (dropping => losses > 0)
      /\ queue \in Seq(Byte) /\ Len(queue) <= Room
  BY DEF IInv, TypeOK, Interrupt
<1>2. /\ report' \in kinds' /\ kinds' \subseteq Moves /\ sent' \in 0 .. 2
      /\ sent' = (sent + 1) % 3 /\ (sent' # 0 => report' = report)
  BY <1>1 DEF Interrupt
<1>3. /\ Next1 \in Byte /\ Genuine(Next1) /\ Next1.nth = sent + 1 /\ Next1.of = report
  BY <1>1, NextByte
<1>4. Next1' \in Byte /\ Genuine(Next1') /\ Next1'.nth = sent' + 1 /\ Next1'.of = report'
  <2>1. /\ Bytes(report')[sent' + 1] \in 0 .. 255
        /\ Next1' = [dat |-> Bytes(report')[sent' + 1], of |-> report', nth |-> sent' + 1,
                     gap |-> dropping']
    BY <1>2, Decodes DEF Next1
  <2>2. QED
    BY <1>1, <1>2, <2>1 DEF Byte, Genuine
<1>5. TypeOK' /\ (dropping' => losses' > 0)
  <2>1. /\ queue' \in Seq(Byte) /\ Len(queue') <= Room /\ losses' \in 0 .. MaxLosses
        /\ (dropping' => losses' > 0)
    <3>1. CASE Len(queue) < Room
      <4>1. queue' = Append(queue, Next1) /\ losses' = losses /\ dropping' = FALSE
        BY <3>1 DEF Interrupt, Next1
      <4>2. QED
        BY <1>1, <1>3, <3>1, <4>1
    <3>2. CASE ~ (Len(queue) < Room)
      BY <1>1, <3>2 DEF Interrupt
    <3>3. QED
      BY <3>1, <3>2
  <2>2. QED
    BY <1>2, <2>1 DEF IInv, TypeOK, Interrupt
<1>6. InStep'
  <2>1. SUFFICES ASSUME losses' = 0
                 PROVE  /\ \A i \in 1 .. Len(Coming') : Genuine(Coming'[i])
                        /\ \A i \in 1 .. Len(Coming') - 1 : Follows(Coming'[i], Coming'[i + 1])
                        /\ mdec'.phase = Coming'[1].nth
                        /\ mdec'.phase >= 2 => /\ Coming'[1].of = from'[1].of
                                               /\ mdec'.buf[1] = Bytes(from'[1].of)[1]
                        /\ mdec'.phase = 3 => mdec'.buf[2] = Bytes(from'[1].of)[2]
    BY DEF InStep, Genuine, Follows, Bytes, Negative
  <2>2. Len(queue) < Room /\ losses = 0 /\ dropping' = FALSE
    BY <1>1, <2>1 DEF Interrupt
  <2>3. queue' = Coming /\ mdec' = mdec /\ from' = from
    BY <2>2 DEF Interrupt, Coming, Next1
  <2>4. Coming' = Append(Coming, Next1')
    BY <2>3 DEF Coming
  <2>5. Coming \in Seq(Byte) /\ Len(Coming) = Len(queue) + 1 /\ Coming[Len(Coming)] = Next1
    BY <1>1, <1>3 DEF Coming
  <2>6. /\ Len(Coming') = Len(Coming) + 1 /\ Coming'[Len(Coming) + 1] = Next1'
        /\ \A i \in 1 .. Len(Coming) : Coming'[i] = Coming[i]
    BY <1>4, <2>4, <2>5
  <2>7. Len(queue) \in Nat /\ Len(Coming) \in Nat \ {0}
    BY <1>1, <2>5
  <2>8. Follows(Next1, Next1')
    BY <1>1, <1>2, <1>3, <1>4, <2>2 DEF Follows, Next1
  <2>9. \A i \in 1 .. Len(Coming') : Genuine(Coming'[i])
    BY <1>4, <2>2, <2>6, <2>7 DEF IInv, InStep
  <2>10. \A i \in 1 .. Len(Coming') - 1 : Follows(Coming'[i], Coming'[i + 1])
    <3>1. TAKE i \in 1 .. Len(Coming') - 1
    <3>2. CASE i = Len(Coming)
      BY <2>5, <2>6, <2>7, <2>8, <3>2
    <3>3. CASE i # Len(Coming)
      <4>1. i \in 1 .. Len(Coming) - 1 /\ i + 1 \in 1 .. Len(Coming) /\ i \in 1 .. Len(Coming)
        BY <2>6, <2>7, <3>3
      <4>2. QED
        BY <2>2, <2>6, <4>1 DEF IInv, InStep
    <3>4. QED
      BY <3>2, <3>3
  <2>11. Coming'[1] = Coming[1]
    BY <2>6, <2>7
  <2>12. QED
    BY <2>2, <2>3, <2>9, <2>10, <2>11 DEF IInv, InStep
<1>7. QED
  BY <1>5, <1>6 DEF IInv

\* A byte is read: what is to come is one shorter.
LEMMA ReadShifts ==
    ASSUME IInv, queue # << >>, queue' = Tail(queue), report' = report, sent' = sent,
           dropping' = dropping, losses' = losses
    PROVE  /\ Head(queue) \in Byte /\ Tail(queue) \in Seq(Byte) /\ Len(Tail(queue)) <= Room
           /\ Next1' = Next1
           /\ losses = 0 => /\ Genuine(Head(queue)) /\ Head(queue).nth = mdec.phase
                            /\ Coming[1] = Head(queue)
                            /\ Coming'[1] = Coming[2]
                            /\ Follows(Head(queue), Coming[2])
                            /\ \A i \in 1 .. Len(Coming') : Genuine(Coming'[i])
                            /\ \A i \in 1 .. Len(Coming') - 1 :
                                  Follows(Coming'[i], Coming'[i + 1])
<1>1. /\ queue \in Seq(Byte) /\ Len(queue) <= Room
      /\ report \in Moves /\ sent \in 0 .. 2 /\ dropping \in BOOLEAN
  BY DEF IInv, TypeOK
<1>2. Next1 \in Byte /\ Next1' = Next1
  BY <1>1, NextByte DEF Next1
<1>3. /\ Len(queue) \in Nat \ {0} /\ Head(queue) = queue[1] /\ Head(queue) \in Byte
      /\ Tail(queue) \in Seq(Byte) /\ Len(Tail(queue)) = Len(queue) - 1
      /\ \A i \in 1 .. Len(queue) - 1 : Tail(queue)[i] = queue[i + 1]
  BY <1>1, HeadTailProperties
<1>4. /\ Len(Coming) = Len(queue) + 1 /\ Coming[Len(queue) + 1] = Next1
      /\ \A i \in 1 .. Len(queue) : Coming[i] = queue[i]
  BY <1>1, <1>2 DEF Coming
<1>5. Coming' = Append(Tail(queue), Next1)
  BY <1>2 DEF Coming
<1>6. /\ Len(Coming') = Len(queue)
      /\ \A i \in 1 .. Len(queue) : Coming'[i] = Coming[i + 1]
  <2>1. Len(Coming') = Len(queue) /\ Coming'[Len(queue)] = Next1
    BY <1>2, <1>3, <1>5
  <2>2. ASSUME NEW i \in 1 .. Len(queue)
        PROVE  Coming'[i] = Coming[i + 1]
    <3>1. CASE i = Len(queue)
      BY <1>4, <2>1, <3>1
    <3>2. CASE i # Len(queue)
      <4>1. i \in 1 .. Len(queue) - 1 /\ i + 1 \in 1 .. Len(queue)
        <5>1. PICK n \in Nat : n = Len(queue)
          BY <1>3
        <5>2. QED
          BY <3>2, <5>1
      <4>2. Coming'[i] = Tail(queue)[i]
        BY <1>2, <1>3, <1>5, <4>1
      <4>3. QED
        BY <1>3, <1>4, <4>1, <4>2
    <3>3. QED
      BY <3>1, <3>2
  <2>3. QED
    BY <2>1, <2>2
<1>7. ASSUME losses = 0
      PROVE  /\ Genuine(Head(queue)) /\ Head(queue).nth = mdec.phase
             /\ Coming[1] = Head(queue) /\ Coming'[1] = Coming[2]
             /\ Follows(Head(queue), Coming[2])
             /\ \A i \in 1 .. Len(Coming') : Genuine(Coming'[i])
             /\ \A i \in 1 .. Len(Coming') - 1 : Follows(Coming'[i], Coming'[i + 1])
  <2>1. /\ \A i \in 1 .. Len(Coming) : Genuine(Coming[i])
        /\ \A i \in 1 .. Len(Coming) - 1 : Follows(Coming[i], Coming[i + 1])
        /\ mdec.phase = Coming[1].nth
    BY <1>7 DEF IInv, InStep
  <2>2. 1 \in 1 .. Len(queue) /\ Coming[1] = Head(queue) /\ Coming'[1] = Coming[2]
    BY <1>3, <1>4, <1>6
  <2>3. Follows(Head(queue), Coming[2]) /\ Genuine(Head(queue))
    BY <1>3, <1>4, <2>1, <2>2
  <2>4. \A i \in 1 .. Len(Coming') : Genuine(Coming'[i])
    BY <1>3, <1>4, <1>6, <2>1
  <2>5. \A i \in 1 .. Len(Coming') - 1 : Follows(Coming'[i], Coming'[i + 1])
    <3>1. TAKE i \in 1 .. Len(Coming') - 1
    <3>2. i + 1 \in 1 .. Len(Coming) - 1 /\ i \in 1 .. Len(queue) /\ i + 1 \in 1 .. Len(queue)
      BY <1>3, <1>4, <1>6
    <3>3. QED
      BY <1>6, <2>1, <3>2
  <2>6. QED
    BY <2>1, <2>2, <2>3, <2>4, <2>5
<1>8. QED
  BY <1>2, <1>3, <1>1, <1>7

\* A byte is read and its bytes are a report's as they are expected: each of
\* the four steps goes on to the phase of the byte behind it.
LEMMA ReadAckKeeps == IInv /\ ReadAck => IInv'
<1> SUFFICES ASSUME IInv, ReadAck PROVE IInv'
  OBVIOUS
<1>1. queue # << >> /\ queue' = Tail(queue) /\ mdec.phase = 0
      /\ UNCHANGED <<report, sent, kinds, dropping, losses, from, pointer, win, spoiled>>
  BY DEF ReadAck, Read, Stays
<1>2. /\ Head(queue) \in Byte /\ Tail(queue) \in Seq(Byte) /\ Len(Tail(queue)) <= Room
      /\ losses = 0 => /\ Genuine(Head(queue)) /\ Head(queue).nth = mdec.phase
                       /\ Coming'[1] = Coming[2] /\ Follows(Head(queue), Coming[2])
                       /\ \A i \in 1 .. Len(Coming') : Genuine(Coming'[i])
                       /\ \A i \in 1 .. Len(Coming') - 1 : Follows(Coming'[i], Coming'[i + 1])
  BY <1>1, ReadShifts
<1>3. TypeOK'
  <2>1. mdec' \in Dec
    <3>1. mdec \in Dec
      BY DEF IInv, TypeOK
    <3>2. [mdec EXCEPT !.phase = 1] \in Dec
      BY <3>1 DEF Dec
    <3>3. QED
      BY <3>1, <3>2 DEF ReadAck
  <2>2. QED
    BY <1>1, <1>2, <2>1 DEF IInv, TypeOK
<1>4. InStep'
  <2>1. SUFFICES ASSUME losses = 0
                 PROVE  /\ \A i \in 1 .. Len(Coming') : Genuine(Coming'[i])
                        /\ \A i \in 1 .. Len(Coming') - 1 : Follows(Coming'[i], Coming'[i + 1])
                        /\ mdec'.phase = Coming'[1].nth
                        /\ mdec'.phase >= 2 => /\ Coming'[1].of = from'[1].of
                                               /\ mdec'.buf[1] = Bytes(from'[1].of)[1]
                        /\ mdec'.phase = 3 => mdec'.buf[2] = Bytes(from'[1].of)[2]
    BY <1>1 DEF InStep, Genuine, Follows, Bytes, Negative
  <2>2. Head(queue).dat = 250 /\ Coming'[1].nth = 1
    BY <1>1, <1>2, <2>1 DEF Genuine, Follows
  <2>3. mdec' = [mdec EXCEPT !.phase = 1]
    BY <2>2 DEF ReadAck
  <2>4. mdec'.phase = 1
    BY <2>3 DEF IInv, TypeOK, Dec
  <2>5. QED
    BY <1>2, <2>1, <2>2, <2>4
<1>5. QED
  BY <1>1, <1>3, <1>4 DEF IInv

\* Phase 1: the byte is kept if it looks like a first one.
LEMMA ReadFirstKeeps == IInv /\ ReadFirst => IInv'
<1> SUFFICES ASSUME IInv, ReadFirst PROVE IInv'
  OBVIOUS
<1>1. queue # << >> /\ queue' = Tail(queue) /\ mdec.phase = 1
      /\ UNCHANGED <<report, sent, kinds, dropping, losses, pointer, win, spoiled>>
  BY DEF ReadFirst, Read, Stays
<1>2. /\ Head(queue) \in Byte /\ Tail(queue) \in Seq(Byte) /\ Len(Tail(queue)) <= Room
      /\ losses = 0 => /\ Genuine(Head(queue)) /\ Head(queue).nth = mdec.phase
                       /\ Coming'[1] = Coming[2] /\ Follows(Head(queue), Coming[2])
                       /\ \A i \in 1 .. Len(Coming') : Genuine(Coming'[i])
                       /\ \A i \in 1 .. Len(Coming') - 1 : Follows(Coming'[i], Coming'[i + 1])
  BY <1>1, ReadShifts
<1>3. TypeOK'
  <2>1. Head(queue).dat \in 0 .. 255
    BY <1>2 DEF Byte
  <2>2. mdec' \in Dec /\ from' \in [1 .. 3 -> Byte]
    <3>1. CASE LooksFirst(Head(queue).dat)
      <4>1. mdec \in Dec /\ from \in [1 .. 3 -> Byte] /\ 1 \in 1 .. 2
        BY DEF IInv, TypeOK
      <4>2. mdec' = Buffered(mdec, 1, Head(queue).dat) /\ from' = [from EXCEPT ![1] = Head(queue)]
        BY <3>1 DEF ReadFirst
      <4>3. Buffered(mdec, 1, Head(queue).dat) \in Dec
        BY <2>1, <4>1, BufferedByte
      <4>4. QED
        BY <1>2, <4>1, <4>2, <4>3
    <3>2. CASE ~ LooksFirst(Head(queue).dat)
      BY <3>2 DEF IInv, TypeOK, ReadFirst
    <3>3. QED
      BY <3>1, <3>2
  <2>3. QED
    BY <1>1, <1>2, <2>2 DEF IInv, TypeOK
<1>4. InStep'
  <2>1. SUFFICES ASSUME losses = 0
                 PROVE  /\ \A i \in 1 .. Len(Coming') : Genuine(Coming'[i])
                        /\ \A i \in 1 .. Len(Coming') - 1 : Follows(Coming'[i], Coming'[i + 1])
                        /\ mdec'.phase = Coming'[1].nth
                        /\ mdec'.phase >= 2 => /\ Coming'[1].of = from'[1].of
                                               /\ mdec'.buf[1] = Bytes(from'[1].of)[1]
                        /\ mdec'.phase = 3 => mdec'.buf[2] = Bytes(from'[1].of)[2]
    BY <1>1 DEF InStep, Genuine, Follows, Bytes, Negative
  <2>2. /\ Head(queue).nth = 1 /\ Head(queue).dat = Bytes(Head(queue).of)[1]
        /\ Coming'[1].nth = 2 /\ Coming'[1].of = Head(queue).of
    BY <1>1, <1>2, <2>1 DEF Genuine, Follows
  <2>3. Head(queue).of \in Movement
    BY <1>2 DEF Byte, Movement
  <2>4. LooksFirst(Head(queue).dat)
    BY <2>2, <2>3, Decodes
  <2>5. /\ mdec' = Buffered(mdec, 1, Head(queue).dat)
        /\ from' = [from EXCEPT ![1] = Head(queue)]
    BY <2>4 DEF ReadFirst
  <2>6. Head(queue).dat \in 0 .. 255
    BY <1>2 DEF Byte
  <2>7. mdec'.phase = 2 /\ mdec'.buf[1] = Head(queue).dat /\ from'[1] = Head(queue)
    <3>1. mdec \in Dec /\ from \in [1 .. 3 -> Byte] /\ 1 \in 1 .. 2
      BY DEF IInv, TypeOK
    <3>2. \A n \in 1 .. 2 : /\ Buffered(mdec, n, Head(queue).dat).phase = n + 1
                            /\ Buffered(mdec, n, Head(queue).dat).buf[n] = Head(queue).dat
                            /\ \A k \in 1 .. 3 : k # n =>
                                  Buffered(mdec, n, Head(queue).dat).buf[k] = mdec.buf[k]
      <4>1. PICK d \in Dec, v \in 0 .. 255 : d = mdec /\ v = Head(queue).dat
        BY <2>6, <3>1
      <4>2. \A n \in 1 .. 2 : /\ Buffered(d, n, v).phase = n + 1 /\ Buffered(d, n, v).buf[n] = v
                              /\ \A k \in 1 .. 3 : k # n => Buffered(d, n, v).buf[k] = d.buf[k]
        BY ONLY BufferedByte, d \in Dec, v \in 0 .. 255, Zenon
      <4>3. QED
        BY <4>1, <4>2
    <3>3. /\ Buffered(mdec, 1, Head(queue).dat).phase = 2
          /\ Buffered(mdec, 1, Head(queue).dat).buf[1] = Head(queue).dat
      BY <3>2
    <3>4. QED
      BY <2>5, <3>1, <3>3
  <2>8. QED
    BY <1>2, <2>1, <2>2, <2>7
<1>5. QED
  BY <1>1, <1>3, <1>4 DEF IInv

\* Phase 2: the byte is kept.
LEMMA ReadSecondKeeps == IInv /\ ReadSecond => IInv'
<1> SUFFICES ASSUME IInv, ReadSecond PROVE IInv'
  OBVIOUS
<1>1. queue # << >> /\ queue' = Tail(queue) /\ mdec.phase = 2
      /\ UNCHANGED <<report, sent, kinds, dropping, losses, pointer, win, spoiled>>
  BY DEF ReadSecond, Read, Stays
<1>2. /\ Head(queue) \in Byte /\ Tail(queue) \in Seq(Byte) /\ Len(Tail(queue)) <= Room
      /\ losses = 0 => /\ Genuine(Head(queue)) /\ Head(queue).nth = mdec.phase
                       /\ Coming[1] = Head(queue)
                       /\ Coming'[1] = Coming[2] /\ Follows(Head(queue), Coming[2])
                       /\ \A i \in 1 .. Len(Coming') : Genuine(Coming'[i])
                       /\ \A i \in 1 .. Len(Coming') - 1 : Follows(Coming'[i], Coming'[i + 1])
  BY <1>1, ReadShifts
<1>3. mdec' = Buffered(mdec, 2, Head(queue).dat)
      /\ from' = [from EXCEPT ![2] = Head(queue)]
  BY DEF ReadSecond
<1>4. TypeOK'
  <2>1. Head(queue).dat \in 0 .. 255
    BY <1>2 DEF Byte
  <2>2. mdec' \in Dec /\ from' \in [1 .. 3 -> Byte]
    <3>1. mdec \in Dec /\ from \in [1 .. 3 -> Byte] /\ 2 \in 1 .. 2
      BY DEF IInv, TypeOK
    <3>2. Buffered(mdec, 2, Head(queue).dat) \in Dec
      BY <2>1, <3>1, BufferedByte
    <3>3. QED
      BY <1>2, <1>3, <3>1, <3>2
  <2>3. QED
    BY <1>1, <1>2, <2>2 DEF IInv, TypeOK
<1>5. InStep'
  <2>1. SUFFICES ASSUME losses = 0
                 PROVE  /\ \A i \in 1 .. Len(Coming') : Genuine(Coming'[i])
                        /\ \A i \in 1 .. Len(Coming') - 1 : Follows(Coming'[i], Coming'[i + 1])
                        /\ mdec'.phase = Coming'[1].nth
                        /\ mdec'.phase >= 2 => /\ Coming'[1].of = from'[1].of
                                               /\ mdec'.buf[1] = Bytes(from'[1].of)[1]
                        /\ mdec'.phase = 3 => mdec'.buf[2] = Bytes(from'[1].of)[2]
    BY <1>1 DEF InStep, Genuine, Follows, Bytes, Negative
  <2>2. /\ Head(queue).nth = 2 /\ Head(queue).dat = Bytes(Head(queue).of)[2]
        /\ Coming'[1].nth = 3 /\ Coming'[1].of = Head(queue).of
    BY <1>1, <1>2, <2>1 DEF Genuine, Follows
  <2>3. Head(queue).of = from[1].of /\ mdec.buf[1] = Bytes(from[1].of)[1]
    BY <1>1, <1>2, <2>1 DEF IInv, InStep
  <2>4. /\ mdec'.phase = 3 /\ mdec'.buf[1] = mdec.buf[1] /\ mdec'.buf[2] = Head(queue).dat
        /\ from'[1] = from[1]
    <3>1. mdec \in Dec /\ from \in [1 .. 3 -> Byte] /\ 2 \in 1 .. 2
          /\ Head(queue).dat \in 0 .. 255
      <4>1. Head(queue).dat \in 0 .. 255
        BY <1>2 DEF Byte
      <4>2. QED
        BY <4>1 DEF IInv, TypeOK
    <3>2. \A n \in 1 .. 2 : /\ Buffered(mdec, n, Head(queue).dat).phase = n + 1
                            /\ Buffered(mdec, n, Head(queue).dat).buf[n] = Head(queue).dat
                            /\ \A k \in 1 .. 3 : k # n =>
                                  Buffered(mdec, n, Head(queue).dat).buf[k] = mdec.buf[k]
      <4>1. PICK d \in Dec, v \in 0 .. 255 : d = mdec /\ v = Head(queue).dat
        BY <3>1
      <4>2. \A n \in 1 .. 2 : /\ Buffered(d, n, v).phase = n + 1 /\ Buffered(d, n, v).buf[n] = v
                              /\ \A k \in 1 .. 3 : k # n => Buffered(d, n, v).buf[k] = d.buf[k]
        BY ONLY BufferedByte, d \in Dec, v \in 0 .. 255, Zenon
      <4>3. QED
        BY <4>1, <4>2
    <3>3. /\ Buffered(mdec, 2, Head(queue).dat).phase = 3
          /\ Buffered(mdec, 2, Head(queue).dat).buf[2] = Head(queue).dat
          /\ Buffered(mdec, 2, Head(queue).dat).buf[1] = mdec.buf[1]
      BY <3>2
    <3>4. QED
      BY <1>3, <3>1, <3>3
  <2>5. QED
    BY <1>2, <2>1, <2>2, <2>3, <2>4
<1>6. QED
  BY <1>1, <1>4, <1>5 DEF IInv

\* Phase 3: the movement is decoded and the pointer moved.
LEMMA ReadThirdKeeps == IInv /\ ReadThird => IInv'
<1> SUFFICES ASSUME IInv, ReadThird PROVE IInv'
  OBVIOUS
<1>1. queue # << >> /\ queue' = Tail(queue) /\ mdec.phase = 3
      /\ UNCHANGED <<report, sent, kinds, dropping, losses>>
  BY DEF ReadThird, Read
<1>2. /\ Head(queue) \in Byte /\ Tail(queue) \in Seq(Byte) /\ Len(Tail(queue)) <= Room
      /\ losses = 0 => /\ Genuine(Head(queue)) /\ Head(queue).nth = mdec.phase
                       /\ Coming'[1] = Coming[2] /\ Follows(Head(queue), Coming[2])
                       /\ \A i \in 1 .. Len(Coming') : Genuine(Coming'[i])
                       /\ \A i \in 1 .. Len(Coming') - 1 : Follows(Coming'[i], Coming'[i + 1])
  BY <1>1, ReadShifts
<1>3. TypeOK'
  <2>1. /\ Head(queue).dat \in 0 .. 255 /\ mdec.buf \in [1 .. 3 -> 0 .. 255]
        /\ mdec.buf[1] \in 0 .. 255 /\ mdec.buf[2] \in 0 .. 255
    BY <1>2 DEF Byte, IInv, TypeOK, Dec
  <2>2. Extended(mdec.buf[2], Bit(mdec.buf[1], 16)) \in -256 .. 255
        /\ Extended(Head(queue).dat, Bit(mdec.buf[1], 32)) \in -256 .. 255
    BY <2>1, ExtendedRange
  <2>3. /\ mdec'.phase = 1 /\ mdec'.buf \in [1 .. 3 -> 0 .. 255]
        /\ mdec'.btn \in 0 .. 7 /\ mdec'.x \in -256 .. 255 /\ mdec'.y \in -255 .. 256
        /\ mdec' = [phase |-> mdec'.phase, buf |-> mdec'.buf, btn |-> mdec'.btn,
                    x |-> mdec'.x, y |-> mdec'.y]
    <3>1. mdec' = [phase |-> 1, buf |-> [mdec.buf EXCEPT ![3] = Head(queue).dat],
                   btn |-> mdec.buf[1] % 8,
                   x |-> Extended(mdec.buf[2], Bit(mdec.buf[1], 16)),
                   y |-> - Extended(Head(queue).dat, Bit(mdec.buf[1], 32))]
      BY DEF ReadThird
    <3>2. [mdec.buf EXCEPT ![3] = Head(queue).dat] \in [1 .. 3 -> 0 .. 255]
      BY <2>1
    <3>3. mdec.buf[1] % 8 \in 0 .. 7
      BY <2>1
    <3>4. \A n \in -256 .. 255 : - n \in -255 .. 256
      OBVIOUS
    <3>5. QED
      BY <2>2, <3>1, <3>2, <3>3, <3>4
  <2>4. mdec' \in Dec
    BY <2>3 DEF Dec
  <2>5. pointer' \in (0 .. scrnx - 1) \X (0 .. scrny - 1)
    <3>1. mdec'.x \in Int /\ mdec'.y \in Int
      BY <2>3
    <3>2. pointer' = Moved(pointer, mdec'.x, mdec'.y)
      BY DEF ReadThird
    <3>3. QED
      BY <3>1, <3>2, MovedOnScreen DEF IInv, TypeOK
  <2>6. win' \in Int \X Int
    <3>1. PICK x \in Int, y \in Int : pointer' = <<x, y>>
      BY <2>5
    <3>2. <<pointer'[1] - 80, pointer'[2] - 80>> \in Int \X Int
      BY <3>1
    <3>3. win' = <<pointer'[1] - 80, pointer'[2] - 80>> \/ win' = win
      BY DEF ReadThird
    <3>4. QED
      BY <3>2, <3>3 DEF IInv, TypeOK
  <2>7. from' \in [1 .. 3 -> Byte]
    BY <1>2 DEF IInv, TypeOK, ReadThird
  <2>8. spoiled' \in Nat
    BY DEF IInv, TypeOK, ReadThird
  <2>9. QED
    BY <1>1, <1>2, <2>4, <2>5, <2>6, <2>7, <2>8 DEF IInv, TypeOK
<1>4. InStep'
  <2>1. SUFFICES ASSUME losses = 0
                 PROVE  /\ \A i \in 1 .. Len(Coming') : Genuine(Coming'[i])
                        /\ \A i \in 1 .. Len(Coming') - 1 : Follows(Coming'[i], Coming'[i + 1])
                        /\ mdec'.phase = Coming'[1].nth
                        /\ mdec'.phase >= 2 => /\ Coming'[1].of = from'[1].of
                                               /\ mdec'.buf[1] = Bytes(from'[1].of)[1]
                        /\ mdec'.phase = 3 => mdec'.buf[2] = Bytes(from'[1].of)[2]
    BY <1>1 DEF InStep, Genuine, Follows, Bytes, Negative
  <2>2. Coming'[1].nth = 1
    BY <1>1, <1>2, <2>1 DEF Follows
  <2>3. mdec'.phase = 1
    BY DEF ReadThird
  <2>4. ~ mdec'.phase >= 2 /\ mdec'.phase # 3
    BY <2>3
  <2>5. QED
    BY <1>2, <2>1, <2>2, <2>3, <2>4
<1>5. QED
  BY <1>1, <1>3, <1>4 DEF IInv

\* The FIFO's bytes stay in step with the decoder.
LEMMA NextInv == IInv /\ [Next]_vars => IInv'
<1>1. ASSUME IInv, UNCHANGED vars PROVE IInv'
  <2>1. TypeOK' /\ (dropping' => losses' > 0)
    BY <1>1 DEF vars, IInv, TypeOK
  <2>2. Coming' = Coming
    BY <1>1 DEF vars, Coming, Next1
  <2>3. losses' = losses /\ mdec' = mdec /\ from' = from /\ InStep
    BY <1>1 DEF vars, IInv
  <2>4. InStep'
    <3>1. SUFFICES ASSUME losses' = 0
                   PROVE  /\ \A i \in 1 .. Len(Coming') : Genuine(Coming'[i])
                          /\ \A i \in 1 .. Len(Coming') - 1 : Follows(Coming'[i], Coming'[i + 1])
                          /\ mdec'.phase = Coming'[1].nth
                          /\ mdec'.phase >= 2 => /\ Coming'[1].of = from'[1].of
                                                 /\ mdec'.buf[1] = Bytes(from'[1].of)[1]
                          /\ mdec'.phase = 3 => mdec'.buf[2] = Bytes(from'[1].of)[2]
      BY DEF InStep, Genuine, Follows, Bytes, Negative
    <3>2. QED
      BY <2>2, <2>3, <3>1 DEF InStep
  <2>5. QED
    BY <2>1, <2>4 DEF IInv
<1>2. QED
  BY <1>1, InterruptKeeps, ReadAckKeeps, ReadFirstKeeps, ReadSecondKeeps, ReadThirdKeeps
  DEF Next

-----------------------------------------------------------------------------
\* The decoder's fields keep their ranges and the pointer stays on the screen,
\* whatever bytes are dropped (mouse_decode and the clamping in HariMain).
THEOREM TypeCorrect == Spec => []TypeOK
<1>1. Spec => []IInv
  BY InitInv, NextInv, PTL DEF Spec
<1>2. IInv => TypeOK
  BY DEF IInv
<1>3. QED
  BY <1>1, <1>2, PTL

\* The action of MovesAsMouse.
MovesNow ==
    losses = 0 =>
        IF queue # << >> /\ queue' = Tail(queue) /\ Head(queue).nth = 3
        THEN LET m == Head(queue).of
             IN  /\ pointer' = Moved(pointer, m.dx, - m.dy)
                 /\ win' = IF m.btn % 2 = 1
                           THEN <<pointer'[1] - 80, pointer'[2] - 80>> ELSE win
        ELSE UNCHANGED <<pointer, win>>

\* A step moves the pointer only as the mouse has moved.
LEMMA StepMoves == IInv /\ [Next]_vars => [MovesNow]_vars
<1> SUFFICES ASSUME IInv, Next, losses = 0
             PROVE  IF queue # << >> /\ queue' = Tail(queue) /\ Head(queue).nth = 3
                    THEN LET m == Head(queue).of
                         IN  /\ pointer' = Moved(pointer, m.dx, - m.dy)
                             /\ win' = IF m.btn % 2 = 1
                                       THEN <<pointer'[1] - 80, pointer'[2] - 80>> ELSE win
                    ELSE UNCHANGED <<pointer, win>>
  BY DEF MovesNow
<1>1. CASE Interrupt
  <2>1. UNCHANGED <<pointer, win>>
    BY <1>1 DEF Interrupt
  <2>2. ASSUME queue # << >> PROVE queue' # Tail(queue)
    <3>1. queue \in Seq(Byte) /\ Len(queue) \in Nat \ {0} /\ Tail(queue) \in Seq(Byte)
          /\ Len(Tail(queue)) = Len(queue) - 1
      BY <2>2, HeadTailProperties DEF IInv, TypeOK
    <3>2. Next1 \in Byte
      BY NextByte DEF IInv, TypeOK
    <3>3. queue' = queue \/ queue' = Append(queue, Next1)
      BY <1>1 DEF Interrupt, Next1
    <3>4. Len(queue') >= Len(queue)
      BY <3>1, <3>2, <3>3
    <3>5. QED
      BY <3>1, <3>4
  <2>3. QED
    BY <2>1, <2>2
<1>2. ASSUME queue # << >>, queue' = Tail(queue), UNCHANGED <<report, sent, dropping, losses>>
      PROVE  Head(queue).nth = mdec.phase /\ Genuine(Head(queue)) /\ Head(queue) \in Byte
             /\ Coming[1] = Head(queue)
  BY <1>2, ReadShifts
<1>3. CASE ReadAck \/ ReadFirst \/ ReadSecond
  <2>1. UNCHANGED <<pointer, win>> /\ mdec.phase # 3
    BY <1>3 DEF ReadAck, ReadFirst, ReadSecond, Read, Stays
  <2>2. queue # << >> /\ queue' = Tail(queue) /\ UNCHANGED <<report, sent, dropping, losses>>
    BY <1>3 DEF ReadAck, ReadFirst, ReadSecond, Read
  <2>3. QED
    BY <1>2, <2>1, <2>2
<1>4. CASE ReadThird
  <2>1. queue # << >> /\ queue' = Tail(queue) /\ UNCHANGED <<report, sent, dropping, losses>>
        /\ mdec.phase = 3
    BY <1>4 DEF ReadThird, Read
  <2>2. /\ Head(queue).nth = 3 /\ Head(queue).dat = Bytes(Head(queue).of)[3]
        /\ Head(queue).of \in Movement /\ Coming[1] = Head(queue)
    BY <1>2, <2>1 DEF Genuine, Byte, Movement
  <2>3. /\ mdec.buf[1] = Bytes(Head(queue).of)[1] /\ mdec.buf[2] = Bytes(Head(queue).of)[2]
    BY <2>1, <2>2 DEF IInv, InStep
  <2>4. PICK m \in Movement : m = Head(queue).of
    BY <2>2
  <2>5. mdec'.btn = m.btn /\ mdec'.x = m.dx /\ mdec'.y = - m.dy
    BY <1>4, <2>2, <2>3, <2>4, Decodes DEF ReadThird
  <2>6. Bit(m.btn, 1) = (m.btn % 2 = 1)
    BY DEF Bit, Movement
  <2>7. /\ pointer' = Moved(pointer, m.dx, - m.dy)
        /\ win' = IF m.btn % 2 = 1
                  THEN <<pointer'[1] - 80, pointer'[2] - 80>> ELSE win
    BY <1>4, <2>5, <2>6 DEF ReadThird
  <2>8. QED
    BY <2>1, <2>2, <2>4, <2>7
<1>5. QED
  BY <1>1, <1>3, <1>4 DEF Next

\* As long as no byte is dropped, the pointer and the dragged window move
\* exactly as the mouse does: the three bytes of every report come to the
\* decoder in the phase for them, and it gets the report back from them.
THEOREM MovesCorrect == Spec => MovesAsMouse
<1>1. Spec => []IInv
  BY InitInv, NextInv, PTL DEF Spec
<1>2. Spec => [][MovesNow]_vars
  BY <1>1, StepMoves, PTL DEF Spec
<1>3. QED
  BY <1>2 DEF MovesAsMouse, MovesNow
-----------------------------------------------------------------------------
(* What a dropped byte can spoil.                                           *)

\* How often a byte is not the one that should come behind the byte before it.
Breaks(s) == {i \in 1 .. Len(s) - 1 : ~ Follows(s[i], s[i + 1])}
Break(e, f) == IF Follows(e, f) THEN 0 ELSE 1

\* The breaks among the bytes the decoder has kept and the one it waits for.
Begun == IF mdec.phase = 2 THEN Break(from[1], Coming[1])
         ELSE IF mdec.phase = 3 THEN Break(from[1], from[2]) + Break(from[2], Coming[1])
         ELSE 0

\* Every movement put together wrongly, and every break still to be read, is
\* paid for by a run of dropped bytes: a break is nowhere but where bytes are
\* missing, or will be, since the mouse's next byte has a gap before it as soon as
\* the one before it is dropped.
AllClear == \A m \in kinds : Clear(m)
Account ==
    /\ \A i \in 1 .. Len(Coming) : Genuine(Coming[i]) /\ Coming[i].of \in kinds
    /\ AllClear => (mdec.phase >= 2 => from[1].nth = 1)
    /\ spoiled + Begun + Cardinality(Breaks(Coming)) <= losses

AInv == IInv /\ Account

\* The breaks of a sequence can be counted.
LEMMA BreaksFinite ==
    ASSUME NEW s \in Seq(Byte)
    PROVE  IsFiniteSet(Breaks(s)) /\ Cardinality(Breaks(s)) \in Nat
<1>1. 1 \in Int /\ Len(s) - 1 \in Int
  OBVIOUS
<1>2. IsFiniteSet(1 .. Len(s) - 1)
  BY ONLY <1>1, FS_Interval
<1>3. Breaks(s) \in SUBSET (1 .. Len(s) - 1)
  BY DEF Breaks
<1>4. IsFiniteSet(Breaks(s))
  BY <1>2, <1>3, FS_Subset
<1>5. QED
  BY <1>4, FS_CardinalityType

\* One byte more may be one break more.
LEMMA BreaksAppend ==
    ASSUME NEW s \in Seq(Byte), NEW e \in Byte
    PROVE  Cardinality(Breaks(Append(s, e)))
               = Cardinality(Breaks(s)) + IF s = << >> THEN 0 ELSE Break(s[Len(s)], e)
<1> DEFINE t == Append(s, e)
<1>1. /\ Len(s) \in Nat /\ Len(t) = Len(s) + 1 /\ t[Len(s) + 1] = e
      /\ \A i \in 1 .. Len(s) : t[i] = s[i]
  OBVIOUS
<1>2. s = << >> <=> Len(s) = 0
  OBVIOUS
<1> HIDE DEF t
<1>3. IsFiniteSet(Breaks(s)) /\ Cardinality(Breaks(s)) \in Nat
  BY BreaksFinite
<1>4. CASE Len(s) > 0 /\ ~ Follows(s[Len(s)], e)
  <2>1. Breaks(t) = Breaks(s) \cup {Len(s)} /\ Len(s) \notin Breaks(s)
    BY <1>1, <1>4 DEF Breaks
  <2>2. Cardinality(Breaks(s) \cup {Len(s)}) = Cardinality(Breaks(s)) + 1
    BY <1>3, <2>1, FS_AddElement
  <2>3. QED
    BY <1>2, <1>4, <2>1, <2>2 DEF Break, t
<1>5. CASE ~ (Len(s) > 0 /\ ~ Follows(s[Len(s)], e))
  <2>1. Breaks(t) = Breaks(s)
    BY <1>1, <1>5 DEF Breaks
  <2>2. QED
    BY <1>1, <1>2, <1>3, <1>5, <2>1 DEF Break, t
<1>6. QED
  BY <1>4, <1>5

\* A byte less takes the break behind it away.
LEMMA BreaksTail ==
    ASSUME NEW s \in Seq(Byte), Len(s) >= 2
    PROVE  Cardinality(Breaks(s)) = Break(s[1], s[2]) + Cardinality(Breaks(Tail(s)))
<1>1. PICK t : t = Tail(s)
  OBVIOUS
<1>2. PICK n \in Nat : n = Len(s) /\ n >= 2
  OBVIOUS
<1>3. /\ t \in Seq(Byte) /\ Len(t) = n - 1
      /\ \A i \in 1 .. n - 1 : t[i] = s[i + 1]
  BY <1>1, <1>2, HeadTailProperties
<1> DEFINE Shifted == {i + 1 : i \in Breaks(t)}
           f == [i \in Breaks(t) |-> i + 1]
<1>4. Breaks(t) \subseteq Nat
  BY <1>2, <1>3 DEF Breaks
<1>5. IsFiniteSet(Breaks(t)) /\ Cardinality(Breaks(t)) \in Nat
  BY <1>3, BreaksFinite
<1>6. f \in Bijection(Breaks(t), Shifted)
  <2>1. \A i, j \in Breaks(t) : f[i] = f[j] => i = j
    BY <1>4
  <2>2. f \in [Breaks(t) -> Shifted] /\ \A k \in Shifted : \E i \in Breaks(t) : f[i] = k
    OBVIOUS
  <2> HIDE DEF f, Shifted
  <2>3. QED
    BY <2>1, <2>2 DEF Bijection, Injection, Surjection, IsInjective
<1>7. IsFiniteSet(Shifted) /\ Cardinality(Shifted) = Cardinality(Breaks(t))
  <2> HIDE DEF f, Shifted
  <2>1. ExistsBijection(Breaks(t), Shifted)
    BY ONLY <1>6 DEF ExistsBijection
  <2>2. QED
    BY ONLY <1>5, <2>1, FS_Bijection
<1>8. \A i \in 1 .. n - 1 : i \in Breaks(s) <=> ~ Follows(s[i], s[i + 1])
  BY <1>2 DEF Breaks
<1>9. \A i \in 1 .. n - 2 : i \in Breaks(t) <=> i + 1 \in Breaks(s)
  <2>1. TAKE i \in 1 .. n - 2
  <2>2. i \in 1 .. n - 1 /\ i + 1 \in 1 .. n - 1
    BY <1>2
  <2>3. t[i] = s[i + 1] /\ t[i + 1] = s[(i + 1) + 1]
    BY <1>3, <2>2
  <2>4. i \in Breaks(t) <=> ~ Follows(t[i], t[i + 1])
    <3>1. Len(t) - 1 = n - 2
      BY <1>2, <1>3
    <3>2. QED
      BY <3>1 DEF Breaks
  <2>5. QED
    BY <1>8, <2>2, <2>3, <2>4
<1>10. /\ Breaks(s) \subseteq 1 .. n - 1 /\ Breaks(t) \subseteq 1 .. n - 2
  BY <1>2, <1>3 DEF Breaks
<1>11. 1 \notin Shifted /\ \A k : k \in Shifted <=> k \in Breaks(s) /\ k # 1
  <2>1. ASSUME NEW k \in Shifted PROVE k \in Breaks(s) /\ k # 1
    <3>1. PICK i \in Breaks(t) : k = i + 1
      OBVIOUS
    <3>2. i \in 1 .. n - 2
      BY <1>10
    <3>3. QED
      BY <1>9, <3>1, <3>2
  <2>2. ASSUME NEW k \in Breaks(s), k # 1 PROVE k \in Shifted
    <3>1. k - 1 \in 1 .. n - 2 /\ (k - 1) + 1 = k
      BY <1>2, <1>10, <2>2
    <3>2. k - 1 \in Breaks(t)
      BY <1>9, <3>1
    <3>3. QED
      BY <3>1, <3>2
  <2> HIDE DEF Shifted
  <2>3. QED
    BY <2>1, <2>2
<1> HIDE DEF Shifted, f
<1>12. 1 \in Breaks(s) <=> ~ Follows(s[1], s[2])
  <2>1. 1 \in 1 .. n - 1 /\ 1 + 1 = 2
    BY <1>2
  <2>2. QED
    BY <1>8, <2>1
<1>13. CASE Follows(s[1], s[2])
  <2>1. Breaks(s) = Shifted
    BY <1>11, <1>12, <1>13
  <2>2. QED
    BY <1>1, <1>5, <1>7, <1>13, <2>1 DEF Break
<1>14. CASE ~ Follows(s[1], s[2])
  <2>1. Breaks(s) = Shifted \cup {1}
    BY <1>11, <1>12, <1>14
  <2>2. Cardinality(Shifted \cup {1}) = Cardinality(Shifted) + 1
    BY <1>7, <1>11, FS_AddElement
  <2>3. QED
    BY <1>1, <1>5, <1>7, <1>14, <2>1, <2>2 DEF Break
<1>15. QED
  BY <1>13, <1>14

\* Only the first byte of a clear report is taken for a first one.
LEMMA FirstIsFirst ==
    ASSUME NEW e \in Byte, Genuine(e), Clear(e.of), LooksFirst(e.dat)
    PROVE  e.nth = 1
<1>1. e.dat \in 0 .. 255 /\ e.nth \in 0 .. 3
  BY DEF Byte
<1>2. e.dat \in FirstBytes
  <2>1. PICK d \in 0 .. 63 : d = e.dat /\ (d \div 8) % 2 = 1
    BY <1>1 DEF LooksFirst
  <2>2. PICK b \in 0 .. 7, s \in 0 .. 1, t \in 0 .. 1 :
            b = d % 8 /\ s = (d \div 16) % 2 /\ t = (d \div 32) % 2
    OBVIOUS
  <2>3. d = 8 + b + 16 * s + 32 * t
    <3>1. \A c \in 0 .. 63 : (c \div 8) % 2 = 1 =>
              c = 8 + (c % 8) + 16 * ((c \div 16) % 2) + 32 * ((c \div 32) % 2)
      OBVIOUS
    <3>2. QED
      BY ONLY d \in 0 .. 63, <2>1, <2>2, <3>1
  <2>4. QED
    BY <2>1, <2>3 DEF FirstBytes
<1>3. e.nth # 0
  BY DEF Genuine, LooksFirst
<1>4. e.nth # 2 /\ e.nth # 3
  BY <1>2, <1>3 DEF Genuine, Clear
<1>5. QED
  BY <1>1, <1>3, <1>4

\* At boot the mouse's answer is in the FIFO, and its first byte comes next.
LEMMA InitAccount == Init => Account
<1> SUFFICES ASSUME Init PROVE Account
  OBVIOUS
<1>1. report \in Moves /\ report \in kinds /\ kinds \subseteq Moves /\ sent = 0
      /\ sent \in 0 .. 2 /\ dropping \in BOOLEAN /\ dropping = FALSE
  <2>1. dropping = FALSE /\ dropping \in BOOLEAN
    BY DEF Init
  <2>2. report \in Moves /\ report \in kinds /\ kinds \subseteq Moves /\ sent = 0
    BY DEF Init
  <2>3. QED
    BY <2>1, <2>2
<1>2. Ack \in Byte /\ Next1 \in Byte /\ Genuine(Next1) /\ Next1.nth = 1 /\ Next1.of = report
  <2>1. Ack \in Byte
    BY <1>1, AckIsByte
  <2>2. Next1 \in Byte /\ Genuine(Next1) /\ Next1.nth = sent + 1 /\ Next1.of = report
    BY <1>1, NextByte
  <2>3. QED
    BY <1>1, <2>1, <2>2
<1>3. PICK s \in Seq(Byte) : s = <<Ack>>
  <2>1. <<Ack>> \in Seq(Byte)
    BY <1>2
  <2>2. QED
    BY <2>1
<1>4. Len(s) = 1 /\ s[1] = Ack /\ s # << >> /\ Coming = Append(s, Next1)
  BY <1>3 DEF Coming, Init
<1>5. Len(Coming) = 2 /\ Coming[1] = Ack /\ Coming[2] = Next1
  <2>1. PICK e \in Byte : e = Next1
    BY <1>2
  <2>2. /\ Len(Append(s, e)) = Len(s) + 1 /\ Append(s, e)[Len(s) + 1] = e
        /\ \A i \in 1 .. Len(s) : Append(s, e)[i] = s[i]
    BY AppendProperties
  <2>3. QED
    BY <1>4, <2>1, <2>2
<1>6. Genuine(Ack) /\ Ack.of = report /\ Follows(Ack, Next1)
  BY <1>1, <1>2 DEF Genuine, Ack, Follows, Next1
<1>7. \A i \in 1 .. Len(Coming) : Genuine(Coming[i]) /\ Coming[i].of \in kinds
  BY <1>1, <1>2, <1>5, <1>6
<1>8. Cardinality(Breaks(Coming)) = 0
  <2>1. Breaks(Coming) = {}
    BY <1>5, <1>6 DEF Breaks
  <2>2. QED
    BY <2>1, FS_EmptySet
<1>9. mdec.phase = 0 /\ spoiled = 0 /\ losses = 0
  BY DEF Init
<1>10. QED
  BY <1>7, <1>8, <1>9 DEF Account, Begun

\* What Account says after a step.
LEMMA AccountAfter ==
    ASSUME NEW begun, begun = Begun',
           kinds' = kinds,
           \A i \in 1 .. Len(Coming') : Genuine(Coming'[i]) /\ Coming'[i].of \in kinds,
           AllClear => (mdec'.phase >= 2 => from'[1].nth = 1),
           spoiled' + begun + Cardinality(Breaks(Coming')) <= losses'
    PROVE  Account'
<1>1. AllClear' = AllClear
  BY DEF AllClear, Clear, Bytes, Negative
<1>2. QED
  BY <1>1 DEF Account, Genuine, Breaks, Follows, Bytes, Negative

\* A byte more costs nothing, a dropped one may cost a break.
LEMMA InterruptPays == AInv /\ Interrupt => Account'
<1> SUFFICES ASSUME AInv, Interrupt PROVE Account'
  OBVIOUS
<1>1. /\ report \in kinds /\ kinds \subseteq Moves /\ sent \in 0 .. 2 /\ losses \in Nat
      /\ dropping \in BOOLEAN /\ dropping' \in BOOLEAN
      /\ queue \in Seq(Byte) /\ spoiled \in Nat
      /\ \A i \in 1 .. Len(Coming) : Genuine(Coming[i]) /\ Coming[i].of \in kinds
  <2>1. dropping' \in BOOLEAN
    BY DEF Interrupt
  <2>2. QED
    BY <2>1 DEF AInv, IInv, TypeOK, Account
<1>2. /\ mdec' = mdec /\ from' = from /\ spoiled' = spoiled /\ kinds' = kinds
      /\ sent' = (sent + 1) % 3 /\ sent' \in 0 .. 2 /\ report' \in kinds
      /\ sent' # 0 => report' = report
  BY <1>1 DEF Interrupt
<1>3. /\ Next1 \in Byte /\ Genuine(Next1) /\ Next1.nth = sent + 1 /\ Next1.of = report
  BY <1>1, NextByte
<1>4. Next1' \in Byte /\ Genuine(Next1') /\ Next1'.nth = sent' + 1 /\ Next1'.of = report'
  <2>1. report' \in Moves /\ report' \in Movement /\ sent' + 1 \in 1 .. 3
    BY <1>1, <1>2
  <2>2. Bytes(report')[sent' + 1] \in 0 .. 255
    BY <2>1, Decodes
  <2>3. Next1' = [dat |-> Bytes(report')[sent' + 1], of |-> report', nth |-> sent' + 1,
                     gap |-> dropping']
    BY DEF Next1
  <2>4. QED
    BY <1>1, <1>2, <2>1, <2>2, <2>3 DEF Byte, Genuine
<1>5. PICK s \in Seq(Byte), e \in Byte, d \in Byte :
          s = queue /\ e = Next1 /\ d = Next1'
  BY <1>1, <1>3, <1>4
<1>6. /\ Coming = Append(s, e) /\ Coming \in Seq(Byte)
      /\ Len(s) \in Nat /\ Len(Coming) = Len(s) + 1 /\ Coming[Len(s) + 1] = e
      /\ \A i \in 1 .. Len(s) : Coming[i] = s[i]
  BY <1>5 DEF Coming
<1>7. Cardinality(Breaks(s)) \in Nat /\ Cardinality(Breaks(Coming)) \in Nat
  BY <1>6, BreaksFinite
<1>8. Begun \in Nat
  BY DEF Begun, Break
<1>9. CASE Len(queue) < Room
  <2>1. losses' = losses /\ queue' = Coming /\ dropping' = FALSE
    BY <1>9 DEF Interrupt, Coming, Next1
  <2>2. Coming' = Append(Coming, d)
    BY <1>5, <2>1 DEF Coming
  <2>3. /\ Len(Coming') = Len(Coming) + 1 /\ Coming'[Len(Coming) + 1] = d
        /\ \A i \in 1 .. Len(Coming) : Coming'[i] = Coming[i]
    BY <1>6, <2>2
  <2>4. Follows(e, d)
    BY <1>1, <1>2, <1>3, <1>4, <1>5, <2>1 DEF Follows, Next1
  <2>5. Cardinality(Breaks(Coming')) = Cardinality(Breaks(Coming))
    <3>1. Coming # << >> /\ Coming[Len(Coming)] = e
      BY <1>6
    <3>2. Cardinality(Breaks(Append(Coming, d)))
              = Cardinality(Breaks(Coming)) + IF Coming = << >> THEN 0 ELSE Break(Coming[Len(Coming)], d)
      BY <1>6, BreaksAppend
    <3>3. QED
      BY <1>7, <2>2, <2>4, <3>1, <3>2 DEF Break
  <2>6. Coming'[1] = Coming[1]
    BY <1>6, <2>3
  <2>7. Begun' = Begun
    BY <1>2, <2>6 DEF Begun, Break, Follows
  <2>8. \A i \in 1 .. Len(Coming') : Genuine(Coming'[i]) /\ Coming'[i].of \in kinds
    BY <1>1, <1>2, <1>4, <1>5, <1>6, <2>3
  <2>9. PICK begun : begun = Begun'
    OBVIOUS
  <2>10. /\ AllClear => (mdec'.phase >= 2 => from'[1].nth = 1)
         /\ spoiled' + begun + Cardinality(Breaks(Coming')) <= losses'
    BY <1>2, <2>1, <2>5, <2>7, <2>9 DEF AInv, Account
  <2>11. QED
    BY <1>2, <2>8, <2>9, <2>10, AccountAfter
<1>10. CASE ~ (Len(queue) < Room)
  <2>1. /\ losses' = (IF dropping THEN losses ELSE losses + 1) /\ dropping' = TRUE
        /\ queue' = s /\ s # << >>
    BY <1>1, <1>5, <1>10 DEF Interrupt
  <2>2. Coming' = Append(s, d)
    BY <1>5, <2>1 DEF Coming
  <2>3. /\ Len(Coming') = Len(s) + 1 /\ Coming'[Len(s) + 1] = d
        /\ \A i \in 1 .. Len(s) : Coming'[i] = s[i]
    BY <1>6, <2>2
  <2>4. Cardinality(Breaks(Coming')) <= Cardinality(Breaks(Coming)) + (losses' - losses)
        /\ Cardinality(Breaks(Coming')) \in Nat
    <3>1. Cardinality(Breaks(Append(s, d))) = Cardinality(Breaks(s)) + Break(s[Len(s)], d)
      BY <2>1, BreaksAppend
    <3>2. Cardinality(Breaks(Append(s, e))) = Cardinality(Breaks(s)) + Break(s[Len(s)], e)
      BY <2>1, BreaksAppend
    <3>3. /\ Break(s[Len(s)], d) = 1 /\ Break(s[Len(s)], e) \in 0 .. 1
          /\ dropping => Break(s[Len(s)], e) = 1
      BY <1>5, <2>1 DEF Break, Follows, Next1
    <3>4. QED
      BY <1>1, <1>6, <1>7, <2>1, <2>2, <3>1, <3>2, <3>3
  <2>5. Coming'[1] = Coming[1]
    BY <1>6, <2>1, <2>3
  <2>6. Begun' = Begun
    BY <1>2, <2>5 DEF Begun, Break, Follows
  <2>7. \A i \in 1 .. Len(Coming') : Genuine(Coming'[i]) /\ Coming'[i].of \in kinds
    BY <1>1, <1>2, <1>4, <1>5, <1>6, <2>3
  <2>8. PICK begun : begun = Begun'
    OBVIOUS
  <2>9. /\ AllClear => (mdec'.phase >= 2 => from'[1].nth = 1)
        /\ spoiled' + begun + Cardinality(Breaks(Coming')) <= losses'
    <3>1. /\ AllClear => (mdec.phase >= 2 => from[1].nth = 1)
          /\ spoiled + Begun + Cardinality(Breaks(Coming)) <= losses
      BY DEF AInv, Account
    <3>2. losses' \in Nat
      BY <1>1, <2>1
    <3>3. QED
      BY <1>1, <1>2, <1>7, <1>8, <2>4, <2>6, <2>8, <3>1, <3>2
  <2>10. QED
    BY <1>2, <2>7, <2>8, <2>9, AccountAfter
<1>11. QED
  BY <1>9, <1>10

\* A byte is read: it and the break behind it leave what is to come.
LEMMA ReadCounts ==
    ASSUME AInv, queue # << >>, queue' = Tail(queue), report' = report, sent' = sent,
           kinds' = kinds, dropping' = dropping
    PROVE  /\ Head(queue) \in Byte /\ Coming[1] = Head(queue) /\ Coming'[1] = Coming[2]
           /\ Genuine(Head(queue)) /\ Head(queue).of \in kinds
           /\ \A i \in 1 .. Len(Coming') : Genuine(Coming'[i]) /\ Coming'[i].of \in kinds
           /\ Cardinality(Breaks(Coming)) \in Nat /\ Cardinality(Breaks(Coming')) \in Nat
           /\ Cardinality(Breaks(Coming))
                  = Break(Coming[1], Coming[2]) + Cardinality(Breaks(Coming'))
           /\ Begun \in Nat /\ spoiled \in Nat /\ losses \in Nat
<1>1. /\ queue \in Seq(Byte) /\ report \in Moves /\ sent \in 0 .. 2 /\ dropping \in BOOLEAN
      /\ \A i \in 1 .. Len(Coming) : Genuine(Coming[i]) /\ Coming[i].of \in kinds
  BY DEF AInv, IInv, TypeOK, Account
<1>2. PICK s \in Seq(Byte), e \in Byte, n \in Nat :
          s = queue /\ e = Next1 /\ n = Len(s) /\ n > 0
  BY <1>1, NextByte
<1>3. Coming = Append(s, e) /\ Coming' = Append(Tail(s), e)
  BY <1>2 DEF Coming, Next1
<1>4. /\ Head(s) = s[1] /\ Head(s) \in Byte
      /\ Tail(s) \in Seq(Byte) /\ Len(Tail(s)) = n - 1
      /\ \A i \in 1 .. n - 1 : Tail(s)[i] = s[i + 1]
  BY <1>2, HeadTailProperties
<1>5. PICK c \in Seq(Byte) : c = Coming
  BY <1>2, <1>3
<1>6. /\ Len(c) = n + 1 /\ c[n + 1] = e
      /\ \A i \in 1 .. n : c[i] = s[i]
  BY <1>2, <1>3, <1>5
<1>7. PICK t \in Seq(Byte) : t = Tail(s)
  BY <1>4
<1>8. PICK u \in Seq(Byte) : u = Coming'
  <2>1. Append(t, e) \in Seq(Byte)
    OBVIOUS
  <2>2. Coming' = Append(t, e)
    BY <1>3, <1>7
  <2>3. QED
    BY <2>1, <2>2
<1>9. /\ Len(u) = n /\ u[n] = e
      /\ \A i \in 1 .. n - 1 : u[i] = s[i + 1]
  BY <1>2, <1>3, <1>4, <1>7, <1>8
<1>10. \A i \in 1 .. n : u[i] = c[i + 1]
  <2>1. TAKE i \in 1 .. n
  <2>2. CASE i = n
    BY <1>6, <1>9, <2>2
  <2>3. CASE i # n
    <3>1. i \in 1 .. n - 1 /\ i + 1 \in 1 .. n
      BY <1>2, <2>3
    <3>2. QED
      BY <1>6, <1>9, <3>1
  <2>4. QED
    BY <2>2, <2>3
<1>11. u = Tail(c)
  <2>1. /\ Tail(c) \in Seq(Byte) /\ Len(Tail(c)) = n
        /\ \A i \in 1 .. n : Tail(c)[i] = c[i + 1]
    <3>1. c # << >>
      BY <1>2, <1>6
    <3>2. /\ Tail(c) \in Seq(Byte) /\ Len(Tail(c)) = Len(c) - 1
          /\ \A i \in 1 .. Len(Tail(c)) : Tail(c)[i] = c[i + 1]
      BY <3>1, HeadTailProperties
    <3>3. QED
      BY <1>2, <1>6, <3>2
  <2>2. QED
    BY <1>9, <1>10, <2>1, SeqEqual
<1>12. Cardinality(Breaks(c)) = Break(c[1], c[2]) + Cardinality(Breaks(u))
  <2>1. Len(c) >= 2
    BY <1>2, <1>6
  <2>2. QED
    BY <1>11, <2>1, BreaksTail
<1>13. Cardinality(Breaks(c)) \in Nat /\ Cardinality(Breaks(u)) \in Nat
  BY BreaksFinite
<1>14. 1 \in 1 .. n /\ 1 \in 1 .. Len(c) /\ 1 + 1 = 2
  BY <1>2, <1>6
<1>15. \A i \in 1 .. n : i + 1 \in 1 .. Len(c)
  BY <1>2, <1>6
<1>16. \A i \in 1 .. Len(u) : Genuine(u[i]) /\ u[i].of \in kinds
  BY <1>1, <1>5, <1>9, <1>10, <1>15
<1>17. c[1] = Head(queue) /\ u[1] = c[2] /\ Head(queue) \in Byte
  BY <1>2, <1>4, <1>6, <1>10, <1>14
<1>18. Begun \in Nat /\ spoiled \in Nat /\ losses \in Nat
  BY DEF Begun, Break, AInv, IInv, TypeOK
<1>19. QED
  BY <1>1, <1>5, <1>8, <1>12, <1>13, <1>14, <1>16, <1>17, <1>18

\* The answer to the enable command is no part of a movement.
LEMMA ReadAckPays == AInv /\ ReadAck => Account'
<1> SUFFICES ASSUME AInv, ReadAck PROVE Account'
  OBVIOUS
<1>1. queue # << >> /\ queue' = Tail(queue) /\ mdec.phase = 0
      /\ UNCHANGED <<report, sent, kinds, dropping, losses, from, spoiled>>
  BY DEF ReadAck, Read, Stays
<1>2. /\ \A i \in 1 .. Len(Coming') : Genuine(Coming'[i]) /\ Coming'[i].of \in kinds
      /\ Cardinality(Breaks(Coming)) \in Nat /\ Cardinality(Breaks(Coming')) \in Nat
      /\ Cardinality(Breaks(Coming)) = Break(Coming[1], Coming[2]) + Cardinality(Breaks(Coming'))
      /\ spoiled \in Nat /\ losses \in Nat
  BY <1>1, ReadCounts
<1>3. mdec'.phase \in {0, 1}
  <2>1. mdec \in Dec
    BY DEF AInv, IInv, TypeOK
  <2>2. [mdec EXCEPT !.phase = 1].phase = 1
    BY <2>1 DEF Dec
  <2>3. QED
    BY <1>1, <2>2 DEF ReadAck
<1>4. Begun = 0 /\ Begun' = 0
  BY <1>1, <1>3 DEF Begun
<1>5. Break(Coming[1], Coming[2]) \in Nat
  BY DEF Break
<1>6. /\ AllClear => (mdec'.phase >= 2 => from'[1].nth = 1)
      /\ spoiled' + 0 + Cardinality(Breaks(Coming')) <= losses'
  <2>1. spoiled + Begun + Cardinality(Breaks(Coming)) <= losses
    BY DEF AInv, Account
  <2>2. QED
    BY <1>1, <1>2, <1>3, <1>4, <1>5, <2>1
<1>7. kinds' = kinds
  BY <1>1
<1>8. QED
  BY <1>2, <1>4, <1>6, <1>7, AccountAfter

\* A first byte begins a movement; any other is passed over.
LEMMA ReadFirstPays == AInv /\ ReadFirst => Account'
<1> SUFFICES ASSUME AInv, ReadFirst PROVE Account'
  OBVIOUS
<1>1. queue # << >> /\ queue' = Tail(queue) /\ mdec.phase = 1
      /\ UNCHANGED <<report, sent, kinds, dropping, losses, spoiled>>
  BY DEF ReadFirst, Read, Stays
<1>2. /\ Head(queue) \in Byte /\ Coming[1] = Head(queue) /\ Coming'[1] = Coming[2]
      /\ Genuine(Head(queue)) /\ Head(queue).of \in kinds
      /\ \A i \in 1 .. Len(Coming') : Genuine(Coming'[i]) /\ Coming'[i].of \in kinds
      /\ Cardinality(Breaks(Coming)) \in Nat /\ Cardinality(Breaks(Coming')) \in Nat
      /\ Cardinality(Breaks(Coming)) = Break(Coming[1], Coming[2]) + Cardinality(Breaks(Coming'))
      /\ spoiled \in Nat /\ losses \in Nat
  BY <1>1, ReadCounts
<1>3. Break(Coming[1], Coming[2]) \in Nat
  BY DEF Break
<1>4. Begun = 0
  BY <1>1 DEF Begun
<1>5. spoiled + 0 + Cardinality(Breaks(Coming)) <= losses
  BY <1>4 DEF AInv, Account
<1>6. kinds' = kinds
  BY <1>1
<1>7. CASE LooksFirst(Head(queue).dat)
  <2>1. /\ mdec' = Buffered(mdec, 1, Head(queue).dat)
        /\ from' = [from EXCEPT ![1] = Head(queue)]
    BY <1>7 DEF ReadFirst
  <2>2. mdec'.phase = 2 /\ from'[1] = Head(queue)
    BY <2>1 DEF Buffered, AInv, IInv, TypeOK
  <2>3. Begun' = Break(Coming[1], Coming[2])
    BY <1>2, <2>2 DEF Begun, Break, Follows
  <2>4. AllClear => Head(queue).nth = 1
    BY <1>2, <1>7, FirstIsFirst DEF AllClear
  <2>5. /\ AllClear => (mdec'.phase >= 2 => from'[1].nth = 1)
        /\ spoiled' + Break(Coming[1], Coming[2]) + Cardinality(Breaks(Coming')) <= losses'
    BY <1>1, <1>2, <1>3, <1>5, <2>2, <2>4
  <2>6. PICK begun : begun = Break(Coming[1], Coming[2])
    OBVIOUS
  <2>7. QED
    BY <1>2, <1>6, <2>3, <2>5, <2>6, AccountAfter
<1>8. CASE ~ LooksFirst(Head(queue).dat)
  <2>1. mdec' = mdec /\ from' = from
    BY <1>8 DEF ReadFirst
  <2>2. Begun' = 0
    BY <1>1, <2>1 DEF Begun
  <2>3. /\ AllClear => (mdec'.phase >= 2 => from'[1].nth = 1)
        /\ spoiled' + 0 + Cardinality(Breaks(Coming')) <= losses'
    BY <1>1, <1>2, <1>3, <1>5, <2>1
  <2>4. QED
    BY <1>2, <1>6, <2>2, <2>3, AccountAfter
<1>9. QED
  BY <1>7, <1>8

\* The second byte is kept whatever it is, and the break before it with it.
LEMMA ReadSecondPays == AInv /\ ReadSecond => Account'
<1> SUFFICES ASSUME AInv, ReadSecond PROVE Account'
  OBVIOUS
<1>1. queue # << >> /\ queue' = Tail(queue) /\ mdec.phase = 2
      /\ UNCHANGED <<report, sent, kinds, dropping, losses, spoiled>>
  BY DEF ReadSecond, Read, Stays
<1>2. /\ Head(queue) \in Byte /\ Coming[1] = Head(queue) /\ Coming'[1] = Coming[2]
      /\ \A i \in 1 .. Len(Coming') : Genuine(Coming'[i]) /\ Coming'[i].of \in kinds
      /\ Cardinality(Breaks(Coming)) \in Nat /\ Cardinality(Breaks(Coming')) \in Nat
      /\ Cardinality(Breaks(Coming)) = Break(Coming[1], Coming[2]) + Cardinality(Breaks(Coming'))
      /\ spoiled \in Nat /\ losses \in Nat
  BY <1>1, ReadCounts
<1>3. PICK p \in Nat, q \in Nat : p = Break(from[1], Coming[1]) /\ q = Break(Coming[1], Coming[2])
  BY DEF Break
<1>4. Begun = p
  BY <1>1, <1>3 DEF Begun
<1>5. /\ mdec' = Buffered(mdec, 2, Head(queue).dat)
      /\ from' = [from EXCEPT ![2] = Head(queue)]
  BY DEF ReadSecond
<1>6. mdec'.phase = 3 /\ from'[1] = from[1] /\ from'[2] = Coming[1]
  BY <1>2, <1>5 DEF Buffered, AInv, IInv, TypeOK
<1>7. Begun' = p + q
  <2>1. Begun' = Break(from'[1], from'[2]) + Break(from'[2], Coming'[1])
    BY <1>6 DEF Begun, Break, Follows
  <2>2. QED
    BY <1>2, <1>3, <1>6, <2>1
<1>8. /\ AllClear => from[1].nth = 1
      /\ spoiled + p + Cardinality(Breaks(Coming)) <= losses
  BY <1>1, <1>4 DEF AInv, Account
<1>9. /\ AllClear => (mdec'.phase >= 2 => from'[1].nth = 1)
      /\ spoiled' + (p + q) + Cardinality(Breaks(Coming')) <= losses'
  BY <1>1, <1>2, <1>3, <1>6, <1>8
<1>10. kinds' = kinds
  BY <1>1
<1>11. QED
  BY <1>2, <1>7, <1>9, <1>10, AccountAfter

\* The third byte ends the movement: if it is put together wrongly, one of the
\* two breaks it may contain pays for it.
LEMMA ReadThirdPays == AInv /\ ReadThird => Account'
<1> SUFFICES ASSUME AInv, ReadThird PROVE Account'
  OBVIOUS
<1>1. queue # << >> /\ queue' = Tail(queue) /\ mdec.phase = 3
      /\ UNCHANGED <<report, sent, kinds, dropping, losses>>
  BY DEF ReadThird, Read
<1>2. /\ Head(queue) \in Byte /\ Coming[1] = Head(queue) /\ Coming'[1] = Coming[2]
      /\ \A i \in 1 .. Len(Coming') : Genuine(Coming'[i]) /\ Coming'[i].of \in kinds
      /\ Cardinality(Breaks(Coming)) \in Nat /\ Cardinality(Breaks(Coming')) \in Nat
      /\ Cardinality(Breaks(Coming)) = Break(Coming[1], Coming[2]) + Cardinality(Breaks(Coming'))
      /\ spoiled \in Nat /\ losses \in Nat
  BY <1>1, ReadCounts
<1>3. PICK p \in Nat, q \in Nat, r \in Nat :
          p = Break(from[1], from[2]) /\ q = Break(from[2], Coming[1])
          /\ r = Break(Coming[1], Coming[2])
  BY DEF Break
<1>4. Begun = p + q
  BY <1>1, <1>3 DEF Begun
<1>5. /\ mdec'.phase = 1 /\ Begun' = 0
  BY DEF ReadThird, Begun
<1>6. /\ from' = [from EXCEPT ![3] = Head(queue)]
      /\ spoiled' = IF /\ from'[1].nth = 1
                       /\ \E n \in 2 .. 3 : from'[n].nth # n \/ from'[n].of # from'[1].of
                    THEN spoiled + 1 ELSE spoiled
  BY DEF ReadThird
<1>7. from'[1] = from[1] /\ from'[2] = from[2] /\ from'[3] = Coming[1]
  BY <1>2, <1>6 DEF AInv, IInv, TypeOK
<1>8. spoiled' \in Nat /\ spoiled' <= spoiled + 1
  BY <1>2, <1>6
<1>9. spoiled' <= spoiled + (p + q)
  <2>1. CASE from[1].nth # 1
    <3>1. spoiled' = spoiled
      BY <1>6, <1>7, <2>1
    <3>2. QED
      BY <1>2, <1>3, <3>1
  <2>2. CASE from[1].nth = 1 /\ Follows(from[1], from[2]) /\ Follows(from[2], Coming[1])
    <3>1. from[2].nth = 2 /\ from[2].of = from[1].of
      BY <2>2 DEF Follows
    <3>2. Coming[1].nth = 3 /\ Coming[1].of = from[1].of
      BY <2>2, <3>1 DEF Follows
    <3>3. \A n \in 1 .. 3 : from'[n].nth = n /\ from'[n].of = from'[1].of
      BY <1>7, <2>2, <3>1, <3>2
    <3>4. spoiled' = spoiled
      BY <1>6, <3>3
    <3>5. QED
      BY <1>2, <1>3, <3>4
  <2>3. CASE ~ (Follows(from[1], from[2]) /\ Follows(from[2], Coming[1]))
    <3>1. p + q >= 1
      BY <1>3, <2>3 DEF Break
    <3>2. QED
      BY <1>2, <1>3, <1>8, <3>1
  <2>4. QED
    BY <2>1, <2>2, <2>3
<1>10. /\ AllClear => (mdec'.phase >= 2 => from'[1].nth = 1)
       /\ spoiled' + 0 + Cardinality(Breaks(Coming')) <= losses'
  <2>1. spoiled + (p + q) + Cardinality(Breaks(Coming)) <= losses
    BY <1>4 DEF AInv, Account
  <2>2. PICK b \in Nat, c \in Nat, v \in Nat :
            b = Cardinality(Breaks(Coming)) /\ c = Cardinality(Breaks(Coming')) /\ v = spoiled'
    BY <1>2, <1>8
  <2>3. b = r + c
    BY <1>2, <1>3, <2>2
  <2>4. v + 0 + c <= losses'
    <3>1. spoiled + (p + q) + b <= losses /\ v <= spoiled + (p + q) /\ losses' = losses
      BY <1>1, <1>9, <2>1, <2>2
    <3>2. /\ spoiled \in Nat /\ losses \in Nat /\ p + q \in Nat /\ r \in Nat
          /\ b \in Nat /\ c \in Nat /\ v \in Nat
      BY <1>2
    <3>3. PICK k \in Nat, l \in Nat : k = p + q /\ l = losses'
      BY <3>1, <3>2
    <3>4. spoiled + k + (r + c) <= l /\ v <= spoiled + k
      BY <2>3, <3>1, <3>3
    <3>5. v + 0 + c <= l
      BY ONLY <3>2, <3>4, k \in Nat, l \in Nat
    <3>6. QED
      BY <3>3, <3>5
  <2>5. QED
    BY <1>5, <2>2, <2>4
<1>11. kinds' = kinds
  BY <1>1
<1>12. QED
  BY <1>2, <1>5, <1>10, <1>11, AccountAfter

\* Every step keeps the account.
LEMMA NextPays == AInv /\ [Next]_vars => AInv'
<1> SUFFICES ASSUME AInv, [Next]_vars PROVE Account'
  BY NextInv DEF AInv
<1>1. CASE UNCHANGED vars
  <2>1. Coming' = Coming /\ Begun' = Begun
    BY <1>1 DEF vars, Coming, Next1, Begun, Break, Follows
  <2>2. /\ kinds' = kinds /\ losses' = losses /\ spoiled' = spoiled /\ mdec' = mdec /\ from' = from
    BY <1>1 DEF vars
  <2>3. PICK begun : begun = Begun
    OBVIOUS
  <2>4. /\ \A i \in 1 .. Len(Coming) : Genuine(Coming[i]) /\ Coming[i].of \in kinds
        /\ AllClear => (mdec.phase >= 2 => from[1].nth = 1)
        /\ spoiled + begun + Cardinality(Breaks(Coming)) <= losses
    BY <2>3 DEF AInv, Account
  <2>5. QED
    BY <2>1, <2>2, <2>3, <2>4, AccountAfter
<1>2. QED
  BY <1>1, InterruptPays, ReadAckPays, ReadFirstPays, ReadSecondPays, ReadThirdPays DEF Next

\* However many bytes the FIFO drops one after the other, and wherever, no more
\* than one movement for each such run begins with a report's first byte and goes
\* on with bytes of another; and if the reports are clear every movement begins
\* with a first byte: mouse_decode's search for one (mouse.c:48) finds no other.
THEOREM OneWrongPerLossHolds == Spec => []OneWrongPerLoss
<1>1. Init => AInv
  BY InitInv, InitAccount DEF AInv
<1>2. AInv /\ [Next]_vars => AInv'
  BY NextPays
<1>3. ASSUME AInv PROVE OneWrongPerLoss
  <2>1. Begun \in Nat /\ spoiled \in Nat /\ losses \in Nat
    BY <1>3 DEF Begun, Break, AInv, IInv, TypeOK
  <2>2. Coming \in Seq(Byte)
    <3>1. queue \in Seq(Byte) /\ Next1 \in Byte
      BY <1>3, NextByte DEF AInv, IInv, TypeOK
    <3>2. QED
      BY <3>1 DEF Coming
  <2>3. Cardinality(Breaks(Coming)) \in Nat
    BY <2>2, BreaksFinite
  <2>4. /\ AllClear => (mdec.phase >= 2 => from[1].nth = 1)
        /\ spoiled + Begun + Cardinality(Breaks(Coming)) <= losses
    BY <1>3 DEF AInv, Account
  <2>5. QED
    BY <2>1, <2>3, <2>4 DEF OneWrongPerLoss, AllClear
<1>4. QED
  BY <1>1, <1>2, <1>3, PTL DEF Spec

=============================================================================
