----------------------------- MODULE FifoProofs -----------------------------
(***************************************************************************)
(* Proofs about Fifo.tla, for a ring of any size and any values.           *)
(*                                                                         *)
(* The inductive invariant is IInv: types, agreement of the three indices  *)
(* and the wake-up rule.  Type correctness alone is inductive, but the     *)
(* refinement needs to know that the write index is the slot after the     *)
(* last waiting value, and a put or a get keeps that only if it held       *)
(* before.  The first part says what the functions of fifo.c do to a ring  *)
(* of any size, with any values and any owner, whose write index is where  *)
(* the waiting values end: whoever owns a FIFO32 may cite it.              *)
(***************************************************************************)
EXTENDS Fifo, SequenceTheorems, TLAPS

\* The index after an index of the ring is an index of the ring.
LEMMA AdvanceInRing ==
    ASSUME NEW N \in Nat \ {0}, NEW i \in 0 .. N - 1
    PROVE  Advance(i, N) \in 0 .. N - 1
BY DEF Advance

\* A put keeps the record well formed and its indices in agreement, and adds
\* the value behind the waiting ones.
LEMMA PutProperties ==
    ASSUME NEW N \in Nat \ {0}, NEW D, NEW T, NEW f \in FifoType(N, D, T),
           NEW d \in D,
           f.write_buf = Slot(f, fifo32_status(f))
    PROVE  LET g == fifo32_put(f, d)
           IN  /\ g \in FifoType(N, D, T)
               /\ g.write_buf = Slot(g, fifo32_status(g))
<1> DEFINE g == fifo32_put(f, d)
<1>1. CASE f.free = 0
  <2>1. g = [f EXCEPT !.flags = FLAGS_OVERRUN]
    BY <1>1 DEF fifo32_put
  <2>2. QED
    BY <1>1, <2>1 DEF FifoType, FLAGS_OVERRUN, Slot, fifo32_status
<1>2. CASE f.free # 0
  <2>1. g = [f EXCEPT !.buf[f.write_buf] = d,
                      !.write_buf = Advance(f.write_buf, f.size),
                      !.free = f.free - 1]
    BY <1>2 DEF fifo32_put
  <2>2. g \in FifoType(N, D, T)
    <3>1. /\ f.size = N
          /\ f.write_buf \in 0 .. N - 1
          /\ f.free - 1 \in 0 .. N
      BY <1>2 DEF FifoType
    <3>2. Advance(f.write_buf, f.size) \in 0 .. N - 1
      BY <3>1, AdvanceInRing
    <3>3. [f.buf EXCEPT ![f.write_buf] = d] \in [0 .. N - 1 -> D]
      BY <3>1 DEF FifoType
    <3>4. QED
      BY <2>1, <3>1, <3>2, <3>3 DEF FifoType
  <2>3. g.write_buf = Slot(g, fifo32_status(g))
    BY <1>2, <2>1, SMTT(30) DEF FifoType, Slot, fifo32_status, Advance
  <2>4. QED
    BY <2>2, <2>3
<1>3. QED
  BY <1>1, <1>2

\* A get keeps the record well formed and its indices in agreement, and what
\* it returns is a value of the ring.
LEMMA GetProperties ==
    ASSUME NEW N \in Nat \ {0}, NEW D, NEW T, NEW f \in FifoType(N, D, T),
           f.write_buf = Slot(f, fifo32_status(f)),
           fifo32_status(f) > 0
    PROVE  LET g == fifo32_get(f)
           IN  /\ g \in FifoType(N, D, T)
               /\ g.write_buf = Slot(g, fifo32_status(g))
               /\ GetReturns(f) \in D
<1> DEFINE g == fifo32_get(f)
<1>1. f.free # f.size
  BY DEF FifoType, fifo32_status
<1>2. g = [f EXCEPT !.read_buf = Advance(f.read_buf, f.size),
                    !.free = f.free + 1]
  BY <1>1 DEF fifo32_get
<1>3. g \in FifoType(N, D, T)
  <2>1. /\ f.size = N
        /\ f.read_buf \in 0 .. N - 1
        /\ f.free + 1 \in 0 .. N
    BY <1>1 DEF FifoType
  <2>2. Advance(f.read_buf, f.size) \in 0 .. N - 1
    BY <2>1, AdvanceInRing
  <2>3. QED
    BY <1>2, <2>1, <2>2 DEF FifoType
<1>4. g.write_buf = Slot(g, fifo32_status(g))
  BY <1>1, <1>2, SMTT(30) DEF FifoType, Slot, fifo32_status, Advance
<1>5. GetReturns(f) \in D
  BY <1>1 DEF GetReturns, FifoType
<1>6. QED
  BY <1>3, <1>4, <1>5
-----------------------------------------------------------------------------
\* The waiting values of a well-formed ring are a sequence of values.
LEMMA ContentsType ==
    ASSUME NEW N \in Nat \ {0}, NEW D, NEW T, NEW f \in FifoType(N, D, T)
    PROVE  /\ fifo32_status(f) \in 0 .. N
           /\ \A i \in 0 .. fifo32_status(f) - 1 : Slot(f, i) \in 0 .. N - 1
           /\ Contents(f) \in Seq(D)
           /\ Len(Contents(f)) = fifo32_status(f)
           /\ \A i \in 1 .. fifo32_status(f) : Contents(f)[i] = f.buf[Slot(f, i - 1)]
<1> DEFINE n == fifo32_status(f)
<1>1. n \in 0 .. N
  BY DEF fifo32_status, FifoType
<1>2. \A i \in 0 .. n - 1 : Slot(f, i) \in 0 .. N - 1
  BY DEF fifo32_status, FifoType, Slot
<1>3. Contents(f) = [i \in 1 .. n |-> f.buf[Slot(f, i - 1)]]
  BY DEF Contents
<1>4. \A i \in 1 .. n : f.buf[Slot(f, i - 1)] \in D
  BY <1>1, <1>2 DEF FifoType
<1> HIDE DEF n
<1>5. Contents(f) \in [1 .. n -> D]
  BY <1>3, <1>4
<1>6. Contents(f) \in Seq(D) /\ Len(Contents(f)) = n
  BY <1>1, <1>5
<1>7. QED
  BY <1>1, <1>2, <1>3, <1>6 DEF n

\* A put into a ring with room appends its value to the waiting ones; a put
\* into a full ring leaves them alone.
LEMMA PutAppends ==
    ASSUME NEW N \in Nat \ {0}, NEW D, NEW T, NEW f \in FifoType(N, D, T), NEW d \in D,
           f.write_buf = Slot(f, fifo32_status(f))
    PROVE  Contents(fifo32_put(f, d)) =
               IF f.free = 0 THEN Contents(f) ELSE Append(Contents(f), d)
<1> DEFINE g == fifo32_put(f, d)
           n == fifo32_status(f)
<1>1. CASE f.free = 0
  <2>1. g = [f EXCEPT !.flags = FLAGS_OVERRUN]
    BY <1>1 DEF fifo32_put
  <2>2. /\ g.buf = f.buf
        /\ g.size = f.size
        /\ g.free = f.free
        /\ g.read_buf = f.read_buf
    BY <2>1 DEF FifoType
  <2>3. Contents(g) = Contents(f)
    BY <2>2 DEF Contents, Slot, fifo32_status
  <2>4. QED
    BY <1>1, <2>3
<1>2. CASE f.free # 0
  <2>1. g = [f EXCEPT !.buf[f.write_buf] = d,
                      !.write_buf = Advance(f.write_buf, f.size),
                      !.free = f.free - 1]
    BY <1>2 DEF fifo32_put
  <2>2. /\ g.buf = [f.buf EXCEPT ![f.write_buf] = d]
        /\ g.size = f.size
        /\ g.free = f.free - 1
        /\ g.read_buf = f.read_buf
        /\ f.buf \in [0 .. N - 1 -> D]
        /\ f.size = N
        /\ f.read_buf \in 0 .. N - 1
        /\ f.write_buf \in 0 .. N - 1
        /\ n \in 0 .. N - 1
    BY <1>2, <2>1 DEF FifoType, fifo32_status
  <2>3. g \in FifoType(N, D, T)
    BY PutProperties
  <2>4. fifo32_status(g) = n + 1
    BY <2>2, <1>2 DEF fifo32_status, FifoType
  <2>5. \A i \in 0 .. n : Slot(g, i) = Slot(f, i)
    BY <2>2 DEF Slot
  <2>6. \A i \in 0 .. n - 1 : Slot(f, i) # f.write_buf
    BY <2>2 DEF Slot
  <2>7. /\ Contents(f) \in Seq(D)
        /\ Len(Contents(f)) = n
        /\ \A i \in 1 .. n : Contents(f)[i] = f.buf[Slot(f, i - 1)]
        /\ \A i \in 0 .. n - 1 : Slot(f, i) \in 0 .. N - 1
    BY ContentsType
  <2>8. /\ Contents(g) \in Seq(D)
        /\ Len(Contents(g)) = n + 1
        /\ \A i \in 1 .. n + 1 : Contents(g)[i] = g.buf[Slot(g, i - 1)]
    BY <2>3, <2>4, ContentsType
  <2> HIDE DEF g, n
  <2>9. Contents(g)[n + 1] = d
    <3>1. Slot(g, n) = f.write_buf
      BY <2>2, <2>5 DEF n
    <3>2. QED
      BY <2>2, <2>8, <3>1
  <2>10. \A i \in 1 .. n : Contents(g)[i] = Contents(f)[i]
    <3> SUFFICES ASSUME NEW i \in 1 .. n PROVE Contents(g)[i] = Contents(f)[i]
      OBVIOUS
    <3>1. i \in 1 .. n + 1 /\ i - 1 \in 0 .. n /\ i - 1 \in 0 .. n - 1
      BY <2>2
    <3>2. /\ Slot(g, i - 1) = Slot(f, i - 1)
          /\ Slot(f, i - 1) # f.write_buf
          /\ Slot(f, i - 1) \in 0 .. N - 1
      BY <2>5, <2>6, <2>7, <3>1
    <3>3. g.buf[Slot(f, i - 1)] = f.buf[Slot(f, i - 1)]
      BY <2>2, <3>2
    <3>4. QED
      BY <2>7, <2>8, <3>1, <3>2, <3>3
  <2>11. /\ Append(Contents(f), d) \in Seq(D)
         /\ Len(Append(Contents(f), d)) = n + 1
         /\ \A i \in 1 .. n : Append(Contents(f), d)[i] = Contents(f)[i]
         /\ Append(Contents(f), d)[n + 1] = d
    BY <2>2, <2>7
  <2>12. \A i \in 1 .. n + 1 : Contents(g)[i] = Append(Contents(f), d)[i]
    <3>1. \A i \in 1 .. n + 1 : i \in 1 .. n \/ i = n + 1
      BY <2>2
    <3>2. QED
      BY <2>9, <2>10, <2>11, <3>1
  <2>13. Contents(g) = Append(Contents(f), d)
    BY <2>8, <2>11, <2>12, SeqEqual
  <2>14. QED
    BY <1>2, <2>13 DEF g
<1>3. QED
  BY <1>1, <1>2

\* A get from a ring with values returns the first of them and leaves the
\* rest.
LEMMA GetTakesHead ==
    ASSUME NEW N \in Nat \ {0}, NEW D, NEW T, NEW f \in FifoType(N, D, T),
           f.write_buf = Slot(f, fifo32_status(f)),
           fifo32_status(f) > 0
    PROVE  /\ Contents(f) # << >>
           /\ GetReturns(f) = Head(Contents(f))
           /\ Contents(fifo32_get(f)) = Tail(Contents(f))
<1> DEFINE g == fifo32_get(f)
           n == fifo32_status(f)
<1>1. f.free # f.size
  BY DEF FifoType, fifo32_status
<1>2. g = [f EXCEPT !.read_buf = Advance(f.read_buf, f.size),
                    !.free = f.free + 1]
  BY <1>1 DEF fifo32_get
<1>3. /\ g.buf = f.buf
      /\ g.size = f.size
      /\ g.free = f.free + 1
      /\ g.read_buf = Advance(f.read_buf, f.size)
      /\ f.size = N
      /\ f.read_buf \in 0 .. N - 1
      /\ n \in 1 .. N
  BY <1>1, <1>2 DEF FifoType, fifo32_status
<1>4. g \in FifoType(N, D, T)
  BY GetProperties
<1>5. fifo32_status(g) = n - 1
  BY <1>3 DEF fifo32_status, FifoType
<1>6. \A i \in 0 .. n - 2 : Slot(g, i) = Slot(f, i + 1)
  BY <1>3 DEF Slot, Advance
<1>7. Slot(f, 0) = f.read_buf
  BY <1>3 DEF Slot
<1>8. /\ Contents(f) \in Seq(D)
      /\ Len(Contents(f)) = n
      /\ \A i \in 1 .. n : Contents(f)[i] = f.buf[Slot(f, i - 1)]
  BY ContentsType
<1>9. /\ Contents(g) \in Seq(D)
      /\ Len(Contents(g)) = n - 1
      /\ \A i \in 1 .. n - 1 : Contents(g)[i] = g.buf[Slot(g, i - 1)]
  BY <1>4, <1>5, ContentsType
<1> HIDE DEF g, n
<1>10. Contents(f) # << >>
  BY <1>3, <1>8
<1>11. GetReturns(f) = Head(Contents(f))
  <2>1. Contents(f)[1] = f.buf[f.read_buf]
    BY <1>3, <1>7, <1>8
  <2>2. Head(Contents(f)) = Contents(f)[1]
    BY <1>8, <1>10
  <2>3. QED
    BY <1>1, <2>1, <2>2 DEF GetReturns
<1>12. /\ Tail(Contents(f)) \in Seq(D)
       /\ Len(Tail(Contents(f))) = n - 1
       /\ \A i \in 1 .. n - 1 : Tail(Contents(f))[i] = Contents(f)[i + 1]
  BY <1>8, <1>10, HeadTailProperties
<1>13. \A i \in 1 .. n - 1 : Contents(g)[i] = Tail(Contents(f))[i]
  <2> SUFFICES ASSUME NEW i \in 1 .. n - 1
               PROVE  Contents(g)[i] = Tail(Contents(f))[i]
    OBVIOUS
  <2>1. i - 1 \in 0 .. n - 2 /\ i + 1 \in 1 .. n /\ (i - 1) + 1 = (i + 1) - 1
    BY <1>3
  <2>2. Slot(g, i - 1) = Slot(f, (i + 1) - 1)
    BY <1>6, <2>1
  <2>3. QED
    BY <1>3, <1>8, <1>9, <1>12, <2>1, <2>2
<1>14. Contents(g) = Tail(Contents(f))
  BY <1>9, <1>12, <1>13, SeqEqual
<1>15. QED
  BY <1>10, <1>11, <1>14 DEF g

\* The indices of a ring agree: its write index is behind the waiting values.
Ring(f) == f.write_buf = Slot(f, fifo32_status(f))

\* A put: unless the overrun flag is set after it, its value is the last one.
LEMMA PutRing ==
    ASSUME NEW N \in Nat \ {0}, NEW D, NEW T, NEW f \in FifoType(N, D, T), Ring(f), NEW d \in D
    PROVE  LET g == fifo32_put(f, d)
           IN  /\ g \in FifoType(N, D, T) /\ Ring(g)
               /\ f.free = 0 => Contents(g) = Contents(f) /\ g.flags = FLAGS_OVERRUN
               /\ f.free # 0 => Contents(g) = Append(Contents(f), d) /\ g.flags = f.flags
               /\ Contents(g) \in {Contents(f), Append(Contents(f), d)}
               /\ g.flags # FLAGS_OVERRUN =>
                      f.flags # FLAGS_OVERRUN /\ Contents(g) = Append(Contents(f), d)
<1> DEFINE g == fifo32_put(f, d)
<1>1. g \in FifoType(N, D, T) /\ Ring(g)
  BY PutProperties DEF Ring
<1>2. Contents(g) = IF f.free = 0 THEN Contents(f) ELSE Append(Contents(f), d)
  BY PutAppends DEF Ring
<1>3. g.flags = IF f.free = 0 THEN FLAGS_OVERRUN ELSE f.flags
  BY DEF fifo32_put, FifoType
<1> HIDE DEF g
<1>4. QED
  BY <1>1, <1>2, <1>3 DEF g

\* A get from a FIFO with values.
LEMMA GetRing ==
    ASSUME NEW N \in Nat \ {0}, NEW D, NEW T, NEW f \in FifoType(N, D, T), Ring(f),
           fifo32_status(f) > 0
    PROVE  LET g == fifo32_get(f)
           IN  /\ g \in FifoType(N, D, T) /\ Ring(g) /\ g.flags = f.flags
               /\ Contents(f) # << >> /\ GetReturns(f) = Head(Contents(f))
               /\ Contents(g) = Tail(Contents(f)) /\ GetReturns(f) \in D
<1> DEFINE g == fifo32_get(f)
<1>1. g \in FifoType(N, D, T) /\ Ring(g) /\ GetReturns(f) \in D
  BY GetProperties DEF Ring
<1>2. /\ Contents(f) # << >> /\ GetReturns(f) = Head(Contents(f))
      /\ Contents(g) = Tail(Contents(f))
  BY GetTakesHead DEF Ring
<1>3. g.flags = f.flags
  BY DEF fifo32_get, FifoType
<1> HIDE DEF g
<1>4. QED
  BY <1>1, <1>2, <1>3 DEF g
-----------------------------------------------------------------------------
IInv == TypeOK /\ RingExact /\ NoLostWakeup

USE SizeAssumption, DataAssumption, OwnerAssumption

-----------------------------------------------------------------------------
\* The initial states satisfy the invariant.
LEMMA InitIInv == Init => IInv
<1> SUFFICES ASSUME Init PROVE IInv
  OBVIOUS
<1>1. PICK memory \in [0 .. Size - 1 -> Data] : fifo = fifo32_init(Size, memory, Owner)
  BY DEF Init
<1>2. TypeOK
  BY <1>1 DEF Init, TypeOK, FifoType, fifo32_init, FLAGS_OVERRUN
<1>3. RingExact
  BY <1>1 DEF RingExact, Slot, fifo32_status, fifo32_init
<1>4. NoLostWakeup
  BY DEF Init, NoLostWakeup
<1>5. QED
  BY <1>2, <1>3, <1>4 DEF IInv

\* Every step preserves it.
LEMMA NextIInv == IInv /\ [Next]_vars => IInv'
<1> SUFFICES ASSUME IInv, [Next]_vars PROVE IInv'
  OBVIOUS
<1>0. /\ fifo \in FifoType(Size, Data, {Owner})
      /\ fifo.write_buf = Slot(fifo, fifo32_status(fifo))
      /\ flags \in {1, 2}
      /\ got \in Data \cup {-1}
      /\ flags = 1 => Owner # 0 /\ fifo32_status(fifo) = 0
  BY DEF IInv, TypeOK, RingExact, NoLostWakeup
<1>1. ASSUME NEW d \in Data, Put(d)
      PROVE  IInv'
  <2>1. /\ fifo' = fifo32_put(fifo, d)
        /\ flags' = IF Wakes(fifo, flags) THEN 2 ELSE flags
        /\ got' = got
    BY <1>1 DEF Put
  <2>2. TypeOK' /\ RingExact'
    <3>1. /\ fifo' \in FifoType(Size, Data, {Owner})
          /\ fifo'.write_buf = Slot(fifo', fifo32_status(fifo'))
      BY <1>0, <2>1, PutProperties
    <3>2. QED
      BY <1>0, <2>1, <3>1 DEF TypeOK, RingExact
  <2>3. NoLostWakeup'
    <3>1. CASE flags = 2
      BY <2>1, <3>1 DEF NoLostWakeup
    <3>2. CASE flags = 1
      <4>1. fifo.free = Size /\ fifo.task = Owner /\ Owner # 0
        BY <1>0, <3>2 DEF FifoType, fifo32_status
      <4>2. Wakes(fifo, flags)
        BY <3>2, <4>1 DEF Wakes
      <4>3. QED
        BY <2>1, <4>2 DEF NoLostWakeup
    <3>3. QED
      BY <1>0, <3>1, <3>2
  <2>4. QED
    BY <2>2, <2>3 DEF IInv
<1>2. CASE Read
  <2>1. /\ flags = 2
        /\ fifo32_status(fifo) > 0
        /\ got' = GetReturns(fifo)
        /\ fifo' = fifo32_get(fifo)
        /\ flags' = flags
    BY <1>2 DEF Read
  <2>2. TypeOK' /\ RingExact'
    BY <1>0, <2>1, GetProperties DEF TypeOK, RingExact
  <2>3. NoLostWakeup'
    BY <2>1 DEF NoLostWakeup
  <2>4. QED
    BY <2>2, <2>3 DEF IInv
<1>3. CASE Pause
  BY <1>0, <1>3 DEF IInv, TypeOK, RingExact, NoLostWakeup, Pause
<1>4. CASE UNCHANGED vars
  BY <1>0, <1>4 DEF IInv, TypeOK, RingExact, NoLostWakeup, vars
<1>5. QED
  BY <1>1, <1>2, <1>3, <1>4 DEF Next

-----------------------------------------------------------------------------
\* The state of the FIFO and of its reader is always well formed: fifo.c's
\* indices never leave the ring and its free count never leaves 0 .. Size.
THEOREM TypeCorrect == Spec => []TypeOK
<1>1. IInv => TypeOK
  BY DEF IInv
<1>2. QED
  BY InitIInv, NextIInv, <1>1, PTL DEF Spec

\* fifo.c keeps its write index behind exactly the values that wait, for a
\* ring of any size.
THEOREM RingStaysExact == Spec => []RingExact
<1>1. IInv => RingExact
  BY DEF IInv
<1>2. QED
  BY InitIInv, NextIInv, <1>1, PTL DEF Spec

\* The reader that tests fifo32_status and sleeps with interrupts off
\* (bootpack.c, console.c) never sleeps over a waiting value.
THEOREM WakeupNeverLost == Spec => []NoLostWakeup
<1>1. IInv => NoLostWakeup
  BY DEF IInv
<1>2. QED
  BY InitIInv, NextIInv, <1>1, PTL DEF Spec
-----------------------------------------------------------------------------
-----------------------------------------------------------------------------
\* An initial state of the ring is an initial state of the queue.
LEMMA InitImplements == Init => Queue!Init
<1> SUFFICES ASSUME Init PROVE Queue!Init
  OBVIOUS
<1>1. PICK memory \in [0 .. Size - 1 -> Data] : fifo = fifo32_init(Size, memory, Owner)
  BY DEF Init
<1>2. fifo \in FifoType(Size, Data, {Owner}) /\ fifo32_status(fifo) = 0
  BY <1>1 DEF FifoType, fifo32_init, fifo32_status, FLAGS_OVERRUN
<1>3. Contents(fifo) \in Seq(Data) /\ Len(Contents(fifo)) = 0
  BY <1>2, ContentsType
<1>4. Contents(fifo) = << >>
  BY <1>3, EmptySeq
<1>5. fifo.flags # FLAGS_OVERRUN
  BY <1>1 DEF fifo32_init, FLAGS_OVERRUN
<1>6. QED
  BY <1>4, <1>5 DEF Init, Queue!Init

\* Every step of the ring is a step of the queue or leaves it alone.
LEMMA StepImplements == IInv /\ [Next]_vars => [Queue!Next]_(Queue!vars)
<1> SUFFICES ASSUME IInv, [Next]_vars PROVE [Queue!Next]_(Queue!vars)
  OBVIOUS
<1>0. /\ fifo \in FifoType(Size, Data, {Owner})
      /\ fifo.write_buf = Slot(fifo, fifo32_status(fifo))
      /\ flags \in {1, 2}
      /\ fifo.size = Size /\ fifo.free \in 0 .. Size
      /\ fifo.flags \in {0, FLAGS_OVERRUN}
      /\ fifo.task = Owner
      /\ flags = 1 => Owner # 0 /\ fifo32_status(fifo) = 0
      /\ Len(Contents(fifo)) = fifo32_status(fifo)
      /\ Contents(fifo) \in Seq(Data)
  <2>1. fifo \in FifoType(Size, Data, {Owner})
    BY DEF IInv, TypeOK
  <2>2. Len(Contents(fifo)) = fifo32_status(fifo) /\ Contents(fifo) \in Seq(Data)
    BY <2>1, ContentsType
  <2>3. QED
    BY <2>1, <2>2 DEF IInv, TypeOK, RingExact, NoLostWakeup, FifoType
<1>1. ASSUME NEW d \in Data, Put(d)
      PROVE  Queue!Next
  <2>1. /\ fifo' = fifo32_put(fifo, d)
        /\ flags' = IF Wakes(fifo, flags) THEN 2 ELSE flags
        /\ got' = got
    BY <1>1 DEF Put
  <2>2. CASE fifo.free = 0
    <3>1. /\ Contents(fifo') = Contents(fifo)
          /\ fifo'.flags = FLAGS_OVERRUN
          /\ flags' = flags
      <4>1. fifo' = [fifo EXCEPT !.flags = FLAGS_OVERRUN]
        BY <2>1, <2>2 DEF fifo32_put
      <4>2. Contents(fifo') = Contents(fifo)
        BY <1>0, <2>1, <2>2, PutAppends
      <4>3. fifo'.flags = FLAGS_OVERRUN
        BY <1>0, <4>1 DEF FifoType
      <4>4. QED
        BY <2>1, <2>2, <4>2, <4>3 DEF Wakes
    <3>2. Len(Contents(fifo)) = Size
      BY <1>0, <2>2 DEF fifo32_status
    <3>3. Queue!Refuse
      BY <2>1, <3>1, <3>2 DEF Queue!Refuse
    <3>4. QED
      BY <3>3 DEF Queue!Next
  <2>3. CASE fifo.free # 0
    <3>1. /\ Contents(fifo') = Append(Contents(fifo), d)
          /\ fifo'.flags = fifo.flags
      <4>1. fifo' = [fifo EXCEPT !.buf[fifo.write_buf] = d,
                                 !.write_buf = Advance(fifo.write_buf, fifo.size),
                                 !.free = fifo.free - 1]
        BY <2>1, <2>3 DEF fifo32_put
      <4>2. fifo'.flags = fifo.flags
        BY <1>0, <4>1 DEF FifoType
      <4>3. QED
        BY <1>0, <2>1, <2>3, <4>2, PutAppends
    <3>2. flags' = 2
      BY <1>0, <2>1, <2>3 DEF Wakes
    <3>3. Len(Contents(fifo)) < Size
      BY <1>0, <2>3 DEF fifo32_status
    <3>4. Queue!Accept(d)
      BY <2>1, <3>1, <3>2, <3>3 DEF Queue!Accept
    <3>5. QED
      BY <3>4 DEF Queue!Next
  <2>4. QED
    BY <2>2, <2>3
<1>2. CASE Read
  <2>1. /\ flags = 2
        /\ fifo32_status(fifo) > 0
        /\ got' = GetReturns(fifo)
        /\ fifo' = fifo32_get(fifo)
        /\ flags' = flags
    BY <1>2 DEF Read
  <2>2. /\ Contents(fifo) # << >>
        /\ got' = Head(Contents(fifo))
        /\ Contents(fifo') = Tail(Contents(fifo))
    BY <1>0, <2>1, GetTakesHead
  <2>3. fifo'.flags = fifo.flags
    <3>1. fifo.free # fifo.size
      BY <1>0, <2>1 DEF fifo32_status
    <3>2. fifo' = [fifo EXCEPT !.read_buf = Advance(fifo.read_buf, fifo.size),
                               !.free = fifo.free + 1]
      BY <2>1, <3>1 DEF fifo32_get
    <3>3. QED
      BY <1>0, <3>2 DEF FifoType
  <2>4. Queue!Take
    BY <2>1, <2>2, <2>3 DEF Queue!Take
  <2>5. QED
    BY <2>4 DEF Queue!Next
<1>3. CASE Pause
  <2>1. /\ flags = 2
        /\ fifo32_status(fifo) = 0
        /\ flags' = IF Owner # 0 THEN 1 ELSE flags
        /\ got' = -1
        /\ fifo' = fifo
    BY <1>3 DEF Pause
  <2>2. Contents(fifo) = << >>
    BY <1>0, <2>1, EmptySeq
  <2>3. Queue!FindNothing(Owner # 0)
    BY <2>1, <2>2 DEF Queue!FindNothing
  <2>4. QED
    BY <2>3 DEF Queue!Next
<1>4. CASE UNCHANGED vars
  BY <1>4 DEF vars, Queue!vars
<1>5. QED
  BY <1>1, <1>2, <1>3, <1>4 DEF Next

\* fifo.c implements a bounded queue: every accepted value is handed over
\* exactly once and in order, a refused one is noted, and the reader rests
\* only when nothing waits.
THEOREM FifoIsAQueue == Spec => Implements
<1>1. QED
  BY InitIInv, NextIInv, InitImplements, StepImplements, PTL
     DEF Spec, Implements, Queue!Spec
=============================================================================
