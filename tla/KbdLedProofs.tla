---------------------------- MODULE KbdLedProofs ----------------------------
(***************************************************************************)
(* Proofs about KbdLed.tla, for FIFOs of any size, any lock keys and any   *)
(* number of strokes.                                                      *)
(*                                                                         *)
(* As long as task_a's FIFO has dropped nothing, the byte it waits for is  *)
(* in exactly one place, and what the keyboard has still to take consists  *)
(* of commands and of lamps that follow a command.  The first is needed    *)
(* for the second: a byte that is accepted must not be asked for again.    *)
(* As long as keycmd has dropped nothing either, the bytes still to take   *)
(* end in key_leds, so the keyboard's fold over them ends with these.      *)
(***************************************************************************)
EXTENDS KbdLed, SequenceTheorems, FiniteSetTheorems, WellFoundedInduction, TLAPS

-----------------------------------------------------------------------------
\* The lemmas about a ring are those of FifoProofs.tla, which are about a ring
\* of any size with any values, whatever that module's parameters are.
F == INSTANCE FifoProofs WITH Size <- 1, Data <- {0}, Owner <- 0,
                              fifo <- keycmd, flags <- 2, got <- -1

\* The indices of a ring agree: its write index is behind the waiting values.
Ring(f) == f.write_buf = Slot(f, fifo32_status(f))

\* FifoProofs.tla's assumptions hold for these parameters.
LEMMA FParameters == 1 \in Nat \ {0} /\ ({0} \subseteq Nat /\ {0} # {}) /\ 0 \in {0, 1}
OBVIOUS

\* FifoProofs.tla means the same functions of fifo.c.
LEMMA SameFifo ==
    /\ \A f, d : F!fifo32_put(f, d) = fifo32_put(f, d)
    /\ \A f : /\ F!fifo32_get(f) = fifo32_get(f)
              /\ F!GetReturns(f) = GetReturns(f)
              /\ F!fifo32_status(f) = fifo32_status(f)
              /\ F!Contents(f) = Contents(f)
              /\ F!Ring(f) <=> Ring(f)
    /\ \A f, i : F!Slot(f, i) = Slot(f, i)
    /\ \A N, D, T : F!FifoType(N, D, T) = FifoType(N, D, T)
    /\ F!FLAGS_OVERRUN = FLAGS_OVERRUN
<1>1. /\ \A i, n : F!Advance(i, n) = Advance(i, n)
      /\ F!FLAGS_OVERRUN = FLAGS_OVERRUN
      /\ \A f : F!fifo32_status(f) = fifo32_status(f)
      /\ \A f, i : F!Slot(f, i) = Slot(f, i)
  BY DEF F!Advance, Advance, F!FLAGS_OVERRUN, FLAGS_OVERRUN,
         F!fifo32_status, fifo32_status, F!Slot, Slot
<1>2. \A f, d : F!fifo32_put(f, d) = fifo32_put(f, d)
  BY <1>1 DEF F!fifo32_put, fifo32_put
<1>3. \A f : F!fifo32_get(f) = fifo32_get(f) /\ F!GetReturns(f) = GetReturns(f)
  BY <1>1 DEF F!fifo32_get, fifo32_get, F!GetReturns, GetReturns
<1>4. \A f : F!Contents(f) = Contents(f)
  BY <1>1 DEF F!Contents, Contents
<1>5. \A f : F!Ring(f) <=> Ring(f)
  BY <1>1 DEF F!Ring, Ring
<1>6. \A N, D, T : F!FifoType(N, D, T) = FifoType(N, D, T)
  BY <1>1 DEF F!FifoType, FifoType
<1>7. QED
  BY <1>1, <1>2, <1>3, <1>4, <1>5, <1>6

\* The waiting values of a well-formed ring are a sequence of values.
LEMMA ContentsType ==
    ASSUME NEW N \in Nat \ {0}, NEW D, NEW T, NEW f \in FifoType(N, D, T)
    PROVE  /\ fifo32_status(f) \in 0 .. N
           /\ Contents(f) \in Seq(D)
           /\ Len(Contents(f)) = fifo32_status(f)
<1>1. f \in F!FifoType(N, D, T)
  BY SameFifo
<1>2. /\ F!fifo32_status(f) \in 0 .. N
      /\ F!Contents(f) \in Seq(D)
      /\ Len(F!Contents(f)) = F!fifo32_status(f)
  BY <1>1, FParameters, F!ContentsType
<1>3. F!fifo32_status(f) = fifo32_status(f) /\ F!Contents(f) = Contents(f)
  BY SameFifo
<1>4. QED
  BY <1>2, <1>3

\* A put: unless the overrun flag is set after it, its value is the last one.
LEMMA PutRing ==
    ASSUME NEW N \in Nat \ {0}, NEW D, NEW T, NEW f \in FifoType(N, D, T), Ring(f), NEW d \in D
    PROVE  LET g == fifo32_put(f, d)
           IN  /\ g \in FifoType(N, D, T) /\ Ring(g)
               /\ f.free = 0 => Contents(g) = Contents(f) /\ g.flags = FLAGS_OVERRUN
               /\ f.free # 0 => Contents(g) = Append(Contents(f), d) /\ g.flags = f.flags
               /\ Contents(g) \in {Contents(f), Append(Contents(f), d)}
               /\ g.flags # FLAGS_OVERRUN =>
                      f.flags # FLAGS_OVERRUN /\ Contents(g) = Append(Contents(f), d)
<1>1. f \in F!FifoType(N, D, T) /\ F!Ring(f)
  BY SameFifo
<1> DEFINE g == F!fifo32_put(f, d)
<1>2. /\ g \in F!FifoType(N, D, T) /\ F!Ring(g)
      /\ f.free = 0 => F!Contents(g) = F!Contents(f) /\ g.flags = F!FLAGS_OVERRUN
      /\ f.free # 0 => F!Contents(g) = Append(F!Contents(f), d) /\ g.flags = f.flags
      /\ F!Contents(g) \in {F!Contents(f), Append(F!Contents(f), d)}
      /\ g.flags # F!FLAGS_OVERRUN =>
             f.flags # F!FLAGS_OVERRUN /\ F!Contents(g) = Append(F!Contents(f), d)
  BY <1>1, FParameters, F!PutRing
<1>3. /\ g = fifo32_put(f, d) /\ F!FLAGS_OVERRUN = FLAGS_OVERRUN
      /\ F!Contents(f) = Contents(f) /\ F!Contents(g) = Contents(g)
      /\ F!Ring(g) <=> Ring(g)
      /\ F!FifoType(N, D, T) = FifoType(N, D, T)
  BY SameFifo
<1> HIDE DEF g
<1>4. QED
  BY <1>2, <1>3

\* A get from a FIFO with values.
LEMMA GetRing ==
    ASSUME NEW N \in Nat \ {0}, NEW D, NEW T, NEW f \in FifoType(N, D, T), Ring(f),
           fifo32_status(f) > 0
    PROVE  LET g == fifo32_get(f)
           IN  /\ g \in FifoType(N, D, T) /\ Ring(g) /\ g.flags = f.flags
               /\ Contents(f) # << >> /\ GetReturns(f) = Head(Contents(f))
               /\ Contents(g) = Tail(Contents(f)) /\ GetReturns(f) \in D
<1>1. f \in F!FifoType(N, D, T) /\ F!Ring(f) /\ F!fifo32_status(f) > 0
  BY SameFifo
<1> DEFINE g == F!fifo32_get(f)
<1>2. /\ g \in F!FifoType(N, D, T) /\ F!Ring(g) /\ g.flags = f.flags
      /\ F!Contents(f) # << >> /\ F!GetReturns(f) = Head(F!Contents(f))
      /\ F!Contents(g) = Tail(F!Contents(f)) /\ F!GetReturns(f) \in D
  BY <1>1, FParameters, F!GetRing
<1>3. /\ g = fifo32_get(f) /\ F!GetReturns(f) = GetReturns(f)
      /\ F!Contents(f) = Contents(f) /\ F!Contents(g) = Contents(g)
      /\ F!Ring(g) <=> Ring(g)
      /\ F!FifoType(N, D, T) = FifoType(N, D, T)
  BY SameFifo
<1> HIDE DEF g
<1>4. QED
  BY <1>2, <1>3
-----------------------------------------------------------------------------

NoAnswer(s) == \A i \in DOMAIN s : s[i] \notin {Ack, Resend}
OneAnswer(s, a) ==
    \E i \in DOMAIN s : s[i] = a /\ \A j \in DOMAIN s \ {i} : s[j] \notin {Ack, Resend}

\* Where the byte that task_a has taken from keycmd is, or its answer.
NotSent == /\ keycmd_wait = None /\ wire = None /\ kbd.answer = None
           /\ NoAnswer(Contents(fifo))
OnWire == /\ keycmd_wait \in Byte /\ wire = keycmd_wait /\ kbd.answer = None
          /\ NoAnswer(Contents(fifo))
Answered(a) == /\ keycmd_wait \in Byte /\ wire = None /\ kbd.answer = a
               /\ NoAnswer(Contents(fifo))
Coming(a) == /\ keycmd_wait \in Byte /\ wire = None /\ kbd.answer = None
             /\ OneAnswer(Contents(fifo), a)

\* Commands and lamps that follow one, for a keyboard that expects e.
Led(s, e) == \A i \in DOMAIN s :
    s[i] = KEYCMD_LED \/ IF i = 1 THEN e = "lamps" ELSE s[i - 1] = KEYCMD_LED
After(byte) == IF byte = KEYCMD_LED THEN "lamps" ELSE "command"
Taken(byte, e) == byte = KEYCMD_LED \/ e = "lamps"

\* The keyboard has taken every byte that was sent, or one is still to be taken.
Settled == /\ NotSent \/ Answered(Ack) \/ Coming(Ack)
           /\ Led(Contents(keycmd), kbd.expects)
Pending == /\ OnWire \/ Answered(Resend) \/ Coming(Resend)
           /\ Taken(keycmd_wait, kbd.expects)
           /\ Led(Contents(keycmd), After(keycmd_wait))

Typed == TypeOK /\ Ring(keycmd) /\ Ring(fifo)
IInv == Typed /\ (~ MessageLost => Settled \/ Pending)

-----------------------------------------------------------------------------
(* Sequences of messages and of bytes.                                      *)

\* A message added behind others.
LEMMA AnswersAppend ==
    ASSUME NEW s \in Seq(Message), NEW m \in Message
    PROVE  /\ NoAnswer(s) /\ m \notin {Ack, Resend} => NoAnswer(Append(s, m))
           /\ NoAnswer(s) /\ m \in {Ack, Resend} => OneAnswer(Append(s, m), m)
           /\ \A a : OneAnswer(s, a) /\ m \notin {Ack, Resend} => OneAnswer(Append(s, m), a)
<1> DEFINE t == Append(s, m)
<1>1. /\ DOMAIN t = DOMAIN s \cup {Len(s) + 1} /\ Len(s) + 1 \notin DOMAIN s
      /\ t[Len(s) + 1] = m /\ \A i \in DOMAIN s : t[i] = s[i]
  OBVIOUS
<1> HIDE DEF t
<1> PICK n : n = Len(s) + 1
  OBVIOUS
<1>2. /\ DOMAIN t = DOMAIN s \cup {n} /\ n \notin DOMAIN s
      /\ t[n] = m /\ \A i \in DOMAIN s : t[i] = s[i]
  BY <1>1
<1>3. NoAnswer(s) /\ m \notin {Ack, Resend} => NoAnswer(t)
  BY ONLY <1>2 DEF NoAnswer
<1>4. NoAnswer(s) /\ m \in {Ack, Resend} => OneAnswer(t, m)
  BY ONLY <1>2 DEF NoAnswer, OneAnswer
<1>5. ASSUME NEW a, OneAnswer(s, a), m \notin {Ack, Resend} PROVE OneAnswer(t, a)
  BY ONLY <1>2, <1>5 DEF OneAnswer
<1>6. QED
  BY <1>3, <1>4, <1>5 DEF t

\* The rest of a sequence, element by element.
LEMMA TailAt ==
    ASSUME NEW S, NEW s \in Seq(S), s # << >>
    PROVE  /\ Head(s) = s[1] /\ 1 \in DOMAIN s /\ Head(s) \in S /\ Tail(s) \in Seq(S)
           /\ \A i \in DOMAIN Tail(s) : i \in Nat /\ i + 1 \in DOMAIN s /\ Tail(s)[i] = s[i + 1]
           /\ \A i \in DOMAIN s : i = 1 \/ (i - 1 \in DOMAIN Tail(s) /\ Tail(s)[i - 1] = s[i])
           /\ DOMAIN s \subseteq Nat
OBVIOUS

\* The first message taken.
LEMMA AnswersTail ==
    ASSUME NEW s \in Seq(Message), s # << >>
    PROVE  /\ NoAnswer(s) => Head(s) \notin {Ack, Resend} /\ NoAnswer(Tail(s))
           /\ \A a : OneAnswer(s, a) /\ Head(s) \in {Ack, Resend}
                         => Head(s) = a /\ NoAnswer(Tail(s))
           /\ \A a : OneAnswer(s, a) /\ Head(s) \notin {Ack, Resend} /\ a \in {Ack, Resend}
                         => OneAnswer(Tail(s), a)
<1>1. /\ Head(s) = s[1] /\ 1 \in DOMAIN s
      /\ \A i \in DOMAIN Tail(s) : i \in Nat /\ i + 1 \in DOMAIN s /\ Tail(s)[i] = s[i + 1]
      /\ \A i \in DOMAIN s : i = 1 \/ (i - 1 \in DOMAIN Tail(s) /\ Tail(s)[i - 1] = s[i])
      /\ DOMAIN s \subseteq Nat /\ 0 \notin DOMAIN s
  BY TailAt
<1>2. NoAnswer(s) => Head(s) \notin {Ack, Resend} /\ NoAnswer(Tail(s))
  BY <1>1 DEF NoAnswer
<1>3. ASSUME NEW a, OneAnswer(s, a), Head(s) \in {Ack, Resend}
      PROVE  Head(s) = a /\ NoAnswer(Tail(s))
  <2>1. PICK i \in DOMAIN s : s[i] = a /\ \A j \in DOMAIN s \ {i} : s[j] \notin {Ack, Resend}
    BY <1>3 DEF OneAnswer
  <2>2. i = 1
    BY <1>1, <1>3, <2>1
  <2>3. \A j \in DOMAIN Tail(s) : j + 1 # 1
    BY <1>1
  <2>4. QED
    BY <1>1, <2>1, <2>2, <2>3 DEF NoAnswer
<1>4. ASSUME NEW a, OneAnswer(s, a), Head(s) \notin {Ack, Resend}, a \in {Ack, Resend}
      PROVE  OneAnswer(Tail(s), a)
  <2>1. PICK i \in DOMAIN s : s[i] = a /\ \A j \in DOMAIN s \ {i} : s[j] \notin {Ack, Resend}
    BY <1>4 DEF OneAnswer
  <2>2. i # 1 /\ i - 1 \in DOMAIN Tail(s) /\ Tail(s)[i - 1] = a
    BY <1>1, <1>4, <2>1
  <2>3. ASSUME NEW j \in DOMAIN Tail(s) \ {i - 1} PROVE Tail(s)[j] \notin {Ack, Resend}
    <3>1. j + 1 \in DOMAIN s /\ j + 1 # i /\ Tail(s)[j] = s[j + 1]
      BY <1>1
    <3>2. QED
      BY <2>1, <3>1
  <2>4. QED
    BY <2>2, <2>3 DEF OneAnswer
<1>5. QED
  BY <1>2, <1>3, <1>4

\* A byte added behind others, a command anywhere and lamps behind a command.
LEMMA LedAppend ==
    ASSUME NEW s \in Seq(Byte), NEW e, Led(s, e), NEW b \in Byte,
           b = KEYCMD_LED \/ (s # << >> /\ s[Len(s)] = KEYCMD_LED)
    PROVE  Led(Append(s, b), e)
<1> DEFINE t == Append(s, b)
<1>1. /\ DOMAIN t = 1 .. Len(s) + 1 /\ DOMAIN s = 1 .. Len(s) /\ Len(s) \in Nat
      /\ t[Len(s) + 1] = b /\ \A i \in DOMAIN s : t[i] = s[i]
  OBVIOUS
<1>2. s # << >> => Len(s) > 0
  OBVIOUS
<1> HIDE DEF t
<1>3. ASSUME NEW i \in DOMAIN t
      PROVE  t[i] = KEYCMD_LED \/ IF i = 1 THEN e = "lamps" ELSE t[i - 1] = KEYCMD_LED
  <2>1. CASE i = Len(s) + 1
    BY <1>1, <1>2, <2>1
  <2>2. CASE i # Len(s) + 1
    <3>1. i \in DOMAIN s /\ (i # 1 => i - 1 \in DOMAIN s)
      BY <1>1, <2>2
    <3>2. QED
      BY <1>1, <3>1 DEF Led
  <2>3. QED
    BY <2>1, <2>2
<1>4. QED
  BY <1>3 DEF Led, t

\* The first byte taken.
LEMMA LedTail ==
    ASSUME NEW s \in Seq(Byte), NEW e, Led(s, e), s # << >>
    PROVE  Taken(Head(s), e) /\ Led(Tail(s), After(Head(s)))
<1>1. /\ Head(s) = s[1] /\ 1 \in DOMAIN s
      /\ \A i \in DOMAIN Tail(s) : i \in Nat /\ i + 1 \in DOMAIN s /\ Tail(s)[i] = s[i + 1]
      /\ 0 \notin DOMAIN Tail(s)
  BY TailAt
<1>2. Taken(Head(s), e)
  BY <1>1 DEF Led, Taken
<1>3. ASSUME NEW i \in DOMAIN Tail(s)
      PROVE  \/ Tail(s)[i] = KEYCMD_LED
             \/ IF i = 1 THEN After(Head(s)) = "lamps" ELSE Tail(s)[i - 1] = KEYCMD_LED
  <2>1. /\ i \in Nat /\ i # 0 /\ i + 1 \in DOMAIN s /\ i + 1 # 1 /\ (i + 1) - 1 = i
        /\ Tail(s)[i] = s[i + 1]
    BY <1>1
  <2>2. s[i + 1] = KEYCMD_LED \/ s[i] = KEYCMD_LED
    BY <2>1 DEF Led
  <2>3. CASE i = 1
    BY <1>1, <2>1, <2>2, <2>3 DEF After
  <2>4. CASE i # 1
    <3>1. i - 1 \in DOMAIN Tail(s) /\ (i - 1) + 1 = i
      BY <2>1, <2>4
    <3>2. Tail(s)[i - 1] = s[i]
      BY <1>1, <3>1
    <3>3. QED
      BY <2>1, <2>2, <2>4, <3>2
  <2>5. QED
    BY <2>3, <2>4
<1>4. QED
  BY <1>2, <1>3 DEF Led

\* The first byte given back.
LEMMA LedCons ==
    ASSUME NEW s \in Seq(Byte), NEW b \in Byte, NEW e, Taken(b, e), Led(s, After(b))
    PROVE  Led(<<b>> \o s, e)
<1> DEFINE t == <<b>> \o s
<1>1. /\ DOMAIN t = 1 .. Len(s) + 1 /\ DOMAIN s = 1 .. Len(s) /\ Len(s) \in Nat
      /\ t[1] = b /\ \A i \in 1 .. Len(s) : t[i + 1] = s[i]
  OBVIOUS
<1> HIDE DEF t
<1>2. ASSUME NEW i \in DOMAIN t
      PROVE  t[i] = KEYCMD_LED \/ IF i = 1 THEN e = "lamps" ELSE t[i - 1] = KEYCMD_LED
  <2>1. CASE i = 1
    BY <1>1, <2>1 DEF Taken
  <2>2. CASE i # 1
    <3>1. i \in Int /\ i - 1 \in 1 .. Len(s) /\ (i - 1) + 1 = i
      BY <1>1, <2>2
    <3>2. t[i] = s[i - 1]
      BY <1>1, <3>1
    <3>3. \/ s[i - 1] = KEYCMD_LED
          \/ IF i - 1 = 1 THEN After(b) = "lamps" ELSE s[(i - 1) - 1] = KEYCMD_LED
      BY <1>1, <3>1 DEF Led
    <3>4. CASE i - 1 = 1
      BY <1>1, <2>2, <3>2, <3>3, <3>4 DEF After
    <3>5. CASE i - 1 # 1
      <4>1. (i - 1) - 1 \in 1 .. Len(s) /\ ((i - 1) - 1) + 1 = i - 1
        BY <3>1, <3>5
      <4>2. t[i - 1] = s[(i - 1) - 1]
        BY <1>1, <4>1
      <4>3. QED
        BY <2>2, <3>2, <3>3, <3>5, <4>2
    <3>6. QED
      BY <3>4, <3>5
  <2>3. QED
    BY <2>1, <2>2
<1>3. QED
  BY <1>2 DEF Led, t

-----------------------------------------------------------------------------
(* The two FIFOs.                                                           *)

\* Neither FIFO is empty.
LEMMA Sizes == CmdSize \in Nat \ {0} /\ FifoSize \in Nat \ {0}
BY SizesAssumption

\* Answers, lock keys and other messages are told apart, and so are bytes and None.
LEMMA Values ==
    /\ KEYCMD_LED \in Byte /\ None \notin Byte /\ \A b \in Byte : ~ (b < 0)
    /\ Ack \in Message /\ Resend \in Message /\ Other \in Message /\ Ack # Resend
    /\ None \notin {Ack, Resend} /\ Other \notin {Ack, Resend}
    /\ \A m \in LockKeys : m \in Message /\ m \notin {Ack, Resend}
BY KeysAssumption DEF KEYCMD_LED, Byte, Lamps, None, Message, Ack, Resend, Other

\* A lock key turns one lamp on or off.
LEMMA FlipLamps ==
    ASSUME NEW leds \in Lamps, NEW m \in LockKeys
    PROVE  Flip(leds, m) \in Lamps
<1>1. leds \in {0, 1, 2, 3, 4, 5, 6, 7} /\ m \in {1, 2, 4}
  BY KeysAssumption DEF Lamps
<1>2. QED
  BY <1>1 DEF Flip, Lamps

\* The two puts of lamps keep the FIFO's shape, and its commands whole.
LEMMA LedsPut ==
    ASSUME NEW q \in FifoType(CmdSize, Byte, {0}), Ring(q), NEW leds \in Lamps
    PROVE  LET r == PutLeds(q, leds)
           IN  /\ r \in FifoType(CmdSize, Byte, {0}) /\ Ring(r)
               /\ \A e : Led(Contents(q), e) => Led(Contents(r), e)
<1> DEFINE q1 == fifo32_put(q, KEYCMD_LED)
           r == fifo32_put(q1, leds)
<1>0. leds \in Byte /\ KEYCMD_LED \in Byte
  BY Values DEF Byte
<1>1. /\ q1 \in FifoType(CmdSize, Byte, {0}) /\ Ring(q1)
      /\ Contents(q1) \in {Contents(q), Append(Contents(q), KEYCMD_LED)}
  BY <1>0, Sizes, PutRing
<1>2. r \in FifoType(CmdSize, Byte, {0}) /\ Ring(r)
  BY <1>0, <1>1, Sizes, PutRing
<1>3. /\ Contents(q1) = IF q.free = 0 THEN Contents(q) ELSE Append(Contents(q), KEYCMD_LED)
      /\ Contents(r) = IF q1.free = 0 THEN Contents(q1) ELSE Append(Contents(q1), leds)
  BY <1>0, <1>1, Sizes, PutRing
<1>4. q.free = 0 => q1.free = 0
  BY DEF fifo32_put, FifoType
<1>5. PICK s : s = Contents(q) /\ s \in Seq(Byte)
  BY Sizes, ContentsType
<1>6. PutLeds(q, leds) = r
  BY DEF PutLeds
<1> HIDE DEF q1, r
<1>7. ASSUME NEW e, Led(s, e) PROVE Led(Contents(r), e)
  <2>1. CASE q.free = 0
    BY <1>3, <1>4, <1>5, <1>7, <2>1
  <2>2. CASE q.free # 0
    <3>1. PICK t : t = Append(s, KEYCMD_LED)
      OBVIOUS
    <3>2. t \in Seq(Byte) /\ t # << >> /\ t[Len(t)] = KEYCMD_LED
      BY <1>0, <1>5, <3>1
    <3>3. Led(t, e)
      BY <1>0, <1>5, <1>7, <3>1, LedAppend
    <3>4. Led(Append(t, leds), e)
      BY <1>0, <3>2, <3>3, LedAppend
    <3>5. Contents(r) \in {t, Append(t, leds)}
      BY <1>3, <1>5, <2>2, <3>1
    <3>6. QED
      BY <3>3, <3>4, <3>5
  <2>3. QED
    BY <2>1, <2>2
<1>8. QED
  BY <1>2, <1>5, <1>6, <1>7

-----------------------------------------------------------------------------
(* The invariant.                                                           *)

\* At first nothing is under way and both FIFOs are empty.
LEMMA InitIInv == Init => IInv
<1> SUFFICES ASSUME Init PROVE IInv
  OBVIOUS
<1> DEFINE q == fifo32_init(CmdSize, [i \in 0 .. CmdSize - 1 |-> 0], 0)
<1>1. /\ q \in FifoType(CmdSize, Byte, {0}) /\ Ring(q) /\ fifo32_status(q) = 0
      /\ fifo \in FifoType(FifoSize, Message, {1}) /\ Ring(fifo) /\ fifo32_status(fifo) = 0
  <2>1. 0 \in Byte /\ 0 \in Message
    BY DEF Byte, Lamps, Message, Other
  <2>2. q \in FifoType(CmdSize, Byte, {0}) /\ Ring(q) /\ fifo32_status(q) = 0
    BY <2>1, Sizes DEF fifo32_init, FifoType, Ring, Slot, fifo32_status, FLAGS_OVERRUN
  <2>3. fifo = fifo32_init(FifoSize, [i \in 0 .. FifoSize - 1 |-> 0], 1)
    BY DEF Init
  <2>4. fifo \in FifoType(FifoSize, Message, {1}) /\ Ring(fifo) /\ fifo32_status(fifo) = 0
    BY <2>1, <2>3, Sizes DEF fifo32_init, FifoType, Ring, Slot, fifo32_status, FLAGS_OVERRUN
  <2>5. QED
    BY <2>2, <2>4
<1>2. key_leds \in Lamps /\ keycmd = PutLeds(q, key_leds)
  BY LedsAssumption DEF Init, Lamps
<1> HIDE DEF q
<1>3. Contents(q) = << >> /\ Contents(fifo) = << >>
  BY <1>1, Sizes, ContentsType, EmptySeq
<1>4. \A e : Led(<< >>, e)
  BY DEF Led
<1>5. /\ keycmd \in FifoType(CmdSize, Byte, {0}) /\ Ring(keycmd)
      /\ Led(Contents(keycmd), kbd.expects)
  BY <1>1, <1>2, <1>3, <1>4, LedsPut
<1>6. NotSent
  <2>1. NoAnswer(<< >>)
    BY DEF NoAnswer
  <2>2. QED
    BY <1>3, <2>1 DEF Init, NotSent
<1>7. TypeOK
  <2>1. kbd \in [lamps : Lamps, expects : {"command", "lamps"}, answer : {None, Ack, Resend}]
    BY LedsAssumption DEF Init, Lamps
  <2>2. keycmd_wait = None /\ flags = 2 /\ at = "send" /\ wire = None /\ strokes = 0
    BY DEF Init
  <2>3. QED
    BY <1>1, <1>2, <1>5, <2>1, <2>2, KeysAssumption DEF TypeOK
<1>8. QED
  BY <1>1, <1>5, <1>6, <1>7 DEF IInv, Typed, Settled

\* What an interrupt does to task_a's FIFO.
LEMMA InterruptRing ==
    ASSUME Typed, NEW m \in Message, Interrupt(m)
    PROVE  /\ fifo' \in FifoType(FifoSize, Message, {1}) /\ Ring(fifo')
           /\ flags' \in {1, 2}
           /\ Contents(fifo) \in Seq(Message)
           /\ ~ MessageLost' => ~ MessageLost /\ Contents(fifo') = Append(Contents(fifo), m)
<1>1. /\ fifo \in FifoType(FifoSize, Message, {1}) /\ Ring(fifo) /\ flags \in {1, 2}
      /\ fifo' = fifo32_put(fifo, m)
      /\ flags' = IF Wakes(fifo, flags) THEN 2 ELSE flags
  BY DEF Typed, TypeOK, Interrupt
<1>2. fifo' \in FifoType(FifoSize, Message, {1}) /\ Ring(fifo')
  BY <1>1, Sizes, PutRing
<1>3. fifo'.flags # FLAGS_OVERRUN =>
          fifo.flags # FLAGS_OVERRUN /\ Contents(fifo') = Append(Contents(fifo), m)
  BY <1>1, Sizes, PutRing
<1>4. Contents(fifo) \in Seq(Message)
  BY <1>1, Sizes, ContentsType
<1>5. QED
  BY <1>1, <1>2, <1>3, <1>4 DEF MessageLost

\* What task_a's reading does to it.
LEMMA TakeRing ==
    ASSUME Typed, NEW m, Take(m)
    PROVE  /\ fifo' \in FifoType(FifoSize, Message, {1}) /\ Ring(fifo')
           /\ Contents(fifo) \in Seq(Message) /\ Contents(fifo) # << >>
           /\ m = Head(Contents(fifo)) /\ Contents(fifo') = Tail(Contents(fifo))
           /\ MessageLost' <=> MessageLost
<1>1. /\ fifo \in FifoType(FifoSize, Message, {1}) /\ Ring(fifo)
      /\ fifo' = fifo32_get(fifo) /\ fifo32_status(fifo) > 0 /\ m = GetReturns(fifo)
  BY DEF Typed, TypeOK, Take
<1>2. /\ fifo' \in FifoType(FifoSize, Message, {1}) /\ Ring(fifo') /\ fifo'.flags = fifo.flags
      /\ Contents(fifo) # << >> /\ GetReturns(fifo) = Head(Contents(fifo))
      /\ Contents(fifo') = Tail(Contents(fifo))
  BY <1>1, Sizes, GetRing
<1>3. Contents(fifo) \in Seq(Message)
  BY <1>1, Sizes, ContentsType
<1>4. QED
  BY <1>1, <1>2, <1>3 DEF MessageLost

\* A message that is no answer comes or goes: the byte stays where it is.
SameAnswers == /\ NoAnswer(Contents(fifo)) => NoAnswer(Contents(fifo)')
               /\ \A a \in {Ack, Resend} :
                      OneAnswer(Contents(fifo), a) => OneAnswer(Contents(fifo)', a)
\* So it does, if keycmd only gets further commands.
LEMMA ByteStays ==
    ASSUME Settled \/ Pending, SameAnswers,
           UNCHANGED <<keycmd_wait, wire, kbd>>,
           \A e : Led(Contents(keycmd), e) => Led(Contents(keycmd)', e)
    PROVE  Settled' \/ Pending'
<1>1. /\ (NotSent => NotSent') /\ (OnWire => OnWire')
      /\ (Answered(Ack) => Answered(Ack)') /\ (Coming(Ack) => Coming(Ack)')
      /\ (Answered(Resend) => Answered(Resend)') /\ (Coming(Resend) => Coming(Resend)')
  BY DEF SameAnswers, NotSent, OnWire, Answered, Coming
<1>2. /\ Led(Contents(keycmd), kbd.expects) => Led(Contents(keycmd)', kbd'.expects)
      /\ Led(Contents(keycmd), After(keycmd_wait)) => Led(Contents(keycmd)', After(keycmd_wait'))
      /\ Taken(keycmd_wait, kbd.expects) => Taken(keycmd_wait', kbd'.expects)
  OBVIOUS
<1>3. CASE Settled
  <2>1. NotSent' \/ Answered(Ack)' \/ Coming(Ack)'
    BY <1>1, <1>3 DEF Settled
  <2>2. QED
    BY <1>2, <1>3, <2>1 DEF Settled
<1>4. CASE Pending
  <2>1. OnWire' \/ Answered(Resend)' \/ Coming(Resend)'
    BY <1>1, <1>4 DEF Pending
  <2>2. QED
    BY <1>2, <1>4, <2>1 DEF Pending
<1>5. QED
  BY <1>3, <1>4

\* Every step of task_a, of the handlers and of the keyboard preserves it.
LEMMA NextIInv == IInv /\ [Next]_vars => IInv'
<1> SUFFICES ASSUME IInv, [Next]_vars PROVE IInv'
  OBVIOUS
<1>0. /\ Typed /\ (~ MessageLost => Settled \/ Pending)
      /\ keycmd \in FifoType(CmdSize, Byte, {0}) /\ Ring(keycmd)
      /\ fifo \in FifoType(FifoSize, Message, {1}) /\ Ring(fifo)
      /\ keycmd_wait \in Byte \cup {None} /\ key_leds \in Lamps /\ flags \in {1, 2}
      /\ at \in {"send", "read"} /\ wire \in Byte \cup {None} /\ strokes \in 0 .. MaxStrokes
      /\ kbd \in [lamps : Lamps, expects : {"command", "lamps"}, answer : {None, Ack, Resend}]
  BY DEF IInv, Typed, TypeOK
<1>1. CASE SendNext
  <2>1. /\ fifo32_status(keycmd) > 0 /\ keycmd_wait < 0 /\ wire = None
        /\ keycmd_wait' = GetReturns(keycmd) /\ wire' = keycmd_wait'
        /\ keycmd' = fifo32_get(keycmd) /\ at' = "read"
        /\ UNCHANGED <<key_leds, fifo, flags, kbd, strokes>>
    BY <1>1 DEF SendNext, MaySend
  <2>2. /\ keycmd' \in FifoType(CmdSize, Byte, {0}) /\ Ring(keycmd')
        /\ Contents(keycmd) # << >> /\ keycmd_wait' = Head(Contents(keycmd))
        /\ Contents(keycmd') = Tail(Contents(keycmd)) /\ keycmd_wait' \in Byte
    BY <1>0, <2>1, Sizes, GetRing
  <2>3. Typed'
    BY <1>0, <2>1, <2>2 DEF Typed, TypeOK
  <2>4. ASSUME ~ MessageLost' PROVE Pending'
    <3>1. Settled \/ Pending
      BY <1>0, <2>1, <2>4 DEF MessageLost
    <3>2. NotSent /\ Settled
      BY <2>1, <3>1, Values DEF Settled, Pending, NotSent, OnWire, Answered, Coming
    <3>3. Contents(keycmd) \in Seq(Byte) /\ Led(Contents(keycmd), kbd.expects)
      BY <1>0, <3>2, Sizes, ContentsType DEF Settled
    <3>4. Taken(keycmd_wait', kbd.expects) /\ Led(Contents(keycmd'), After(keycmd_wait'))
      BY <2>2, <3>3, LedTail
    <3>5. OnWire'
      BY <2>1, <2>2, <3>2 DEF NotSent, OnWire
    <3>6. QED
      BY <2>1, <3>4, <3>5 DEF Pending
  <2>5. QED
    BY <2>3, <2>4 DEF IInv
<1>2. CASE NothingToSend \/ GoToSleep
  <2>1. /\ UNCHANGED <<keycmd, keycmd_wait, key_leds, fifo, wire, kbd, strokes>>
        /\ flags' \in {1, 2} /\ at' \in {"send", "read"}
    BY <1>0, <1>2 DEF NothingToSend, GoToSleep
  <2>2. Typed'
    BY <1>0, <2>1 DEF Typed, TypeOK
  <2>3. ~ MessageLost' => Settled' \/ Pending'
    BY <1>0, <2>1 DEF MessageLost, Settled, Pending, NotSent, OnWire, Answered, Coming
  <2>4. QED
    BY <2>2, <2>3 DEF IInv
<1>3. ASSUME NEW m \in LockKeys, ReadLockKey(m)
      PROVE  IInv'
  <2>1. /\ Take(m) /\ key_leds' = Flip(key_leds, m) /\ keycmd' = PutLeds(keycmd, key_leds')
        /\ UNCHANGED <<keycmd_wait, wire, flags, kbd, strokes>> /\ at' = "send"
    BY <1>3 DEF ReadLockKey, Take
  <2>2. key_leds' \in Lamps
    BY <1>0, <2>1, FlipLamps
  <2>3. /\ keycmd' \in FifoType(CmdSize, Byte, {0}) /\ Ring(keycmd')
        /\ \A e : Led(Contents(keycmd), e) => Led(Contents(keycmd'), e)
    BY <1>0, <2>1, <2>2, LedsPut
  <2>4. /\ fifo' \in FifoType(FifoSize, Message, {1}) /\ Ring(fifo')
        /\ Contents(fifo) \in Seq(Message) /\ Contents(fifo) # << >>
        /\ m = Head(Contents(fifo)) /\ Contents(fifo') = Tail(Contents(fifo))
        /\ MessageLost' <=> MessageLost
    BY <1>0, <2>1, TakeRing
  <2>5. Typed'
    BY <1>0, <2>1, <2>2, <2>3, <2>4 DEF Typed, TypeOK
  <2>6. SameAnswers
    BY <2>4, Values, AnswersTail DEF SameAnswers
  <2>7. ~ MessageLost' => Settled' \/ Pending'
    BY <1>0, <2>1, <2>3, <2>4, <2>6, ByteStays
  <2>8. QED
    BY <2>5, <2>7 DEF IInv
<1>4. CASE ReadOther
  <2>1. /\ Take(Other) /\ at' = "send"
        /\ UNCHANGED <<keycmd, key_leds, keycmd_wait, wire, flags, kbd, strokes>>
    BY <1>4 DEF ReadOther, Take
  <2>2. /\ fifo' \in FifoType(FifoSize, Message, {1}) /\ Ring(fifo')
        /\ Contents(fifo) \in Seq(Message) /\ Contents(fifo) # << >>
        /\ Other = Head(Contents(fifo)) /\ Contents(fifo') = Tail(Contents(fifo))
        /\ MessageLost' <=> MessageLost
    BY <1>0, <2>1, TakeRing
  <2>3. Typed'
    BY <1>0, <2>1, <2>2 DEF Typed, TypeOK
  <2>4. SameAnswers
    BY <2>2, Values, AnswersTail DEF SameAnswers
  <2>5. ~ MessageLost' => Settled' \/ Pending'
    BY <1>0, <2>1, <2>2, <2>4, ByteStays
  <2>6. QED
    BY <2>3, <2>5 DEF IInv
<1>5. CASE ReadAck
  <2>1. /\ Take(Ack) /\ at' = "send" /\ keycmd_wait' = None
        /\ UNCHANGED <<keycmd, key_leds, wire, flags, kbd, strokes>>
    BY <1>5 DEF ReadAck, Take
  <2>2. /\ fifo' \in FifoType(FifoSize, Message, {1}) /\ Ring(fifo')
        /\ Contents(fifo) \in Seq(Message) /\ Contents(fifo) # << >>
        /\ Ack = Head(Contents(fifo)) /\ Contents(fifo') = Tail(Contents(fifo))
        /\ MessageLost' <=> MessageLost
    BY <1>0, <2>1, TakeRing
  <2>3. Typed'
    BY <1>0, <2>1, <2>2 DEF Typed, TypeOK
  <2>4. ASSUME ~ MessageLost' PROVE Settled'
    <3>1. ~ NoAnswer(Contents(fifo)) /\ ~ OneAnswer(Contents(fifo), Resend)
      BY <2>2, Values, AnswersTail
    <3>2. Coming(Ack) /\ Settled
      BY <1>0, <2>2, <2>4, <3>1 DEF Settled, Pending, NotSent, OnWire, Answered, Coming
    <3>3. NoAnswer(Contents(fifo'))
      BY <2>2, <3>2, AnswersTail DEF Coming
    <3>4. NotSent'
      BY <2>1, <3>2, <3>3 DEF NotSent, Coming
    <3>5. QED
      BY <2>1, <3>2, <3>4 DEF Settled
  <2>5. QED
    BY <2>3, <2>4 DEF IInv
<1>6. CASE ReadResend
  <2>1. /\ Take(Resend) /\ at' = "send" /\ wire' = keycmd_wait
        /\ UNCHANGED <<keycmd, key_leds, keycmd_wait, flags, kbd, strokes>>
    BY <1>6 DEF ReadResend, Take, SentAgain
  <2>2. /\ fifo' \in FifoType(FifoSize, Message, {1}) /\ Ring(fifo')
        /\ Contents(fifo) \in Seq(Message) /\ Contents(fifo) # << >>
        /\ Resend = Head(Contents(fifo)) /\ Contents(fifo') = Tail(Contents(fifo))
        /\ MessageLost' <=> MessageLost
    BY <1>0, <2>1, TakeRing
  <2>3. Typed'
    BY <1>0, <2>1, <2>2 DEF Typed, TypeOK
  <2>4. ASSUME ~ MessageLost' PROVE Pending'
    <3>1. ~ NoAnswer(Contents(fifo)) /\ ~ OneAnswer(Contents(fifo), Ack)
      BY <2>2, Values, AnswersTail
    <3>2. Coming(Resend) /\ Pending
      BY <1>0, <2>2, <2>4, <3>1 DEF Settled, Pending, NotSent, OnWire, Answered, Coming
    <3>3. NoAnswer(Contents(fifo'))
      BY <2>2, <3>2, AnswersTail DEF Coming
    <3>4. OnWire'
      BY <2>1, <3>2, <3>3 DEF OnWire, Coming
    <3>5. QED
      BY <2>1, <3>2, <3>4 DEF Pending
  <2>5. QED
    BY <2>3, <2>4 DEF IInv
<1>7. ASSUME NEW m \in Message, m \notin {Ack, Resend}, Interrupt(m), UNCHANGED kbd,
             strokes' \in 0 .. MaxStrokes
      PROVE  IInv'
  <2>1. UNCHANGED <<keycmd, keycmd_wait, key_leds, at, wire, kbd>>
    BY <1>7 DEF Interrupt
  <2>2. /\ fifo' \in FifoType(FifoSize, Message, {1}) /\ Ring(fifo') /\ flags' \in {1, 2}
        /\ Contents(fifo) \in Seq(Message)
        /\ ~ MessageLost' => ~ MessageLost /\ Contents(fifo') = Append(Contents(fifo), m)
    BY <1>0, <1>7, InterruptRing
  <2>3. Typed'
    BY <1>0, <1>7, <2>1, <2>2 DEF Typed, TypeOK
  <2>4. ASSUME ~ MessageLost' PROVE Settled' \/ Pending'
    <3>1. SameAnswers
      BY <1>7, <2>2, <2>4, AnswersAppend DEF SameAnswers
    <3>2. QED
      BY <1>0, <2>1, <2>2, <2>4, <3>1, ByteStays
  <2>5. QED
    BY <2>3, <2>4 DEF IInv
<1>8. ASSUME NEW m \in LockKeys, LockKey(m)
      PROVE  IInv'
  <2>1. Interrupt(m) /\ UNCHANGED kbd /\ strokes' \in 0 .. MaxStrokes
    BY <1>0, <1>8, KeysAssumption DEF LockKey
  <2>2. QED
    BY <1>7, <2>1, Values
<1>9. CASE OtherMessage
  <2>1. Interrupt(Other) /\ UNCHANGED kbd /\ strokes' \in 0 .. MaxStrokes
    BY <1>0, <1>9 DEF OtherMessage
  <2>2. QED
    BY <1>7, <2>1, Values
<1>10. CASE Answer
  <2>1. PICK a \in {Ack, Resend} :
            /\ kbd.answer = a /\ Interrupt(a) /\ kbd' = [kbd EXCEPT !.answer = None]
            /\ UNCHANGED <<strokes, keycmd, keycmd_wait, key_leds, at, wire>>
    BY <1>0, <1>10 DEF Answer, Interrupt
  <2>2. kbd'.answer = None /\ kbd'.expects = kbd.expects /\ kbd'.lamps = kbd.lamps
    BY <1>0, <2>1
  <2>3. /\ fifo' \in FifoType(FifoSize, Message, {1}) /\ Ring(fifo') /\ flags' \in {1, 2}
        /\ Contents(fifo) \in Seq(Message)
        /\ ~ MessageLost' => ~ MessageLost /\ Contents(fifo') = Append(Contents(fifo), a)
    BY <1>0, <2>1, Values, InterruptRing
  <2>4. Typed'
    <3>1. kbd' \in [lamps : Lamps, expects : {"command", "lamps"}, answer : {None, Ack, Resend}]
      BY <1>0, <2>1
    <3>2. QED
      BY <1>0, <2>1, <2>3, <3>1 DEF Typed, TypeOK
  <2>5. ASSUME ~ MessageLost' PROVE Settled' \/ Pending'
    <3>1. Answered(a) /\ (Settled \/ Pending)
      BY <1>0, <2>1, <2>3, <2>5, Values DEF Settled, Pending, NotSent, OnWire, Answered, Coming
    <3>2. OneAnswer(Contents(fifo'), a)
      BY <2>1, <2>3, <2>5, <3>1, Values, AnswersAppend DEF Answered
    <3>3. Coming(a)'
      BY <2>1, <2>2, <3>1, <3>2 DEF Answered, Coming
    <3>4. CASE a = Ack
      <4>1. Settled
        BY <3>1, <3>4, Values DEF Pending, OnWire, Answered, Coming
      <4>2. QED
        BY <2>1, <2>2, <3>3, <3>4, <4>1 DEF Settled
    <3>5. CASE a = Resend
      <4>1. Pending
        BY <3>1, <3>5, Values DEF Settled, NotSent, Answered, Coming
      <4>2. QED
        BY <2>1, <2>2, <3>3, <3>5, <4>1 DEF Pending
    <3>6. QED
      BY <3>4, <3>5
  <2>6. QED
    BY <2>4, <2>5 DEF IInv
<1>11. CASE Accept
  <2>1. /\ Obeys(kbd, wire) /\ wire # None /\ kbd.answer = None /\ wire' = None
        /\ kbd' = [Obey(kbd, wire) EXCEPT !.answer = Ack]
        /\ UNCHANGED <<keycmd, keycmd_wait, key_leds, fifo, flags, at, strokes>>
    BY <1>11 DEF Accept, Receive
  <2>2. wire \in Byte
    BY <1>0, <2>1
  <2>3. /\ Obey(kbd, wire)
               \in [lamps : Lamps, expects : {"command", "lamps"}, answer : {None, Ack, Resend}]
        /\ Obey(kbd, wire).expects = After(wire)
    BY <1>0, <2>1, <2>2 DEF Obey, Obeys, After, Byte
  <2>4. /\ kbd' \in [lamps : Lamps, expects : {"command", "lamps"}, answer : {None, Ack, Resend}]
        /\ kbd'.expects = After(wire) /\ kbd'.answer = Ack
    BY <2>1, <2>3
  <2>5. Typed'
    BY <1>0, <2>1, <2>4 DEF Typed, TypeOK
  <2>6. ASSUME ~ MessageLost' PROVE Settled'
    <3>1. OnWire /\ Pending
      BY <1>0, <2>1, <2>6, Values
      DEF MessageLost, Settled, Pending, NotSent, OnWire, Answered, Coming
    <3>2. Answered(Ack)'
      BY <2>1, <2>4, <3>1 DEF OnWire, Answered
    <3>3. Led(Contents(keycmd'), kbd'.expects)
      BY <2>1, <2>4, <3>1 DEF Pending, OnWire
    <3>4. QED
      BY <3>2, <3>3 DEF Settled
  <2>7. QED
    BY <2>5, <2>6 DEF IInv
<1>12. CASE Refuse
  <2>1. /\ wire # None /\ kbd.answer = None /\ wire' = None
        /\ kbd' = [kbd EXCEPT !.answer = Resend]
        /\ UNCHANGED <<keycmd, keycmd_wait, key_leds, fifo, flags, at, strokes>>
    BY <1>12 DEF Refuse, Receive
  <2>2. /\ kbd' \in [lamps : Lamps, expects : {"command", "lamps"}, answer : {None, Ack, Resend}]
        /\ kbd'.expects = kbd.expects /\ kbd'.answer = Resend
    BY <1>0, <2>1
  <2>3. Typed'
    BY <1>0, <2>1, <2>2 DEF Typed, TypeOK
  <2>4. ASSUME ~ MessageLost' PROVE Pending'
    <3>1. OnWire /\ Pending
      BY <1>0, <2>1, <2>4, Values
      DEF MessageLost, Settled, Pending, NotSent, OnWire, Answered, Coming
    <3>2. Answered(Resend)'
      BY <2>1, <2>2, <3>1 DEF OnWire, Answered
    <3>3. QED
      BY <2>1, <2>2, <3>1, <3>2 DEF Pending
  <2>5. QED
    BY <2>3, <2>4 DEF IInv
<1>13. CASE UNCHANGED vars
  BY <1>0, <1>13
  DEF vars, IInv, Typed, TypeOK, MessageLost, Settled, Pending, NotSent, OnWire, Answered, Coming
<1>14. QED
  BY <1>1, <1>2, <1>3, <1>4, <1>5, <1>6, <1>8, <1>9, <1>10, <1>11, <1>12, <1>13 DEF Next, Loop

\* The inductive invariant holds in every reachable state.
LEMMA Invariant == Spec => []IInv
BY InitIInv, NextIInv, PTL DEF Spec

-----------------------------------------------------------------------------
\* Both FIFOs, the lamps and the bytes under way keep their types, whatever the
\* keyboard refuses and however full the FIFOs run.
THEOREM TypeCorrect == Spec => []TypeOK
<1>1. IInv => TypeOK
  BY DEF IInv, Typed
<1>2. QED
  BY <1>1, Invariant, PTL

\* The answers in a FIFO, counted.
LEMMA Counted ==
    ASSUME NEW s \in Seq(Message)
    PROVE  /\ NoAnswer(s) => Cardinality(AnswersIn(s)) = 0
           /\ \A a \in {Ack, Resend} : OneAnswer(s, a) => Cardinality(AnswersIn(s)) = 1
<1>1. ASSUME NoAnswer(s) PROVE Cardinality(AnswersIn(s)) = 0
  <2>1. AnswersIn(s) = {}
    BY <1>1 DEF NoAnswer, AnswersIn
  <2>2. QED
    BY <2>1, FS_EmptySet
<1>2. ASSUME NEW a \in {Ack, Resend}, OneAnswer(s, a) PROVE Cardinality(AnswersIn(s)) = 1
  <2>1. PICK i \in DOMAIN s : s[i] = a /\ \A j \in DOMAIN s \ {i} : s[j] \notin {Ack, Resend}
    BY <1>2 DEF OneAnswer
  <2>2. AnswersIn(s) = {i}
    BY <2>1 DEF AnswersIn
  <2>3. QED
    BY <2>2, FS_Singleton
<1>3. QED
  BY <1>1, <1>2

\* bootpack.c sends a byte only when the one before it has been accepted, and
\* again only when it was refused: while task_a waits, exactly one byte or answer
\* is under way, and otherwise none.
THEOREM OneByteUnderWay == Spec => []OneByteOut
<1>1. IInv => OneByteOut
  <2> SUFFICES ASSUME IInv, ~ MessageLost
               PROVE  /\ OnItsWay = IF keycmd_wait = None THEN 0 ELSE 1
                      /\ wire \in {None, keycmd_wait}
    BY DEF OneByteOut
  <2>1. Contents(fifo) \in Seq(Message)
    BY Sizes, ContentsType DEF IInv, Typed, TypeOK
  <2>2. PICK n : n = Cardinality(AnswersIn(Contents(fifo)))
    OBVIOUS
  <2>3. /\ NoAnswer(Contents(fifo)) => n = 0
        /\ OneAnswer(Contents(fifo), Ack) \/ OneAnswer(Contents(fifo), Resend) => n = 1
    BY <2>1, <2>2, Counted
  <2>4. OnItsWay = (IF wire # None THEN 1 ELSE 0) + (IF kbd.answer # None THEN 1 ELSE 0) + n
    BY <2>2 DEF OnItsWay
  <2>5. NotSent \/ OnWire \/ (\E a \in {Ack, Resend} : Answered(a) \/ Coming(a))
    BY DEF IInv, Settled, Pending
  <2>6. QED
    BY <2>3, <2>4, <2>5, Values DEF NotSent, OnWire, Answered, Coming
<1>2. QED
  BY <1>1, Invariant, PTL

\* What the keyboard has still to take: keycmd, behind the byte that is on its way
\* or asked for.
LEMMA StillToTake ==
    ASSUME IInv, ~ MessageLost
    PROVE  /\ Contents(keycmd) \in Seq(Byte) /\ Contents(fifo) \in Seq(Message)
           /\ Settled \/ Pending
           /\ Settled => /\ wire = None /\ ~ AsksAgain
                         /\ Outstanding = Contents(keycmd)
           /\ Pending => /\ wire # None \/ AsksAgain
                         /\ keycmd_wait \in Byte /\ (wire # None => wire = keycmd_wait)
                         /\ Outstanding = <<keycmd_wait>> \o Contents(keycmd)
<1>1. Contents(fifo) \in Seq(Message) /\ Contents(keycmd) \in Seq(Byte)
  BY Sizes, ContentsType DEF IInv, Typed, TypeOK
<1>2. ASSUME Settled
      PROVE  wire = None /\ ~ AsksAgain /\ Outstanding = Contents(keycmd)
  <2>1. wire = None /\ kbd.answer # Resend
    BY <1>2, Values DEF Settled, NotSent, Answered, Coming
  <2>2. NoAnswer(Contents(fifo)) \/ OneAnswer(Contents(fifo), Ack)
    BY <1>2 DEF Settled, NotSent, Answered, Coming
  <2>3. ~ AsksAgain
    BY <2>1, <2>2, Values DEF AsksAgain, NoAnswer, OneAnswer
  <2>4. QED
    BY <1>1, <2>1, <2>3 DEF Outstanding
<1>3. ASSUME Pending
      PROVE  /\ wire # None \/ AsksAgain
             /\ keycmd_wait \in Byte /\ (wire # None => wire = keycmd_wait)
             /\ Outstanding = <<keycmd_wait>> \o Contents(keycmd)
  <2>1. keycmd_wait \in Byte /\ (wire # None => wire = keycmd_wait)
    BY <1>3 DEF Pending, OnWire, Answered, Coming
  <2>2. wire # None \/ AsksAgain
    BY <1>3, Values DEF Pending, OnWire, Answered, Coming, OneAnswer, AsksAgain
  <2>3. QED
    BY <2>1, <2>2 DEF Outstanding
<1>4. QED
  BY <1>1, <1>2, <1>3 DEF IInv

\* However full keycmd was and whatever was refused, the keyboard gets lamps only
\* behind their command.
THEOREM LampsFollowCommands == Spec => []CommandsWhole
<1>1. IInv => CommandsWhole
  <2> SUFFICES ASSUME IInv, ~ MessageLost PROVE Led(Outstanding, kbd.expects)
    BY DEF CommandsWhole, Led
  <2>1. CASE Settled
    <3>1. Outstanding = Contents(keycmd)
      BY <2>1, StillToTake
    <3>2. QED
      BY <2>1, <3>1 DEF Settled
  <2>2. CASE Pending
    <3>1. /\ keycmd_wait \in Byte /\ Contents(keycmd) \in Seq(Byte)
          /\ Outstanding = <<keycmd_wait>> \o Contents(keycmd)
      BY <2>2, StillToTake
    <3>2. QED
      BY <2>2, <3>1, LedCons DEF Pending
  <2>3. QED
    BY <2>1, <2>2, StillToTake
<1>2. QED
  BY <1>1, Invariant, PTL

-----------------------------------------------------------------------------
(* What the lamps will show.                                                *)

\* The keyboard's fold over bytes: it takes the last one behind those before it.
Takes(g, k, s) ==
    \A D \in SUBSET DOMAIN s :
        g[D] = IF D = {} THEN k ELSE Obey(g[D \ {Max(D)}], s[Max(D)])

\* The keyboard k that has taken the bytes of s at the places D: it shows the last
\* lamps that came when it expected them, or those it showed before.
Before(i, D) == {j \in D : j < i}
Ready(k, s, D) == IF D = {} THEN k.expects ELSE After(s[Max(D)])
Shown(k, s, D) == {i \in D : s[i] # KEYCMD_LED /\ Ready(k, s, Before(i, D)) = "lamps"}
Having(k, s, D) ==
    [lamps |-> IF Shown(k, s, D) = {} THEN k.lamps ELSE s[Max(Shown(k, s, D))],
     expects |-> Ready(k, s, D),
     answer |-> k.answer]

Keyboard == [lamps : Lamps, expects : {"command", "lamps"}, answer : {None, Ack, Resend}]

\* The last of some places of a sequence.
LEMMA LastPlace ==
    ASSUME NEW n \in Nat, NEW D \in SUBSET (1 .. n), D # {}
    PROVE  Max(D) \in D /\ \A i \in D : Max(D) >= i
<1> DEFINE T == {n - i : i \in D}
<1>1. T \subseteq Nat /\ T # {}
  <2>1. \A i \in D : n - i \in Nat
    OBVIOUS
  <2>2. QED
    BY <2>1
<1> HIDE DEF T
<1>2. \E x \in T : \A y \in T : ~ (<<y, x>> \in OpToRel(<, Nat))
  BY <1>1, WFMin, NatLessThanWellFounded, Zenon
<1>3. \A x, y \in Nat : y < x => <<y, x>> \in OpToRel(<, Nat)
  BY Zenon DEF OpToRel
<1>4. PICK x \in T : \A y \in T : ~ (y < x)
  BY <1>1, <1>2, <1>3, Zenon
<1>5. PICK i \in D : x = n - i
  BY DEF T
<1>6. \A j \in D : ~ (n - j < n - i)
  BY <1>4, <1>5 DEF T
<1>7. \A j \in D : i >= j
  BY <1>6
<1>8. QED
  BY <1>7, Zenon DEF Max

\* A number that is the greatest of a set is its Max.
LEMMA MaxIs ==
    ASSUME NEW D, D \subseteq Int, NEW x \in D, \A i \in D : x >= i
    PROVE  Max(D) = x
<1>1. \E y \in D : \A i \in D : y >= i
  OBVIOUS
<1>2. Max(D) \in D /\ \A i \in D : Max(D) >= i
  BY <1>1, Zenon DEF Max
<1>3. PICK m \in D : m = Max(D)
  BY <1>2
<1>4. QED
  BY <1>2, <1>3

\* Before the first byte it is what it was.
LEMMA HavingNothing ==
    ASSUME NEW k \in Keyboard, NEW s
    PROVE  Having(k, s, {}) = k
<1>1. Having(k, s, {}) = [lamps |-> k.lamps, expects |-> k.expects, answer |-> k.answer]
  BY DEF Having, Shown, Ready
<1>2. k = [lamps |-> k.lamps, expects |-> k.expects, answer |-> k.answer]
  BY DEF Keyboard
<1>3. QED
  BY <1>1, <1>2

\* One byte more: the keyboard obeys it.
LEMMA HavingStep ==
    ASSUME NEW k \in Keyboard, NEW s \in Seq(Byte), NEW D \in SUBSET DOMAIN s, D # {}
    PROVE  Having(k, s, D) = Obey(Having(k, s, D \ {Max(D)}), s[Max(D)])
<1>1. DOMAIN s = 1 .. Len(s) /\ Len(s) \in Nat /\ \A i \in DOMAIN s : s[i] \in Byte
  OBVIOUS
<1>2. Max(D) \in D /\ \A i \in D : Max(D) >= i
  BY <1>1, LastPlace
<1>3. PICK x \in D : x = Max(D) /\ \A i \in D : x >= i
  BY <1>2
<1>4. PICK E : E = D \ {x}
  OBVIOUS
<1>5. Before(x, D) = E /\ \A i \in E : Before(i, D) = Before(i, E)
  <2>1. Before(x, D) = E
    BY <1>1, <1>3, <1>4 DEF Before
  <2>2. ASSUME NEW i \in E PROVE Before(i, D) = Before(i, E)
    <3>1. ~ (x < i)
      BY <1>1, <1>3, <1>4
    <3>2. QED
      BY <1>4, <3>1 DEF Before
  <2>3. QED
    BY <2>1, <2>2
<1>6. Ready(k, s, D) = After(s[x])
  BY <1>3 DEF Ready
<1>7. s[x] = KEYCMD_LED \/ Ready(k, s, E) # "lamps" => Shown(k, s, D) = Shown(k, s, E)
  BY <1>4, <1>5 DEF Shown
<1>8. s[x] # KEYCMD_LED /\ Ready(k, s, E) = "lamps" => Max(Shown(k, s, D)) = x
  <2> SUFFICES ASSUME s[x] # KEYCMD_LED, Ready(k, s, E) = "lamps"
               PROVE  Max(Shown(k, s, D)) = x
    OBVIOUS
  <2>1. x \in Shown(k, s, D) /\ Shown(k, s, D) \subseteq D
    BY <1>5 DEF Shown
  <2>2. Shown(k, s, D) \subseteq Int /\ \A i \in Shown(k, s, D) : x >= i
    BY <1>1, <1>3, <2>1
  <2>3. QED
    BY <2>1, <2>2, MaxIs
<1>9. s[x] # KEYCMD_LED /\ Ready(k, s, E) = "lamps" => Shown(k, s, D) # {}
  BY <1>5 DEF Shown
<1>10. PICK a, b : a = Having(k, s, E) /\ b = s[x]
  OBVIOUS
<1>11. /\ a.expects = Ready(k, s, E) /\ a.answer = k.answer
       /\ a.lamps = IF Shown(k, s, E) = {} THEN k.lamps ELSE s[Max(Shown(k, s, E))]
       /\ a = [lamps |-> a.lamps, expects |-> a.expects, answer |-> a.answer]
  <2>1. PICK l, e, n : a = [lamps |-> l, expects |-> e, answer |-> n]
    BY <1>10, Zenon DEF Having
  <2>2. a = [lamps |-> a.lamps, expects |-> a.expects, answer |-> a.answer]
    BY <2>1
  <2>3. QED
    BY <1>10, <2>2 DEF Having
<1>12. Obey(a, b) = IF b = KEYCMD_LED
                    THEN [lamps |-> a.lamps, expects |-> "lamps", answer |-> a.answer]
                    ELSE [lamps |-> IF a.expects = "lamps" THEN b ELSE a.lamps,
                          expects |-> "command", answer |-> a.answer]
  <2>1. PICK l, e, n : a = [lamps |-> l, expects |-> e, answer |-> n]
    BY <1>11
  <2>2. CASE b = KEYCMD_LED
    BY <2>1, <2>2 DEF Obey
  <2>3. CASE b # KEYCMD_LED /\ a.expects = "lamps"
    <3>1. Obeys(a, b)
      BY <2>3 DEF Obeys
    <3>2. Obey(a, b) = [a EXCEPT !.lamps = b, !.expects = "command"]
      BY <2>3, <3>1, Zenon DEF Obey
    <3>3. QED
      BY <2>1, <2>3, <3>2
  <2>4. CASE b # KEYCMD_LED /\ a.expects # "lamps"
    <3>1. ~ Obeys(a, b)
      BY <2>4 DEF Obeys
    <3>2. Obey(a, b) = [a EXCEPT !.lamps = @, !.expects = "command"]
      BY <2>4, <3>1, Zenon DEF Obey
    <3>3. QED
      BY <2>1, <2>4, <3>2
  <2>5. QED
    BY <2>2, <2>3, <2>4
<1>13. Having(k, s, D) = Obey(a, b)
  <2>1. CASE b = KEYCMD_LED
    BY <1>6, <1>7, <1>10, <1>11, <1>12, <2>1 DEF Having, After
  <2>2. CASE b # KEYCMD_LED /\ a.expects = "lamps"
    BY <1>6, <1>8, <1>9, <1>10, <1>11, <1>12, <2>2 DEF Having, After
  <2>3. CASE b # KEYCMD_LED /\ a.expects # "lamps"
    BY <1>6, <1>7, <1>10, <1>11, <1>12, <2>3 DEF Having, After
  <2>4. QED
    BY <2>1, <2>2, <2>3
<1>14. QED
  BY <1>3, <1>4, <1>10, <1>13

\* There is no other way to take the bytes.
LEMMA TakesOnce ==
    ASSUME NEW k \in Keyboard, NEW s \in Seq(Byte), NEW g, Takes(g, k, s)
    PROVE  g[DOMAIN s] = Having(k, s, DOMAIN s)
<1> DEFINE Wrong == {n \in Nat : \E D \in SUBSET DOMAIN s :
                                    Cardinality(D) = n /\ g[D] # Having(k, s, D)}
<1>1. \A D \in SUBSET DOMAIN s : IsFiniteSet(D) /\ Cardinality(D) \in Nat
  <2>1. DOMAIN s = 1 .. Len(s) /\ Len(s) \in Int
    OBVIOUS
  <2>2. IsFiniteSet(DOMAIN s)
    BY <2>1, FS_Interval
  <2>3. QED
    BY <2>2, FS_Subset, FS_CardinalityType
<1>2. SUFFICES ASSUME Wrong # {} PROVE FALSE
  <2>1. DOMAIN s \in SUBSET DOMAIN s
    OBVIOUS
  <2>2. QED
    BY <1>1, <1>2, <2>1
<1>3. \E n \in Wrong : \A m \in Wrong : ~ (<<m, n>> \in OpToRel(<, Nat))
  <2>1. Wrong \subseteq Nat
    OBVIOUS
  <2>2. QED
    BY <1>2, <2>1, WFMin, NatLessThanWellFounded, Zenon
<1>4. \A x, y \in Nat : y < x => <<y, x>> \in OpToRel(<, Nat)
  BY Zenon DEF OpToRel
<1>5. PICK n \in Wrong : \A m \in Wrong : ~ (m < n)
  BY <1>3, <1>4
<1>6. PICK D \in SUBSET DOMAIN s : Cardinality(D) = n /\ g[D] # Having(k, s, D)
  BY <1>5
<1>7. D # {}
  BY <1>6, HavingNothing DEF Takes
<1>8. PICK x \in D : x = Max(D)
  <2>1. DOMAIN s = 1 .. Len(s) /\ Len(s) \in Nat
    OBVIOUS
  <2>2. QED
    BY <1>7, <2>1, LastPlace
<1>9. /\ g[D] = Obey(g[D \ {x}], s[x])
      /\ Having(k, s, D) = Obey(Having(k, s, D \ {x}), s[x])
  BY <1>7, <1>8, HavingStep DEF Takes
<1>10. g[D \ {x}] # Having(k, s, D \ {x})
  BY <1>6, <1>9
<1>11. D \ {x} \in SUBSET DOMAIN s
  OBVIOUS
<1>12. Cardinality(D \ {x}) \in Wrong
  BY <1>1, <1>10, <1>11
<1>13. Cardinality(D \ {x}) = Cardinality(D) - 1
  BY <1>1, FS_RemoveElement
<1>14. Cardinality(D) \in Nat /\ ~ (Cardinality(D \ {x}) < n)
  BY <1>1, <1>5, <1>12
<1>15. QED
  BY ONLY <1>6, <1>13, <1>14

\* The fold of the property takes them so.
LEMMA FoldIsHaving ==
    ASSUME NEW k \in Keyboard, NEW s \in Seq(Byte)
    PROVE  FoldLeft(Obey, k, s) = Having(k, s, DOMAIN s)
<1> DEFINE IsFold(g) == g = [D \in SUBSET DOMAIN s |-> IF D = {} THEN k
                                 ELSE Obey(g[D \ {Max(D)}], s[Max(D)])]
           g0 == CHOOSE g : IsFold(g)
           c == [D \in SUBSET DOMAIN s |-> Having(k, s, D)]
<1>1. FoldLeft(Obey, k, s) = g0[DOMAIN s]
  BY Zenon DEF FoldLeft, MapThenFoldSet
<1>2. IsFold(c)
  <2>1. ASSUME NEW D \in SUBSET DOMAIN s
        PROVE  c[D] = IF D = {} THEN k ELSE Obey(c[D \ {Max(D)}], s[Max(D)])
    <3>1. CASE D = {}
      <4>1. c[D] = Having(k, s, D)
        OBVIOUS
      <4>2. QED
        BY <3>1, <4>1, HavingNothing
    <3>2. CASE D # {}
      <4>1. Having(k, s, D) = Obey(Having(k, s, D \ {Max(D)}), s[Max(D)])
        BY <3>2, HavingStep
      <4>2. D \ {Max(D)} \in SUBSET DOMAIN s
        OBVIOUS
      <4>3. c[D] = Having(k, s, D) /\ c[D \ {Max(D)}] = Having(k, s, D \ {Max(D)})
        BY <4>2, Zenon
      <4>4. QED
        BY <3>2, <4>1, <4>3, Zenon
    <3>3. QED
      BY <3>1, <3>2
  <2>2. c = [D \in SUBSET DOMAIN s |-> c[D]]
    OBVIOUS
  <2> HIDE DEF c
  <2>3. QED
    BY <2>1, <2>2, Zenon
<1>3. IsFold(g0)
  <2> HIDE DEF c, IsFold
  <2>1. QED
    BY <1>2, Zenon
<1>4. Takes(g0, k, s)
  <2> HIDE DEF g0
  <2>1. g0 = [D \in SUBSET DOMAIN s |-> IF D = {} THEN k
                                 ELSE Obey(g0[D \ {Max(D)}], s[Max(D)])]
    BY <1>3
  <2>2. QED
    BY <2>1, Zenon DEF Takes
<1>5. QED
  BY <1>1, <1>4, TakesOnce, Zenon

\* The bytes s end in the lamps l, and a keyboard k will take these; or there are
\* none, and k shows l.
Ends(s, k, l) ==
    IF s = << >>
    THEN k.lamps = l /\ k.expects = "command"
    ELSE /\ s[Len(s)] = l
         /\ IF Len(s) = 1 THEN k.expects = "lamps" ELSE s[Len(s) - 1] = KEYCMD_LED

\* Then l is what it shows in the end.
LEMMA EndShows ==
    ASSUME NEW k \in Keyboard, NEW s \in Seq(Byte), NEW l \in Lamps, Ends(s, k, l)
    PROVE  FoldLeft(Obey, k, s).lamps = l /\ FoldLeft(Obey, k, s).expects = "command"
<1>1. DOMAIN s = 1 .. Len(s) /\ Len(s) \in Nat
  OBVIOUS
<1>2. PICK h : h = Having(k, s, DOMAIN s) /\ h = FoldLeft(Obey, k, s)
  BY FoldIsHaving
<1>3. CASE s = << >>
  <2>1. DOMAIN s = {}
    BY <1>3
  <2>2. h = k
    BY <1>2, <2>1, HavingNothing
  <2>3. QED
    BY <1>2, <1>3, <2>2 DEF Ends
<1>4. CASE s # << >>
  <2>0. Len(s) # 0
    BY <1>4, EmptySeq
  <2> DEFINE n == Len(s)
             D == DOMAIN s
  <2>1. n \in Nat /\ n = Len(s) /\ n # 0 /\ D = 1 .. n /\ D = DOMAIN s /\ n \in D
    BY <1>1, <2>0
  <2> HIDE DEF n, D
  <2>2. l # KEYCMD_LED /\ s[n] = l
    BY <1>4, <2>1 DEF Ends, Lamps, KEYCMD_LED
  <2>3. Max(D) = n
    <3>1. D \subseteq Int /\ \A i \in D : n >= i
      BY <2>1
    <3>2. QED
      BY <2>1, <3>1, MaxIs
  <2>4. Ready(k, s, D) = "command"
    BY <2>1, <2>2, <2>3 DEF Ready, After
  <2>5. Ready(k, s, Before(n, D)) = "lamps"
    <3>1. Before(n, D) = 1 .. (n - 1)
      BY <2>1 DEF Before
    <3>2. CASE n = 1
      <4>1. Before(n, D) = {}
        BY <3>1, <3>2
      <4>2. QED
        BY <1>4, <2>1, <3>2, <4>1 DEF Ends, Ready
    <3>3. CASE n # 1
      <4>1. /\ n - 1 \in 1 .. (n - 1) /\ 1 .. (n - 1) \subseteq Int
            /\ \A i \in 1 .. (n - 1) : n - 1 >= i
        BY <2>1, <3>3
      <4>2. Max(1 .. (n - 1)) = n - 1
        BY <4>1, MaxIs
      <4>3. s[n - 1] = KEYCMD_LED
        BY <1>4, <2>1, <3>3 DEF Ends
      <4>4. QED
        BY <3>1, <4>1, <4>2, <4>3 DEF Ready, After
    <3>4. QED
      BY <3>2, <3>3
  <2>6. PICK S : S = Shown(k, s, D)
    OBVIOUS
  <2>7. n \in S /\ S \subseteq D
    BY <2>1, <2>2, <2>5, <2>6 DEF Shown
  <2>8. S \subseteq Int /\ \A i \in S : n >= i
    BY <2>1, <2>7
  <2>9. Max(S) = n
    BY <2>7, <2>8, MaxIs
  <2>10. h.lamps = s[n] /\ h.expects = "command"
    BY <1>2, <2>1, <2>4, <2>6, <2>7, <2>9 DEF Having
  <2>11. QED
    BY <1>2, <2>2, <2>10
<1>5. QED
  BY <1>3, <1>4

\* New lamps behind their command, and whatever is before them.
LEMMA EndsPut ==
    ASSUME NEW s \in Seq(Byte), NEW b \in Byte, NEW k, NEW l \in Lamps,
           NEW t, t = Append(Append(s, KEYCMD_LED), l)
    PROVE  Ends(t, k, l) /\ Ends(<<b>> \o t, k, l)
<1>1. PICK n \in Nat : n = Len(s)
  OBVIOUS
<1>2. KEYCMD_LED \in Byte /\ l \in Byte
  BY DEF Byte
<1>3. /\ t \in Seq(Byte) /\ Len(t) = n + 2 /\ t[n + 2] = l /\ t[n + 1] = KEYCMD_LED
  BY <1>1, <1>2
<1>4. PICK u : u = <<b>> \o t
  OBVIOUS
<1>5. Len(u) = n + 3 /\ u[n + 3] = l /\ u[n + 2] = KEYCMD_LED
  BY <1>3, <1>4
<1>6. Len(t) - 1 = n + 1 /\ Len(t) # 1 /\ t # << >>
  BY <1>3
<1>7. Len(u) - 1 = n + 2 /\ Len(u) # 1 /\ u # << >>
  BY <1>5
<1>8. QED
  BY <1>3, <1>4, <1>5, <1>6, <1>7 DEF Ends

\* The first byte taken.
LEMMA EndsTaken ==
    ASSUME NEW s \in Seq(Byte), NEW b \in Byte, NEW k, NEW m, NEW l \in Lamps,
           Ends(<<b>> \o s, k, l),
           m.expects = After(b), b # KEYCMD_LED /\ k.expects = "lamps" => m.lamps = b
    PROVE  Ends(s, m, l)
<1>1. PICK n \in Nat : n = Len(s)
  OBVIOUS
<1>2. PICK t : t = <<b>> \o s
  OBVIOUS
<1>3. Len(t) = n + 1 /\ t # << >> /\ t[1] = b /\ \A i \in 1 .. n : t[i + 1] = s[i]
  BY <1>1, <1>2
<1>4. /\ t[n + 1] = l
      /\ IF n + 1 = 1 THEN k.expects = "lamps" ELSE t[n] = KEYCMD_LED
  BY <1>2, <1>3 DEF Ends
<1>5. CASE n = 0
  <2>1. s = << >>
    BY <1>1, <1>5, EmptySeq
  <2>2. b = l /\ b # KEYCMD_LED /\ k.expects = "lamps"
    BY <1>3, <1>4, <1>5 DEF Lamps, KEYCMD_LED
  <2>3. QED
    BY <2>1, <2>2 DEF Ends, After
<1>6. CASE n # 0
  <2>1. s # << >> /\ s[n] = l /\ t[n] = KEYCMD_LED
    BY <1>1, <1>3, <1>4, <1>6
  <2>2. CASE n = 1
    BY <1>1, <1>3, <2>1, <2>2 DEF Ends, After
  <2>3. CASE n # 1
    <3>1. n - 1 \in 1 .. n /\ (n - 1) + 1 = n
      BY <1>6, <2>3
    <3>2. s[n - 1] = KEYCMD_LED
      BY <1>3, <2>1, <3>1
    <3>3. QED
      BY <1>1, <2>1, <2>3, <3>2 DEF Ends
  <2>4. QED
    BY <2>2, <2>3
<1>7. QED
  BY <1>5, <1>6

\* The two puts that queue lamps, when neither is dropped.
LEMMA LedsAdded ==
    ASSUME NEW q \in FifoType(CmdSize, Byte, {0}), Ring(q), NEW leds \in Lamps,
           PutLeds(q, leds).flags # FLAGS_OVERRUN
    PROVE  /\ q.flags # FLAGS_OVERRUN
           /\ Contents(PutLeds(q, leds)) = Append(Append(Contents(q), KEYCMD_LED), leds)
<1> DEFINE q1 == fifo32_put(q, KEYCMD_LED)
           r == fifo32_put(q1, leds)
<1>1. leds \in Byte /\ KEYCMD_LED \in Byte
  BY Values DEF Byte
<1>2. /\ q1 \in FifoType(CmdSize, Byte, {0}) /\ Ring(q1)
      /\ q1.flags # FLAGS_OVERRUN =>
            q.flags # FLAGS_OVERRUN /\ Contents(q1) = Append(Contents(q), KEYCMD_LED)
  BY <1>1, Sizes, PutRing
<1>3. r.flags # FLAGS_OVERRUN =>
            q1.flags # FLAGS_OVERRUN /\ Contents(r) = Append(Contents(q1), leds)
  BY <1>1, <1>2, Sizes, PutRing
<1>4. PutLeds(q, leds) = r
  BY DEF PutLeds
<1> HIDE DEF q1, r
<1>5. QED
  BY <1>2, <1>3, <1>4

-----------------------------------------------------------------------------
(* The bytes under way end in key_leds.                                     *)

Asked(s) == \E i \in DOMAIN s : s[i] = Resend

\* A message comes.
LEMMA AskedAppend ==
    ASSUME NEW s \in Seq(Message), NEW m \in Message
    PROVE  Asked(Append(s, m)) <=> Asked(s) \/ m = Resend
<1> DEFINE t == Append(s, m)
<1>1. /\ DOMAIN t = 1 .. Len(s) + 1 /\ DOMAIN s = 1 .. Len(s) /\ Len(s) \in Nat
      /\ t[Len(s) + 1] = m /\ \A i \in DOMAIN s : t[i] = s[i]
  OBVIOUS
<1> HIDE DEF t
<1>2. ASSUME NEW i \in DOMAIN t PROVE i \in DOMAIN s \/ i = Len(s) + 1
  BY <1>1
<1>3. Asked(t) <=> Asked(s) \/ m = Resend
  BY <1>1, <1>2 DEF Asked
<1>4. QED
  BY <1>3 DEF t

\* A message is read.
LEMMA AskedTail ==
    ASSUME NEW s \in Seq(Message), s # << >>
    PROVE  Asked(s) <=> Head(s) = Resend \/ Asked(Tail(s))
<1>1. /\ Head(s) = s[1] /\ 1 \in DOMAIN s
      /\ \A i \in DOMAIN Tail(s) : i \in Nat /\ i + 1 \in DOMAIN s /\ Tail(s)[i] = s[i + 1]
  BY TailAt
<1>2. ASSUME NEW i \in DOMAIN s, i # 1 PROVE i - 1 \in DOMAIN Tail(s) /\ Tail(s)[i - 1] = s[i]
  BY <1>2
<1>3. QED
  BY <1>1, <1>2 DEF Asked

\* As long as nothing was dropped, they end in key_leds.
EndsWell == ~ MessageLost /\ ~ CommandLost => Ends(Outstanding, kbd, key_leds)

LEMMA InitEndsWell == Init => EndsWell
<1> SUFFICES ASSUME Init, ~ MessageLost, ~ CommandLost PROVE Ends(Outstanding, kbd, key_leds)
  BY DEF EndsWell
<1> DEFINE q == fifo32_init(CmdSize, [i \in 0 .. CmdSize - 1 |-> 0], 0)
<1>1. key_leds \in Lamps /\ keycmd = PutLeds(q, key_leds)
  BY LedsAssumption DEF Init, Lamps
<1>2. q \in FifoType(CmdSize, Byte, {0}) /\ Ring(q) /\ fifo32_status(q) = 0
  <2>1. 0 \in Byte
    BY DEF Byte, Lamps
  <2>2. QED
    BY <2>1, Sizes DEF fifo32_init, FifoType, Ring, Slot, fifo32_status, FLAGS_OVERRUN
<1> HIDE DEF q
<1>3. Contents(keycmd) = Append(Append(Contents(q), KEYCMD_LED), key_leds)
  BY <1>1, <1>2, LedsAdded DEF CommandLost
<1>4. Contents(q) \in Seq(Byte)
  BY <1>2, Sizes, ContentsType
<1>5. IInv
  BY InitIInv
<1>6. Settled
  <2>1. keycmd_wait \notin Byte
    BY Values DEF Init
  <2>2. QED
    BY <1>5, <2>1, StillToTake
<1>7. QED
  BY <1>1, <1>3, <1>4, <1>5, <1>6, StillToTake, EndsPut, Values

\* Every step keeps it so.
LEMMA NextEndsWell == IInv /\ IInv' /\ EndsWell /\ [Next]_vars => EndsWell'
<1> SUFFICES ASSUME IInv, IInv', EndsWell, [Next]_vars, ~ MessageLost', ~ CommandLost'
             PROVE  Ends(Outstanding', kbd', key_leds')
  BY DEF EndsWell
<1>0. /\ Typed
      /\ keycmd \in FifoType(CmdSize, Byte, {0}) /\ Ring(keycmd)
      /\ key_leds \in Lamps /\ key_leds' \in Lamps
      /\ kbd \in Keyboard /\ Contents(keycmd) \in Seq(Byte)
  BY Sizes, ContentsType DEF IInv, Typed, TypeOK, Keyboard
<1>a. /\ AsksAgain <=> kbd.answer = Resend \/ Asked(Contents(fifo))
      /\ AsksAgain' <=> kbd'.answer = Resend \/ Asked(Contents(fifo'))
  BY DEF AsksAgain, Asked
<1>b. ASSUME Outstanding' = Outstanding, key_leds' = key_leds, ~ MessageLost, ~ CommandLost,
             kbd'.lamps = kbd.lamps, kbd'.expects = kbd.expects
      PROVE  Ends(Outstanding', kbd', key_leds')
  BY <1>b DEF EndsWell, Ends
<1>1. CASE SendNext
  <2>1. /\ fifo32_status(keycmd) > 0 /\ keycmd_wait < 0 /\ wire = None
        /\ keycmd_wait' = GetReturns(keycmd) /\ wire' = keycmd_wait'
        /\ keycmd' = fifo32_get(keycmd)
        /\ UNCHANGED <<key_leds, fifo, kbd>>
    BY <1>1 DEF SendNext, MaySend
  <2>2. /\ Contents(keycmd) # << >> /\ keycmd_wait' = Head(Contents(keycmd))
        /\ Contents(keycmd') = Tail(Contents(keycmd)) /\ keycmd_wait' \in Byte
        /\ keycmd'.flags = keycmd.flags
    BY <1>0, <2>1, Sizes, GetRing
  <2>3. ~ MessageLost /\ ~ CommandLost
    BY <2>1, <2>2 DEF MessageLost, CommandLost
  <2>4. Outstanding = Contents(keycmd)
    BY <2>1, <2>3, StillToTake, Values
  <2>5. Outstanding' = <<Head(Contents(keycmd))>> \o Tail(Contents(keycmd))
    BY <2>1, <2>2, Values DEF Outstanding
  <2>6. Outstanding' = Outstanding
    BY <1>0, <2>2, <2>4, <2>5
  <2>7. QED
    BY <1>b, <2>1, <2>3, <2>6
<1>2. CASE UNCHANGED <<keycmd, keycmd_wait, key_leds, fifo, wire, kbd>>
  <2>1. Outstanding' = Outstanding /\ ~ MessageLost /\ ~ CommandLost
    BY <1>2 DEF Outstanding, AsksAgain, MessageLost, CommandLost
  <2>2. QED
    BY <1>2, <1>b, <2>1
<1>3. ASSUME NEW m, Take(m)
      PROVE  /\ ~ MessageLost /\ Contents(fifo) \in Seq(Message) /\ Contents(fifo) # << >>
             /\ m = Head(Contents(fifo)) /\ Contents(fifo') = Tail(Contents(fifo))
             /\ UNCHANGED kbd
             /\ m # Resend => AsksAgain' = AsksAgain
  <2>1. /\ ~ MessageLost /\ Contents(fifo) \in Seq(Message) /\ Contents(fifo) # << >>
        /\ m = Head(Contents(fifo)) /\ Contents(fifo') = Tail(Contents(fifo))
    BY <1>0, <1>3, TakeRing
  <2>2. UNCHANGED kbd
    BY <1>3 DEF Take
  <2>3. Asked(Contents(fifo)) <=> m = Resend \/ Asked(Contents(fifo'))
    BY <2>1, AskedTail
  <2>4. QED
    BY <1>a, <2>1, <2>2, <2>3 DEF AsksAgain
<1>4. ASSUME NEW m \in LockKeys, ReadLockKey(m)
      PROVE  Ends(Outstanding', kbd', key_leds')
  <2>1. /\ Take(m) /\ keycmd' = PutLeds(keycmd, key_leds')
        /\ UNCHANGED <<keycmd_wait, wire>>
    BY <1>4 DEF ReadLockKey
  <2>2. /\ ~ CommandLost
        /\ Contents(keycmd') = Append(Append(Contents(keycmd), KEYCMD_LED), key_leds')
    BY <1>0, <2>1, LedsAdded DEF CommandLost
  <2>3. ~ MessageLost /\ AsksAgain' = AsksAgain
    BY <1>3, <2>1, Values
  <2>4. CASE Settled
    <3>1. Outstanding' = << >> \o Contents(keycmd')
      BY <2>1, <2>3, <2>4, StillToTake DEF Outstanding
    <3>2. key_leds' \in Byte
      BY <1>0 DEF Byte
    <3>3. Contents(keycmd') \in Seq(Byte)
      BY <1>0, <2>2, <3>2, Values
    <3>4. Outstanding' = Contents(keycmd')
      BY <3>1, <3>3
    <3>5. QED
      BY <1>0, <2>2, <3>4, Values, EndsPut
  <2>5. CASE Pending
    <3>1. keycmd_wait \in Byte /\ Outstanding' = <<keycmd_wait>> \o Contents(keycmd')
      BY <2>1, <2>3, <2>5, StillToTake DEF Outstanding
    <3>2. QED
      BY <1>0, <2>2, <3>1, EndsPut
  <2>6. QED
    BY <2>3, <2>4, <2>5, StillToTake
<1>5. CASE ReadOther
  <2>1. Take(Other) /\ UNCHANGED <<keycmd, key_leds, keycmd_wait, wire>>
    BY <1>5 DEF ReadOther
  <2>2. ~ MessageLost /\ ~ CommandLost /\ AsksAgain' = AsksAgain /\ UNCHANGED kbd
    BY <1>3, <2>1 DEF CommandLost, Other, Resend
  <2>3. Outstanding' = Outstanding
    BY <2>1, <2>2 DEF Outstanding
  <2>4. QED
    BY <1>b, <2>1, <2>2, <2>3
<1>6. CASE ReadAck
  <2>1. Take(Ack) /\ UNCHANGED <<keycmd, key_leds, wire>>
    BY <1>6 DEF ReadAck
  <2>2. /\ ~ MessageLost /\ ~ CommandLost /\ AsksAgain' = AsksAgain /\ UNCHANGED kbd
        /\ Contents(fifo) \in Seq(Message) /\ Contents(fifo) # << >>
        /\ Ack = Head(Contents(fifo))
    BY <1>3, <2>1 DEF CommandLost, Ack, Resend
  <2>3. Settled
    <3>1. ~ NoAnswer(Contents(fifo)) /\ ~ OneAnswer(Contents(fifo), Resend)
      BY <2>2, Values, AnswersTail
    <3>2. ~ Pending
      BY <3>1 DEF Pending, OnWire, Answered, Coming
    <3>3. QED
      BY <2>2, <3>2, StillToTake
  <2>4. Outstanding' = Outstanding
    BY <2>1, <2>2, <2>3, StillToTake DEF Outstanding
  <2>5. QED
    BY <1>b, <2>1, <2>2, <2>4
<1>7. CASE ReadResend
  <2>1. Take(Resend) /\ wire' = keycmd_wait /\ UNCHANGED <<keycmd, key_leds, keycmd_wait>>
    BY <1>7 DEF ReadResend, SentAgain
  <2>2. /\ ~ MessageLost /\ ~ CommandLost /\ UNCHANGED kbd
        /\ Contents(fifo) \in Seq(Message) /\ Contents(fifo) # << >>
        /\ Resend = Head(Contents(fifo))
    BY <1>3, <2>1 DEF CommandLost
  <2>3. Pending
    <3>1. AsksAgain
      BY <1>a, <2>2, AskedTail
    <3>2. QED
      BY <2>2, <3>1, StillToTake
  <2>4. Outstanding' = Outstanding
    BY <2>1, <2>2, <2>3, StillToTake, Values DEF Outstanding
  <2>5. QED
    BY <1>b, <2>1, <2>2, <2>4
<1>8. ASSUME NEW m \in Message, Interrupt(m)
      PROVE  /\ ~ MessageLost /\ ~ CommandLost
             /\ UNCHANGED <<keycmd, keycmd_wait, key_leds, wire>>
             /\ Asked(Contents(fifo')) <=> Asked(Contents(fifo)) \/ m = Resend
  <2>1. UNCHANGED <<keycmd, keycmd_wait, key_leds, wire>>
    BY <1>8 DEF Interrupt
  <2>2. /\ Contents(fifo) \in Seq(Message) /\ ~ MessageLost
        /\ Contents(fifo') = Append(Contents(fifo), m)
    BY <1>0, <1>8, InterruptRing
  <2>3. QED
    BY <2>1, <2>2, AskedAppend DEF CommandLost
<1>9. ASSUME NEW m \in Message, m # Resend, Interrupt(m), UNCHANGED kbd
      PROVE  Ends(Outstanding', kbd', key_leds')
  <2>1. AsksAgain' = AsksAgain
    BY <1>8, <1>9, <1>a DEF AsksAgain
  <2>2. Outstanding' = Outstanding
    BY <1>8, <1>9, <2>1 DEF Outstanding
  <2>3. QED
    BY <1>8, <1>9, <1>b, <2>2
<1>10. ASSUME NEW m \in LockKeys, LockKey(m)
       PROVE  Ends(Outstanding', kbd', key_leds')
  BY <1>9, <1>10, Values DEF LockKey
<1>11. CASE OtherMessage
  <2>1. Other # Resend
    BY DEF Other, Resend
  <2>2. QED
    BY <1>9, <1>11, <2>1, Values DEF OtherMessage
<1>12. CASE Answer
  <2>1. PICK a \in {Ack, Resend} :
            kbd.answer = a /\ Interrupt(a) /\ kbd' = [kbd EXCEPT !.answer = None]
    BY <1>0, <1>12 DEF Answer, Keyboard
  <2>2. kbd'.answer = None /\ kbd'.expects = kbd.expects /\ kbd'.lamps = kbd.lamps
    BY <1>0, <2>1 DEF Keyboard
  <2>3. /\ ~ MessageLost /\ ~ CommandLost
        /\ UNCHANGED <<keycmd, keycmd_wait, key_leds, wire>>
        /\ Asked(Contents(fifo')) <=> Asked(Contents(fifo)) \/ a = Resend
    BY <1>8, <2>1, Values
  <2>4. AsksAgain' = AsksAgain
    BY <1>a, <2>1, <2>2, <2>3, Values DEF AsksAgain
  <2>5. Outstanding' = Outstanding
    BY <2>3, <2>4 DEF Outstanding
  <2>6. QED
    BY <1>b, <2>2, <2>3, <2>5
<1>13. ASSUME wire # None, wire' = None, UNCHANGED <<keycmd, keycmd_wait, key_leds, fifo>>
       PROVE  /\ ~ MessageLost /\ ~ CommandLost /\ wire = keycmd_wait /\ wire \in Byte
              /\ Outstanding = <<wire>> \o Contents(keycmd)
              /\ ~ Asked(Contents(fifo'))
  <2>1. ~ MessageLost /\ ~ CommandLost
    BY <1>13 DEF MessageLost, CommandLost
  <2>2. Pending /\ wire = keycmd_wait /\ wire \in Byte
        /\ Outstanding = <<wire>> \o Contents(keycmd)
    BY <1>13, <2>1, StillToTake
  <2>3. NoAnswer(Contents(fifo))
    BY <1>13, <2>2 DEF Pending, OnWire, Answered, Coming
  <2>4. QED
    BY <1>13, <2>1, <2>2, <2>3 DEF NoAnswer, Asked
<1>14. CASE Accept
  <2>1. /\ Obeys(kbd, wire) /\ wire # None /\ wire' = None
        /\ kbd' = [Obey(kbd, wire) EXCEPT !.answer = Ack]
        /\ UNCHANGED <<keycmd, keycmd_wait, key_leds, fifo>>
    BY <1>14 DEF Accept, Receive
  <2>2. /\ ~ MessageLost /\ ~ CommandLost /\ wire = keycmd_wait /\ wire \in Byte
        /\ Outstanding = <<wire>> \o Contents(keycmd)
        /\ ~ Asked(Contents(fifo'))
    BY <1>13, <2>1
  <2>3. /\ Obey(kbd, wire) \in Keyboard
        /\ Obey(kbd, wire).expects = After(wire)
        /\ wire # KEYCMD_LED => Obey(kbd, wire).lamps = wire
    BY <1>0, <2>1, <2>2 DEF Obey, Obeys, After, Byte, Keyboard
  <2>4. /\ kbd'.expects = After(wire) /\ kbd'.answer = Ack
        /\ wire # KEYCMD_LED => kbd'.lamps = wire
    BY <2>1, <2>3 DEF Keyboard
  <2>5. Outstanding' = Contents(keycmd)
    <3>1. wire' = None /\ ~ AsksAgain'
      BY <1>a, <2>1, <2>2, <2>4, Values
    <3>2. Outstanding' = << >> \o Contents(keycmd)
      BY <2>1, <3>1 DEF Outstanding
    <3>3. QED
      BY <1>0, <3>2
  <2>6. Ends(<<wire>> \o Contents(keycmd), kbd, key_leds)
    BY <2>2 DEF EndsWell
  <2>7. Ends(Contents(keycmd), kbd', key_leds)
    BY <1>0, <2>2, <2>4, <2>6, EndsTaken
  <2>8. QED
    BY <2>1, <2>5, <2>7
<1>15. CASE Refuse
  <2>1. /\ wire # None /\ wire' = None
        /\ kbd' = [kbd EXCEPT !.answer = Resend]
        /\ UNCHANGED <<keycmd, keycmd_wait, key_leds, fifo>>
    BY <1>15 DEF Refuse, Receive
  <2>2. /\ ~ MessageLost /\ ~ CommandLost /\ wire = keycmd_wait
        /\ Outstanding = <<wire>> \o Contents(keycmd)
    BY <1>13, <2>1
  <2>3. kbd'.expects = kbd.expects /\ kbd'.lamps = kbd.lamps /\ kbd'.answer = Resend
    BY <1>0, <2>1 DEF Keyboard
  <2>4. AsksAgain'
    BY <1>a, <2>3
  <2>5. Outstanding' = Outstanding
    BY <2>1, <2>2, <2>4 DEF Outstanding
  <2>6. QED
    BY <1>b, <2>1, <2>2, <2>3, <2>5
<1>16. CASE NothingToSend \/ GoToSleep \/ UNCHANGED vars
  <2>1. UNCHANGED <<keycmd, keycmd_wait, key_leds, fifo, wire, kbd>>
    BY <1>16 DEF NothingToSend, GoToSleep, vars
  <2>2. QED
    BY <1>2, <2>1
<1>17. QED
  BY <1>1, <1>4, <1>5, <1>6, <1>7, <1>10, <1>11, <1>12, <1>14, <1>15, <1>16 DEF Next, Loop

\* As long as neither FIFO has dropped anything, the lamps that the keyboard will
\* show when it has taken every byte are bootpack.c's key_leds, whatever it
\* refuses and however often lock keys are struck.
THEOREM LampsOnTheWay == Spec => []LedsOnTheWay
<1>1. IInv /\ EndsWell => LedsOnTheWay
  <2> SUFFICES ASSUME IInv, EndsWell, ~ MessageLost, ~ CommandLost
               PROVE  /\ FoldLeft(Obey, kbd, Outstanding).lamps = key_leds
                      /\ FoldLeft(Obey, kbd, Outstanding).expects = "command"
    BY Zenon DEF LedsOnTheWay
  <2>1. kbd \in Keyboard /\ key_leds \in Lamps
    BY DEF IInv, Typed, TypeOK, Keyboard
  <2>2. Outstanding \in Seq(Byte)
    <3>1. CASE Settled
      BY <3>1, StillToTake
    <3>2. CASE Pending
      <4>1. /\ keycmd_wait \in Byte /\ Contents(keycmd) \in Seq(Byte)
            /\ Outstanding = <<keycmd_wait>> \o Contents(keycmd)
        BY <3>2, StillToTake
      <4>2. QED
        BY <4>1
    <3>3. QED
      BY <3>1, <3>2, StillToTake
  <2>3. Ends(Outstanding, kbd, key_leds)
    BY DEF EndsWell
  <2>4. QED
    BY <2>1, <2>2, <2>3, EndShows
<1>2. QED
  BY <1>1, InitEndsWell, NextEndsWell, Invariant, PTL DEF Spec
=============================================================================
