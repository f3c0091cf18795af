------------------------------- MODULE KbdLed -------------------------------
(***************************************************************************)
(* The keyboard's lamps: for every lock key task_a queues a command and    *)
(* the new lamps (bootpack.c), sends one byte, waits until the keyboard    *)
(* has accepted it or asks for it again, and sends the next.  The answers  *)
(* come through task_a's FIFO, among key strokes and other messages.       *)
(***************************************************************************)
EXTENDS FifoOps, SequencesExt

CONSTANTS CmdSize,     \* entries of keycmd, 32 in the code
          FifoSize,    \* entries of task_a's FIFO, 128 in the code
          LockKeys,    \* the bits of key_leds that keys change
          StartLeds,   \* what the firmware notes, and what the lamps show, at boot
          MaxStrokes   \* bound: strokes of lock keys

ASSUME SizesAssumption == CmdSize \in Nat \ {0, 1} /\ FifoSize \in Nat \ {0}
ASSUME LedsAssumption == StartLeds \subseteq 0 .. 7
ASSUME KeysAssumption == LockKeys \subseteq {1, 2, 4} /\ MaxStrokes \in Nat

KEYCMD_LED == 237             \* 0xed
Lamps == 0 .. 7
Byte == Lamps \cup {KEYCMD_LED}
None == -1

\* Messages in task_a's FIFO: a lock key (its bit), the keyboard's two answers,
\* and whatever else task_a reads.
Ack == 250                    \* 0xfa
Resend == 254                 \* 0xfe
Other == 0
Message == LockKeys \cup {Ack, Resend, Other}

VARIABLES keycmd, keycmd_wait, key_leds,      \* HariMain's variables
          fifo, flags,                        \* task_a's FIFO and its TASK.flags
          at,                                 \* where task_a is in its loop
          wire,                               \* the byte in the controller, or None
          kbd,                                \* the keyboard: what its lamps show, what
                                              \* it expects, the answer it gives
          strokes                             \* lock keys struck so far

vars == <<keycmd, keycmd_wait, key_leds, fifo, flags, at, wire, kbd, strokes>>

-----------------------------------------------------------------------------
\* key_leds ^= bit.  (A variant adds.)
FlipAdds(leds, bit) == leds + bit
Flip(leds, bit) == IF (leds \div bit) % 2 = 1 THEN leds - bit ELSE leds + bit

\* The two puts that ask for lamps.  (A variant forgets the command.)
LampsOnly(q, leds) == fifo32_put(q, leds)
PutLeds(q, leds) == fifo32_put(fifo32_put(q, KEYCMD_LED), leds)

\* HariMain starts from the lamps the firmware has noted, which may not be what
\* the keyboard shows, and asks for them at once.
Init == /\ key_leds \in StartLeds
        /\ keycmd = PutLeds(fifo32_init(CmdSize, [i \in 0 .. CmdSize - 1 |-> 0], 0),
                            key_leds)
        /\ keycmd_wait = None
        /\ fifo = fifo32_init(FifoSize, [i \in 0 .. FifoSize - 1 |-> 0], 1)
        /\ flags = 2
        /\ at = "send"
        /\ wire = None
        /\ kbd \in [lamps : StartLeds, expects : {"command"}, answer : {None}]
        /\ strokes = 0

-----------------------------------------------------------------------------
\* task_a, from the top of its loop.  (A variant does not wait for the answer.)
SendsUnasked(q, wait) == fifo32_status(q) > 0
MaySend(q, wait) == fifo32_status(q) > 0 /\ wait < 0

\* wait_KBC_sendready spins while the controller holds a byte.
SendNext == /\ at = "send" /\ flags = 2
            /\ MaySend(keycmd, keycmd_wait)
            /\ wire = None
            /\ keycmd_wait' = GetReturns(keycmd)
            /\ wire' = keycmd_wait'
            /\ keycmd' = fifo32_get(keycmd)
            /\ at' = "read"
            /\ UNCHANGED <<key_leds, fifo, flags, kbd, strokes>>

NothingToSend == /\ at = "send" /\ flags = 2
                 /\ ~ MaySend(keycmd, keycmd_wait)
                 /\ at' = "read"
                 /\ UNCHANGED <<keycmd, keycmd_wait, key_leds, fifo, flags, wire, kbd,
                                strokes>>

GoToSleep == /\ at = "read" /\ flags = 2
             /\ fifo32_status(fifo) = 0
             /\ flags' = 1
             /\ at' = "send"
             /\ UNCHANGED <<keycmd, keycmd_wait, key_leds, fifo, wire, kbd, strokes>>

\* Message m is taken from the FIFO; the loop goes round.
Take(m) == /\ at = "read" /\ flags = 2
           /\ fifo32_status(fifo) > 0
           /\ m = GetReturns(fifo)
           /\ fifo' = fifo32_get(fifo)
           /\ at' = "send"
           /\ UNCHANGED <<flags, kbd, strokes>>

ReadLockKey(m) == /\ Take(m)
                  /\ key_leds' = Flip(key_leds, m)
                  /\ keycmd' = PutLeds(keycmd, key_leds')
                  /\ UNCHANGED <<keycmd_wait, wire>>

ReadAck == /\ Take(Ack)
           /\ keycmd_wait' = None
           /\ UNCHANGED <<keycmd, key_leds, wire>>

\* The byte that is sent when the keyboard asks again.  (A variant sends the
\* one that is next in the queue.)
SendsNextOne(q, wait) == IF fifo32_status(q) > 0 THEN GetReturns(q) ELSE wait
SentAgain(q, wait) == wait

ReadResend == /\ Take(Resend)
              /\ wire = None
              /\ wire' = SentAgain(keycmd, keycmd_wait)
              /\ UNCHANGED <<keycmd, keycmd_wait, key_leds>>

ReadOther == Take(Other) /\ UNCHANGED <<keycmd, keycmd_wait, key_leds, wire>>

Loop == \/ SendNext
        \/ NothingToSend
        \/ GoToSleep
        \/ \E m \in LockKeys : ReadLockKey(m)
        \/ ReadAck
        \/ ReadResend
        \/ ReadOther
-----------------------------------------------------------------------------
\* inthandler21, and the handlers of the mouse and the timer, put a message.
Interrupt(m) == /\ fifo' = fifo32_put(fifo, m)
                /\ flags' = IF Wakes(fifo, flags) THEN 2 ELSE flags
                /\ UNCHANGED <<keycmd, keycmd_wait, key_leds, at, wire>>

LockKey(m) == /\ strokes < MaxStrokes
              /\ Interrupt(m)
              /\ strokes' = strokes + 1
              /\ UNCHANGED kbd

OtherMessage == Interrupt(Other) /\ UNCHANGED <<kbd, strokes>>

Answer == /\ kbd.answer # None
          /\ Interrupt(kbd.answer)
          /\ kbd' = [kbd EXCEPT !.answer = None]
          /\ UNCHANGED strokes

\* The keyboard takes a command at any time, lamps only after the command, and
\* may ask for any byte once more.
Obeys(k, byte) == byte = KEYCMD_LED \/ k.expects = "lamps"
Obey(k, byte) ==
    IF byte = KEYCMD_LED
    THEN [k EXCEPT !.expects = "lamps"]
    ELSE [k EXCEPT !.lamps = IF Obeys(k, byte) THEN byte ELSE @, !.expects = "command"]

Receive(k) == /\ wire # None /\ kbd.answer = None
              /\ wire' = None
              /\ kbd' = k
              /\ UNCHANGED <<keycmd, keycmd_wait, key_leds, fifo, flags, at, strokes>>

Accept == Obeys(kbd, wire) /\ Receive([Obey(kbd, wire) EXCEPT !.answer = Ack])
Refuse == Receive([kbd EXCEPT !.answer = Resend])

Next == \/ Loop
        \/ \E m \in LockKeys : LockKey(m)
        \/ OtherMessage \/ Answer \/ Accept \/ Refuse

\* task_a, the most urgent task, gets its turns; the keyboard reacts to a byte
\* and does not refuse for ever; its answer interrupts.
Spec == /\ Init /\ [][Next]_vars
        /\ WF_vars(Loop)
        /\ WF_vars(Answer)
        /\ WF_vars(Accept \/ Refuse) /\ SF_vars(Accept)

-----------------------------------------------------------------------------
TypeOK ==
    /\ keycmd \in FifoType(CmdSize, Byte, {0})
    /\ keycmd_wait \in Byte \cup {None} /\ key_leds \in Lamps
    /\ fifo \in FifoType(FifoSize, Message, {1}) /\ flags \in {1, 2}
    /\ at \in {"send", "read"}
    /\ wire \in Byte \cup {None}
    /\ kbd \in [lamps : Lamps, expects : {"command", "lamps"}, answer : {None, Ack, Resend}]
    /\ strokes \in 0 .. MaxStrokes

\* A lost message may have been the keyboard's answer, a lost command its lamps.
MessageLost == fifo.flags = FLAGS_OVERRUN
CommandLost == keycmd.flags = FLAGS_OVERRUN

\* Where the byte that task_a waits for is: on its way there, or its answer on
\* the way back.
AnswersIn(s) == {i \in DOMAIN s : s[i] \in {Ack, Resend}}
OnItsWay == (IF wire # None THEN 1 ELSE 0) + (IF kbd.answer # None THEN 1 ELSE 0)
                + Cardinality(AnswersIn(Contents(fifo)))

\* task_a has exactly one byte under way while keycmd_wait holds it, and none
\* otherwise: bootpack.c answers every resend request, so an answer without a
\* byte would send -1, and a second byte would take the first one's answer.
OneByteOut ==
    ~ MessageLost =>
        /\ OnItsWay = IF keycmd_wait = None THEN 0 ELSE 1
        /\ wire \in {None, keycmd_wait}

\* The bytes the keyboard has still to take, from the keyboard's side.
AsksAgain == kbd.answer = Resend \/ \E i \in DOMAIN Contents(fifo) : Contents(fifo)[i] = Resend
Outstanding == (IF wire # None THEN <<wire>>
                ELSE IF AsksAgain THEN <<keycmd_wait>> ELSE << >>)
               \o Contents(keycmd)

\* However full keycmd was, lamps never lose their command: what the keyboard
\* gets is a sequence of commands each followed by lamps or by a new command.
CommandsWhole ==
    ~ MessageLost =>
        \A i \in DOMAIN Outstanding :
            \/ Outstanding[i] = KEYCMD_LED
            \/ IF i = 1 THEN kbd.expects = "lamps" ELSE Outstanding[i - 1] = KEYCMD_LED

\* As long as nothing was dropped, the lamps the keyboard will show when it has
\* taken every byte are key_leds, through all resends.
LedsOnTheWay ==
    ~ MessageLost /\ ~ CommandLost =>
        LET last == FoldLeft(Obey, kbd, Outstanding)
        IN  last.lamps = key_leds /\ last.expects = "command"

\* And in the end the lamps show key_leds: bootpack.c leaves no byte unsent.
LedsFollow == <>[](MessageLost \/ CommandLost \/ kbd.lamps = key_leds)
=============================================================================
