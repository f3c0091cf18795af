------------------------------- MODULE Kernel -------------------------------
(***************************************************************************)
(* The running kernel: the interrupt handlers, task_a (HariMain's loop),   *)
(* the console and the idle task, with the FIFOs of fifo.c, the scheduler  *)
(* of mtask.c and the two cursor timers between them.                      *)
(*                                                                         *)
(* An action is a stretch of code that nothing interrupts: an interrupt    *)
(* handler with the task_switch at its end; a main loop's turn from io_cli *)
(* to io_sti; or one memory access of code that runs with interrupts on.   *)
(* The only such code that shares data with a handler is task_a's          *)
(* fifo32_put into the console's FIFO: fifo.c and mtask.c do not turn      *)
(* interrupts off, and the cursor timer's interrupt puts into the same     *)
(* FIFO.  Its steps are the loads and stores the compiler emits, in their  *)
(* order (fifo.lst, mtask.lst).                                            *)
(*                                                                         *)
(* Time is abstracted: a set timer may be up on any timer interrupt.  The  *)
(* model starts where both tasks have reached their main loops.            *)
(***************************************************************************)
EXTENDS FifoOps, MTaskOps

CONSTANTS SizeA, SizeC,   \* entries of the two FIFOs (128 and 128)
          Users,          \* what users type: the keys, "char" or "tab", and
                          \* a bound on their strokes
          Leftover        \* what the console's buffer may hold uninitialised

ASSUME KernelSizes == /\ SizeA \in Nat \ {0} /\ SizeC \in Nat \ {0}
                      /\ Users \subseteq [keys : SUBSET {"char", "tab"}, strokes : Nat]
                      /\ MAX_TASKS >= 3 /\ MAX_TASKLEVELS >= 4

A == 1                    \* task_a, level 1
Idle == 2                 \* the idle task, on the last level
C == 3                    \* task_console, level 2
LevelA == 1
LevelC == 2

\* The messages: a cursor timer's 0 or 1, key codes and characters, and the
\* console's 2 and 3 (cursor on and off).
Messages == {"cursor", "char", "tab", "on", "off"} \cup Leftover

VARIABLES taskctl,        \* struct TASKCTL
          cpu,            \* the task that runs
          fifoA, fifoC,   \* HariMain's fifo and task_console->fifo
          armed,          \* the tasks whose cursor timer is set
          pc,             \* where tasks A and C are
          hand,           \* the message each of them has read last
          reg,            \* what A has loaded into its registers
          key_to,         \* where A sends characters: 0 itself, 1 the console
          user,           \* who types
          keys,           \* key strokes still to come
          fault           \* why the machine stopped, "none" while it runs

vars == <<taskctl, cpu, fifoA, fifoC, armed, pc, hand, reg, key_to, user, keys,
          fault>>

-----------------------------------------------------------------------------
(* The initial state: boot is over, A sleeps, the console has drawn its     *)
(* prompt and both cursor timers are set.                                   *)

Booted ==
    LET entry(t) == [i \in 0 .. MAX_TASKS_LV - 1 |-> IF i = 0 THEN t ELSE Garbage]
    IN  [now_level |-> LevelC, level_change |-> 0,
         level |-> [l \in Level |->
             IF l = 0 THEN [running |-> 0, now |-> 1, tasks |-> entry(A)]
             ELSE IF l = LevelA THEN [running |-> 0, now |-> 0, tasks |-> entry(A)]
             ELSE IF l = LevelC THEN [running |-> 1, now |-> 0, tasks |-> entry(C)]
             ELSE IF l = MAX_TASKLEVELS - 1
                  THEN [running |-> 1, now |-> 0, tasks |-> entry(Idle)]
             ELSE [running |-> 0, now |-> 0, tasks |-> entry(Garbage)]],
         tasks0 |-> [t \in Task |->
             IF t = A THEN [flags |-> 1, level |-> LevelA, priority |-> 2]
             ELSE IF t = C THEN [flags |-> 2, level |-> LevelC, priority |-> 2]
             ELSE IF t = Idle
                  THEN [flags |-> 2, level |-> MAX_TASKLEVELS - 1, priority |-> 1]
             ELSE [flags |-> 0, level |-> 0, priority |-> 0]]]

Init ==
    /\ taskctl = Booted
    /\ cpu = C
    /\ \E x \in Leftover : fifoA = fifo32_init(SizeA, [i \in 0 .. SizeA - 1 |-> x], A)
    /\ \E memory \in [0 .. SizeC - 1 -> Leftover] : fifoC = fifo32_init(SizeC, memory, C)
    /\ armed = {A, C}
    /\ pc = [t \in {A, C} |-> IF t = A THEN "slept" ELSE "loop"]
    /\ hand = [t \in {A, C} |-> "off"]
    /\ reg = [eax |-> 0, ecx |-> 0]
    /\ key_to = 0
    /\ user \in Users
    /\ keys = user.strokes
    /\ fault = "none"

-----------------------------------------------------------------------------
(* Interrupts.  They are off while a task that has just been resumed is on  *)
(* its way out of task_sleep.                                               *)

Interruptible == fault = "none" /\ (cpu # Idle => pc[cpu] # "slept")

\* The owner of f is woken if the put of a handler says so.
WakeFor(k, f) ==
    IF Wakes(f, k.tasks0[f.task].flags) THEN task_run(k, f.task, -1, 0) ELSE k

\* inthandler21: a key for task A.
KeyInterrupt(key) ==
    /\ Interruptible
    /\ keys > 0 /\ key \in user.keys
    /\ keys' = keys - 1
    /\ fifoA' = fifo32_put(fifoA, key)
    /\ taskctl' = WakeFor(taskctl, fifoA)
    /\ UNCHANGED <<cpu, fifoC, armed, pc, hand, reg, key_to, user, fault>>

\* What a handler's put into f breaks, "none" in general: a write index that has
\* left the array, or a list of running tasks that has no entry left.
Breaks(k, f) ==
    IF f.free = 0 THEN "none"
    ELSE IF f.write_buf \notin DOMAIN f.buf THEN "store_outside_the_buffer"
    ELSE IF Wakes(f, k.tasks0[f.task].flags) /\ ListFull(k, f.task)
         THEN "store_outside_the_list"
    ELSE "none"

\* inthandler20: the timers of the tasks in `up' have come, and task_timer too
\* if slice.
TimerInterrupt(up, slice) ==
    /\ Interruptible
    /\ up # {} \/ slice
    /\ fault' = IF C \in up THEN Breaks(taskctl, fifoC) ELSE "none"
    /\ IF fault' # "none"
       THEN UNCHANGED <<taskctl, cpu, fifoA, fifoC, armed>>
       ELSE LET k1 == IF A \in up THEN WakeFor(taskctl, fifoA) ELSE taskctl
                k2 == IF C \in up THEN WakeFor(k1, fifoC) ELSE k1
            IN  /\ taskctl' = IF slice THEN task_switch(k2) ELSE k2
                /\ cpu' = IF slice THEN task_now(taskctl') ELSE cpu
                /\ fifoA' = IF A \in up THEN fifo32_put(fifoA, "cursor") ELSE fifoA
                /\ fifoC' = IF C \in up THEN fifo32_put(fifoC, "cursor") ELSE fifoC
                /\ armed' = armed \ up
    /\ UNCHANGED <<pc, hand, reg, key_to, user, keys>>

-----------------------------------------------------------------------------
(* A main loop's turn: with interrupts off, read a message or go to sleep.  *)

Runs(t, where) == fault = "none" /\ cpu = t /\ pc[t] = where
Goto(t, where) == pc' = [pc EXCEPT ![t] = where]

\* A variant of the two actions below: the test is made with interrupts on, so
\* that a message may come before task_sleep.
SleepBlindly(t, f) == TRUE
MaySleep(t, f) == fifo32_status(f) = 0

\* task_sleep hands the processor over; a far jump to the task's own TSS, which
\* is busy, is a general protection exception.
GoToSleep(t, f) ==
    /\ Runs(t, "loop")
    /\ MaySleep(t, f)
    /\ taskctl' = task_sleep(taskctl, t)
    /\ cpu' = task_now(taskctl')
    /\ fault' = IF cpu' = t THEN "far_jump_to_itself" ELSE fault
    /\ Goto(t, "slept")
    /\ UNCHANGED <<fifoA, fifoC, armed, hand, reg, key_to, user, keys>>

\* Back from task_sleep: io_sti and the next turn.
WakeUp(t) ==
    /\ Runs(t, "slept")
    /\ Goto(t, "loop")
    /\ UNCHANGED <<taskctl, cpu, fifoA, fifoC, armed, hand, reg, key_to, user, keys, fault>>

ReadA ==
    /\ Runs(A, "loop")
    /\ fifo32_status(fifoA) # 0
    /\ hand' = [hand EXCEPT ![A] = GetReturns(fifoA)]
    /\ fifoA' = fifo32_get(fifoA)
    /\ Goto(A, "handle")
    /\ UNCHANGED <<taskctl, cpu, fifoC, armed, reg, key_to, user, keys, fault>>

ReadC ==
    /\ Runs(C, "loop")
    /\ fifo32_status(fifoC) # 0
    /\ hand' = [hand EXCEPT ![C] = GetReturns(fifoC)]
    /\ fifoC' = fifo32_get(fifoC)
    /\ Goto(C, "handle")
    /\ UNCHANGED <<taskctl, cpu, fifoA, armed, reg, key_to, user, keys, fault>>

\* A cursor message: timer_init and timer_settime of the task's timer.  A timer
\* that is still on the list would be linked in twice.
SetCursorTimer(t) ==
    /\ Runs(t, "handle")
    /\ hand[t] = "cursor"
    /\ fault' = IF t \in armed THEN "timer_linked_twice" ELSE fault
    /\ armed' = armed \cup {t}
    /\ Goto(t, "loop")
    /\ UNCHANGED <<taskctl, cpu, fifoA, fifoC, hand, reg, key_to, user, keys>>

\* Messages that only draw: a character A keeps, all but the timer's in C.
Draw(t) ==
    /\ Runs(t, "handle")
    /\ hand[t] # "cursor"
    /\ t = A => hand[t] = "char" /\ key_to = 0
    /\ Goto(t, "loop")
    /\ UNCHANGED <<taskctl, cpu, fifoA, fifoC, armed, hand, reg, key_to, user, keys, fault>>

-----------------------------------------------------------------------------
(* Task A passes a message on: fifo32_put(&task_console->fifo, m), one      *)
(* access at a time.                                                        *)

\* A character for the console, or Tab, which moves the focus and tells the
\* console to show or hide its cursor.
PassOn ==
    /\ Runs(A, "handle")
    /\ \/ /\ hand[A] = "char" /\ key_to = 1
          /\ UNCHANGED <<hand, key_to>>
       \/ /\ hand[A] = "tab"
          /\ key_to' = 1 - key_to
          /\ hand' = [hand EXCEPT ![A] = IF key_to = 0 THEN "on" ELSE "off"]
    /\ Goto(A, "put_test")
    /\ UNCHANGED <<taskctl, cpu, fifoA, fifoC, armed, reg, user, keys, fault>>

PutTest ==
    /\ Runs(A, "put_test")
    /\ IF fifoC.free = 0
       THEN /\ fifoC' = [fifoC EXCEPT !.flags = FLAGS_OVERRUN]
            /\ Goto(A, "loop")
       ELSE /\ Goto(A, "put_load")
            /\ UNCHANGED fifoC
    /\ UNCHANGED <<taskctl, cpu, fifoA, armed, hand, reg, key_to, user, keys, fault>>

PutLoad ==
    /\ Runs(A, "put_load")
    /\ reg' = [reg EXCEPT !.ecx = fifoC.write_buf]
    /\ Goto(A, "put_store")
    /\ UNCHANGED <<taskctl, cpu, fifoA, fifoC, armed, hand, key_to, user, keys, fault>>

PutStore ==
    /\ Runs(A, "put_store")
    /\ IF reg.ecx \in DOMAIN fifoC.buf
       THEN /\ fifoC' = [fifoC EXCEPT !.buf[reg.ecx] = hand[A]]
            /\ UNCHANGED fault
       ELSE /\ fault' = "store_outside_the_buffer"
            /\ UNCHANGED fifoC
    /\ Goto(A, "put_next")
    /\ UNCHANGED <<taskctl, cpu, fifoA, armed, hand, reg, key_to, user, keys>>

PutNext ==
    /\ Runs(A, "put_next")
    /\ reg' = [reg EXCEPT !.eax = fifoC.write_buf + 1]
    /\ Goto(A, "put_index")
    /\ UNCHANGED <<taskctl, cpu, fifoA, fifoC, armed, hand, key_to, user, keys, fault>>

\* The new index is in memory before it is compared with the size.
PutIndex ==
    /\ Runs(A, "put_index")
    /\ fifoC' = [fifoC EXCEPT !.write_buf = reg.eax]
    /\ Goto(A, IF reg.eax = SizeC THEN "put_wrap" ELSE "put_free")
    /\ UNCHANGED <<taskctl, cpu, fifoA, armed, hand, reg, key_to, user, keys, fault>>

PutWrap ==
    /\ Runs(A, "put_wrap")
    /\ fifoC' = [fifoC EXCEPT !.write_buf = 0]
    /\ Goto(A, "put_free")
    /\ UNCHANGED <<taskctl, cpu, fifoA, armed, hand, reg, key_to, user, keys, fault>>

\* free-- is one instruction.
PutFree ==
    /\ Runs(A, "put_free")
    /\ fifoC' = [fifoC EXCEPT !.free = @ - 1]
    /\ Goto(A, "put_wake")
    /\ UNCHANGED <<taskctl, cpu, fifoA, armed, hand, reg, key_to, user, keys, fault>>

\* A variant of the test: the owner's flags are compared with 0.
WakeUnused(k, t) == k.tasks0[t].flags = 0
Asleep(k, t) == k.tasks0[t].flags # 2

PutWake ==
    /\ Runs(A, "put_wake")
    /\ Goto(A, IF Asleep(taskctl, C) THEN "run_test" ELSE "loop")
    /\ UNCHANGED <<taskctl, cpu, fifoA, fifoC, armed, hand, reg, key_to, user, keys, fault>>

\* task_run(task_console, -1, 0): its level stays, so only the second test of
\* flags matters, then task_add, then the request for a level change.
RunTest ==
    /\ Runs(A, "run_test")
    /\ Goto(A, IF Asleep(taskctl, C) THEN "add_load" ELSE "run_change")
    /\ UNCHANGED <<taskctl, cpu, fifoA, fifoC, armed, hand, reg, key_to, user, keys, fault>>

AddLoad ==
    /\ Runs(A, "add_load")
    /\ reg' = [reg EXCEPT !.eax = taskctl.level[LevelC].running]
    /\ Goto(A, "add_store")
    /\ UNCHANGED <<taskctl, cpu, fifoA, fifoC, armed, hand, key_to, user, keys, fault>>

AddStore ==
    /\ Runs(A, "add_store")
    /\ IF reg.eax < MAX_TASKS_LV
       THEN /\ taskctl' = [taskctl EXCEPT !.level[LevelC] =
                               [@ EXCEPT !.tasks[reg.eax] = C, !.running = reg.eax + 1]]
            /\ UNCHANGED fault
       ELSE /\ fault' = "store_outside_the_list"
            /\ UNCHANGED taskctl
    /\ Goto(A, "add_flags")
    /\ UNCHANGED <<cpu, fifoA, fifoC, armed, hand, reg, key_to, user, keys>>

AddFlags ==
    /\ Runs(A, "add_flags")
    /\ taskctl' = [taskctl EXCEPT !.tasks0[C].flags = 2]
    /\ Goto(A, "run_change")
    /\ UNCHANGED <<cpu, fifoA, fifoC, armed, hand, reg, key_to, user, keys, fault>>

RunChange ==
    /\ Runs(A, "run_change")
    /\ taskctl' = [taskctl EXCEPT !.level_change = 1]
    /\ Goto(A, "loop")
    /\ UNCHANGED <<cpu, fifoA, fifoC, armed, hand, reg, key_to, user, keys, fault>>

-----------------------------------------------------------------------------
\* After a fault nothing is modelled.
Down == fault # "none" /\ UNCHANGED vars

StepA == \/ GoToSleep(A, fifoA) \/ WakeUp(A) \/ ReadA \/ SetCursorTimer(A) \/ Draw(A)
         \/ PassOn \/ PutTest \/ PutLoad \/ PutStore \/ PutNext \/ PutIndex
         \/ PutWrap \/ PutFree \/ PutWake
         \/ RunTest \/ AddLoad \/ AddStore \/ AddFlags \/ RunChange
StepC == GoToSleep(C, fifoC) \/ WakeUp(C) \/ ReadC \/ SetCursorTimer(C) \/ Draw(C)

Next == \/ \E key \in {"char", "tab"} : KeyInterrupt(key)
        \/ \E up \in SUBSET armed, slice \in BOOLEAN : TimerInterrupt(up, slice)
        \/ StepA
        \/ StepC
        \/ Down

\* Timers run out, task_timer among them: a deadline stands, and interrupts are
\* held off for a few instructions only.  A task that gets the processor again
\* and again executes its instructions, and A gets to sleep before its cursor
\* timer is up again: timer interrupts are 10 ms apart, that timer runs 500 ms.
Fairness ==
    /\ \A t \in {A, C} :
           SF_vars(\E up \in SUBSET armed, slice \in BOOLEAN :
                       t \in up /\ TimerInterrupt(up, slice))
    /\ SF_vars(TimerInterrupt({}, TRUE))
    /\ SF_vars(GoToSleep(A, fifoA))
    /\ SF_vars(StepA)
    /\ SF_vars(StepC)

Spec == Init /\ [][Next]_vars /\ Fairness

-----------------------------------------------------------------------------
InPut == pc[A] \notin {"loop", "slept", "handle"}
InRun == pc[A] \in {"run_test", "add_load", "add_store", "add_flags", "run_change"}

TypeOK ==
    /\ taskctl \in TaskctlType
    /\ cpu \in {A, C, Idle}
    /\ fifoA \in FifoType(SizeA, Messages, {A})
    /\ armed \subseteq {A, C}
    /\ hand \in [{A, C} -> Messages]
    /\ user \in Users /\ keys \in 0 .. user.strokes

\* A task sleeps only if nothing waits for it: a message and the wake-up that
\* comes with it never fall between the loop's test and task_sleep.  (While A
\* passes a message on, its wake-up is still to come.)
NoLostWakeup ==
    fault = "none" =>
        /\ taskctl.tasks0[A].flags = 1 => fifo32_status(fifoA) = 0
        /\ taskctl.tasks0[C].flags = 1 => fifo32_status(fifoC) = 0 \/ InPut

\* The most urgent active task runs, or a task_switch that will change the
\* level has been asked for; the task the scheduler believes to run does run.
UrgentFirst ==
    fault = "none" =>
        /\ task_now(taskctl) = cpu
        /\ taskctl.level_change = 0 /\ ~InRun =>
               \A t \in {A, C, Idle} : taskctl.tasks0[t].flags = 2 =>
                   taskctl.tasks0[t].level >= taskctl.tasks0[cpu].level

Waiting(f, m) == Cardinality({i \in 1 .. fifo32_status(f) : Contents(f)[i] = m})

\* A cursor timer is re-armed only by the message of its last ring, so exactly
\* one of these holds at any time: the timer is set, its message waits, the
\* task has it in hand.  Only a message lost to a full FIFO ends the chain, and,
\* in the console, a put of task_a that a timer interrupt got between.
TypingOnly == "tab" \notin user.keys
OneOf(t, f) ==
    (IF t \in armed THEN 1 ELSE 0) + Waiting(f, "cursor")
        + (IF pc[t] = "handle" /\ hand[t] = "cursor" THEN 1 ELSE 0) = 1
CursorAlive ==
    fault = "none" =>
        /\ fifoA.flags # FLAGS_OVERRUN => OneOf(A, fifoA)
        /\ TypingOnly /\ fifoC.flags # FLAGS_OVERRUN => OneOf(C, fifoC)

\* bootpack.h:233: running is the number of running tasks of the level.
RunningCounts ==
    fault = "none" /\ ~InRun =>
        \A l \in Level : taskctl.level[l].running = Cardinality(Active(taskctl, l))

\* As long as the user types into task_a's window, the machine goes on, and the
\* levels count their tasks right.
TypingIsSafe == TypingOnly => fault = "none" /\ RunningCounts

\* Then, too, every key stroke that is accepted reaches task_a's hands, and the
\* console's cursor blinks for ever, however often task_a runs.
Responsive ==
    TypingOnly =>
        /\ (\E i \in 1 .. fifo32_status(fifoA) : Contents(fifoA)[i] = "char")
               ~> (hand[A] = "char")
        /\ []<>(pc[C] = "handle" /\ hand[C] = "cursor")
=============================================================================
