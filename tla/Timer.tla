------------------------------- MODULE Timer -------------------------------
(***************************************************************************)
(* The timers (timer.c): a linked list in order of time that ends with a   *)
(* sentinel, the count of ticks, and the interrupt handler that takes the  *)
(* due timers off the list.                                                *)
(*                                                                         *)
(* timer_settime writes the timer's own fields with interrupts on and only *)
(* then turns them off to link it in, so it is two actions: SetFields and  *)
(* LinkIn.  Ticks, other tasks and other timers come between them.         *)
(***************************************************************************)
EXTENDS Integers, Sequences, FiniteSets, FiniteSetsExt, SequencesExt

CONSTANTS MAX_TIMER,  \* timers in the pool
          Wide,       \* an unsigned int counts modulo Wide (2^32)
          MaxCount,   \* bound: the model's clock stops here
          Delays      \* the timeouts callers ask for

ASSUME TimerLimits == /\ MAX_TIMER \in Nat \ {0}
                      /\ Wide \in Nat \ {0, 1}
                      /\ MaxCount \in 0 .. Wide - 1
                      /\ Delays \subseteq Nat \ {0}

Timers == 1 .. MAX_TIMER
NULL == 0
Sentinel == 1         \* init_pit takes the first timer of the pool
TIMER_FLAGS_ALLOC == 1
TIMER_FLAGS_USING == 2

VARIABLES timerctl,   \* struct TIMERCTL: count, next, t0, timers0
          task_timer, \* the timer of the scheduler
          setting,    \* timers between the two halves of timer_settime
          fired       \* the timers the last interrupt took off the list

timer_vars == <<timerctl, task_timer, setting, fired>>

-----------------------------------------------------------------------------
\* A variant: the sentinel is claimed but not put on the list.
TimerInitUnlinked ==
    /\ timerctl =
           [count |-> 0, next |-> Wide - 1, t0 |-> NULL,
            timers0 |-> [t \in Timers |->
                IF t = Sentinel
                THEN [flags |-> TIMER_FLAGS_USING, timeout |-> Wide - 1, next |-> NULL]
                ELSE [flags |-> 0, timeout |-> 0, next |-> NULL]]]
    /\ task_timer = NULL
    /\ setting = {}
    /\ fired = << >>

\* init_pit
TimerInit ==
    /\ timerctl =
           [count |-> 0, next |-> Wide - 1, t0 |-> Sentinel,
            timers0 |-> [t \in Timers |->
                IF t = Sentinel
                THEN [flags |-> TIMER_FLAGS_USING, timeout |-> Wide - 1, next |-> NULL]
                ELSE [flags |-> 0, timeout |-> 0, next |-> NULL]]]
    /\ task_timer = NULL
    /\ setting = {}
    /\ fired = << >>

\* The list: its n-th timer, from 0, and NULL beyond its end.
Chain(tc) ==
    LET node[n \in 0 .. MAX_TIMER] ==
            IF n = 0 THEN tc.t0
            ELSE IF node[n - 1] = NULL THEN NULL
            ELSE tc.timers0[node[n - 1]].next
    IN  node

\* A variant: a new timer always goes to the front.
FrontSlot(tc, time) == 0

\* The place of the first timer that is not before the given time.
Slot(tc, time) ==
    LET node == Chain(tc)
    IN  Min({n \in DOMAIN node : node[n] # NULL /\ tc.timers0[node[n]].timeout >= time})

LinkFirst(tc, t) ==
    [tc EXCEPT !.timers0[t].next = tc.t0,
               !.t0 = t,
               !.next = tc.timers0[t].timeout]
LinkBetween(tc, s, t, u) ==
    [tc EXCEPT !.timers0[s].next = t, !.timers0[t].next = u]

\* The second half of timer_settime: link t in before the first timer that is
\* not earlier.
Link(tc, t) ==
    LET n == Slot(tc, tc.timers0[t].timeout)
    IN  IF n = 0 THEN LinkFirst(tc, t)
        ELSE LinkBetween(tc, Chain(tc)[n - 1], t, Chain(tc)[n])

\* The first half.
Fields(tc, t, timeout) ==
    [tc EXCEPT !.timers0[t].timeout = (timeout + tc.count) % Wide,
               !.timers0[t].flags = TIMER_FLAGS_USING]
timer_settime(tc, t, timeout) == Link(Fields(tc, t, timeout), t)

\* timer_alloc: the first unused timer, NULL when there is none.
timer_alloc(tc) ==
    LET unused == {t \in Timers : tc.timers0[t].flags = 0}
    IN  IF unused = {} THEN NULL ELSE Min(unused)

-----------------------------------------------------------------------------
\* inthandler20's loop goes on while the timer is due (and a variant: it is due
\* one tick early).
DueSoon(timeout, count) == timeout <= count + 1
Due(timeout, count) == timeout <= count

\* How many timers from the front of the list are due, and which they are.
DueTimers(tc) ==
    LET node == Chain(tc)
        stop == {n \in DOMAIN node :
                    node[n] = NULL \/ ~Due(tc.timers0[node[n]].timeout, tc.count)}
    IN  [i \in 1 .. Min(stop) |-> node[i - 1]]

\* Taking them off.  With a NULL at the end the code reads the timeout of
\* address 0; the loop is taken to stop there.
TakeOff(tc) ==
    LET due == DueTimers(tc)
        first == Chain(tc)[Len(due)]
    IN  [tc EXCEPT !.timers0 = [t \in Timers |->
                        IF t \in ToSet(due)
                        THEN [tc.timers0[t] EXCEPT !.flags = TIMER_FLAGS_ALLOC]
                        ELSE tc.timers0[t]],
                   !.t0 = first,
                   !.next = IF first = NULL THEN 0 ELSE tc.timers0[first].timeout]

-----------------------------------------------------------------------------
\* The caller of timer_alloc gets a timer, or NULL and nothing happens.
Alloc == /\ timer_alloc(timerctl) # NULL
         /\ timerctl' = [timerctl EXCEPT
                            !.timers0[timer_alloc(timerctl)].flags = TIMER_FLAGS_ALLOC]
         /\ UNCHANGED <<task_timer, setting, fired>>

\* timer_free by the holder of a timer that is not running.
Free(t) == /\ timerctl.timers0[t].flags = TIMER_FLAGS_ALLOC
           /\ t # task_timer
           /\ timerctl' = [timerctl EXCEPT !.timers0[t].flags = 0]
           /\ UNCHANGED <<task_timer, setting, fired>>

\* task_init gets the scheduler's timer and sets it.  Its timer_settime is
\* one action: no other timer is set while task_init runs, and a tick between
\* the halves finds an empty list.
StartSlices(d) ==
    /\ task_timer = NULL
    /\ timer_alloc(timerctl) # NULL
    /\ LET t == timer_alloc(timerctl)
       IN  /\ task_timer' = t
           /\ timerctl' = timer_settime(timerctl, t, d)
    /\ UNCHANGED <<setting, fired>>

\* A task sets a timer it holds that is not running: its cursor timer, when
\* the message of the last ring has arrived.
SetFields(t, d) ==
    /\ timerctl.timers0[t].flags = TIMER_FLAGS_ALLOC
    /\ t # task_timer
    /\ timerctl' = Fields(timerctl, t, d)
    /\ setting' = setting \cup {t}
    /\ UNCHANGED <<task_timer, fired>>
LinkIn(t) ==
    /\ t \in setting
    /\ timerctl' = Link(timerctl, t)
    /\ setting' = setting \ {t}
    /\ UNCHANGED <<task_timer, fired>>

\* inthandler20.  Its early return when nothing is due is part of it, and so
\* is the timer_settime of the task_switch that a ring of task_timer causes.
Tick(d) ==
    /\ timerctl.count < MaxCount
    /\ LET tc == [timerctl EXCEPT !.count = (@ + 1) % Wide]
       IN  IF tc.next > tc.count
           THEN /\ timerctl' = tc
                /\ fired' = << >>
           ELSE /\ fired' = DueTimers(tc)
                /\ timerctl' = IF task_timer \in ToSet(DueTimers(tc))
                               THEN timer_settime(TakeOff(tc), task_timer, d)
                               ELSE TakeOff(tc)
    /\ UNCHANGED <<task_timer, setting>>

TimerNext ==
    \/ Alloc
    \/ \E t \in Timers : Free(t) \/ LinkIn(t)
    \/ \E t \in Timers, d \in Delays : SetFields(t, d)
    \/ \E d \in Delays : StartSlices(d) \/ Tick(d)

TimerSpec == TimerInit /\ [][TimerNext]_timer_vars

-----------------------------------------------------------------------------
TimerTypeOK ==
    /\ timerctl \in
           [count : 0 .. Wide - 1, next : 0 .. Wide - 1, t0 : Timers,
            timers0 : [Timers -> [flags : {0, TIMER_FLAGS_ALLOC, TIMER_FLAGS_USING},
                                  timeout : 0 .. Wide - 1,
                                  next : Timers \cup {NULL}]]]
    /\ task_timer \in Timers \cup {NULL}
    /\ setting \subseteq Timers
    /\ ToSet(fired) \subseteq Timers

\* The timers of the list.
Linked == ToSet([n \in 1 .. MAX_TIMER |-> Chain(timerctl)[n - 1]]) \ {NULL}

\* timer.c:100: every timer on the list is running, and every running timer
\* whose setting is complete is on the list, once and in order of time, with
\* the sentinel last: the handler's loop ends.  timerctl.next, on which the
\* handler decides to return early, is the time of the first.
ListSound ==
    LET node == Chain(timerctl)
        length == Cardinality(Linked)
    IN  /\ Linked = {t \in Timers : timerctl.timers0[t].flags = TIMER_FLAGS_USING} \ setting
        /\ node[length - 1] = Sentinel /\ node[length] = NULL
        /\ \A n \in 1 .. length - 1 :
               timerctl.timers0[node[n - 1]].timeout <= timerctl.timers0[node[n]].timeout
        /\ timerctl.next = timerctl.timers0[timerctl.t0].timeout

\* timer.c is a timer service (see TimerService.tla).
Off == -1
Service == INSTANCE TimerService
    WITH Timers <- Timers \ {Sentinel},
         now <- timerctl.count,
         asked <- [t \in Timers \ {Sentinel} |->
                      IF t \in setting THEN timerctl.timers0[t].timeout ELSE Off],
         due <- [t \in Timers \ {Sentinel} |->
                    IF t \in Linked THEN timerctl.timers0[t].timeout ELSE Off],
         slice <- task_timer,
         rang <- fired
Implements == Service!Spec
=============================================================================
