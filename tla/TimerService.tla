---------------------------- MODULE TimerService ----------------------------
(***************************************************************************)
(* What the tasks and the scheduler expect of timer.c: a timer that has    *)
(* been set rings once, on the first tick at which its time has come, and  *)
(* timers that ring on one tick ring in the order of their times.  The     *)
(* timer of the scheduler is set again by the tick that rings it.          *)
(***************************************************************************)
EXTENDS Integers, Sequences

CONSTANTS Timers, Delays, Off

VARIABLES now,        \* ticks since the start
          asked,      \* times asked for and not yet in force
          due,        \* times in force
          slice,      \* the scheduler's timer, 0 before there is one
          rang        \* the timers that rang on the last tick, in order

vars == <<now, asked, due, slice, rang>>

Init == /\ now = 0
        /\ asked = [t \in Timers |-> Off]
        /\ due = [t \in Timers |-> Off]
        /\ slice = 0
        /\ rang = << >>

Ask(t, d) == /\ asked[t] = Off /\ due[t] = Off /\ t # slice
             /\ asked' = [asked EXCEPT ![t] = now + d]
             /\ UNCHANGED <<now, due, slice, rang>>

PutInForce(t) == /\ asked[t] # Off
                 /\ due' = [due EXCEPT ![t] = asked[t]]
                 /\ asked' = [asked EXCEPT ![t] = Off]
                 /\ UNCHANGED <<now, slice, rang>>

StartSlices(t, d) == /\ slice = 0 /\ asked[t] = Off /\ due[t] = Off
                     /\ slice' = t
                     /\ due' = [due EXCEPT ![t] = now + d]
                     /\ UNCHANGED <<now, asked, rang>>

Come == {t \in Timers : due[t] # Off /\ due[t] <= now + 1}

Tick(d) == /\ now' = now + 1
           /\ rang' \in [1 .. Len(rang') -> Come]
           /\ {rang'[i] : i \in 1 .. Len(rang')} = Come
           /\ \A i, j \in 1 .. Len(rang') :
                  i < j => rang'[i] # rang'[j] /\ due[rang'[i]] <= due[rang'[j]]
           /\ due' = [t \in Timers |->
                         IF t \notin Come THEN due[t]
                         ELSE IF t = slice THEN now' + d
                         ELSE Off]
           /\ UNCHANGED <<asked, slice>>

Next == \/ \E t \in Timers, d \in Delays : Ask(t, d) \/ StartSlices(t, d)
        \/ \E t \in Timers : PutInForce(t)
        \/ \E d \in Delays : Tick(d)

Spec == Init /\ [][Next]_vars
=============================================================================
