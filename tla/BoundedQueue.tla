---------------------------- MODULE BoundedQueue ----------------------------
(***************************************************************************)
(* What a FIFO32 with an owner promises the kernel: a queue of at most     *)
(* Capacity values that hands every accepted value to its reader once and  *)
(* in order, tells when a value had to be refused, and never lets its      *)
(* reader rest while a value is waiting.                                   *)
(***************************************************************************)
EXTENDS Integers, Sequences

CONSTANTS Capacity,   \* how many values fit
          Values      \* what is queued

VARIABLES q,          \* the values accepted and not yet read
          overrun,    \* has a value been refused?
          resting,    \* is the reader asleep?
          out         \* what the reader's last look returned, -1 for nothing

vars == <<q, overrun, resting, out>>

Init == /\ q = << >>
        /\ overrun = FALSE
        /\ resting = FALSE
        /\ out = -1

Accept(v) == /\ Len(q) < Capacity
             /\ q' = Append(q, v)
             /\ resting' = FALSE
             /\ UNCHANGED <<overrun, out>>

Refuse == /\ Len(q) = Capacity
          /\ overrun' = TRUE
          /\ UNCHANGED <<q, resting, out>>

Take == /\ ~resting
        /\ q # << >>
        /\ out' = Head(q)
        /\ q' = Tail(q)
        /\ UNCHANGED <<overrun, resting>>

\* A reader that sleeps rests; one that polls just sees nothing.
FindNothing(sleeps) == /\ ~resting
                       /\ q = << >>
                       /\ out' = -1
                       /\ resting' = sleeps
                       /\ UNCHANGED <<q, overrun>>

Next == \/ \E v \in Values : Accept(v)
        \/ Refuse
        \/ Take
        \/ \E sleeps \in BOOLEAN : FindNothing(sleeps)

Spec == Init /\ [][Next]_vars
=============================================================================
