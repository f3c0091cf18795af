---------------------------- MODULE PageAllocator ----------------------------
(***************************************************************************)
(* What the kernel expects of its memory manager: memory is a set of       *)
(* addresses; a request takes a contiguous run of free ones, rounded up to *)
(* whole grains, and is refused only when no such run exists; a release    *)
(* gives the run back, unless the manager has to give it up.               *)
(***************************************************************************)
EXTENDS Integers

CONSTANTS Grain, Memory, Requests

VARIABLES free,       \* the free addresses
          owned,      \* the runs handed out: address and size asked for
          result      \* the last answer, 0 for a refusal

vars == <<free, owned, result>>

Run(a, size) == a .. a + ((size + Grain - 1) \div Grain) * Grain - 1

Init == /\ free = Memory
        /\ owned = {}
        /\ result = 0

Grant(size) == \E a \in free :
    /\ Run(a, size) \subseteq free
    /\ free' = free \ Run(a, size)
    /\ owned' = owned \cup {[addr |-> a, size |-> size]}
    /\ result' = a

\* First fit of a list of merged regions finds a run whenever there is one.
Deny(size) == /\ \A a \in free : ~ (Run(a, size) \subseteq free)
              /\ result' = 0
              /\ UNCHANGED <<free, owned>>

Release(b) == /\ free' \in {free, free \cup Run(b.addr, b.size)}
              /\ owned' = owned \ {b}
              /\ UNCHANGED result

Next == \/ \E size \in Requests : Grant(size) \/ Deny(size)
        \/ \E b \in owned : Release(b)

Spec == Init /\ [][Next]_vars
=============================================================================
