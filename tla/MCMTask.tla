------------------------------ MODULE MCMTask ------------------------------
(***************************************************************************)
(* Four sets of tasks.  Shipped is the kernel's own: bootpack.c moves      *)
(* task_a to level 1 and starts the console on level 2; idle is on the     *)
(* last of the ten levels.  The others use mtask.c as its interface        *)
(* allows: a sleeping task on each of four levels, two tasks that take     *)
(* turns on one level, and a task that is moved while it runs.             *)
(***************************************************************************)
EXTENDS MTask

Shipped == [calls |-> <<<<"move", 1, 2>>, <<"start", 2, 2>>>>,
            sleepers |-> {1, 3}]
OnePerLevel == [calls |-> <<<<"move", 1, 2>>, <<"start", 2, 2>>,
                            <<"start", 3, 1>>, <<"start", 4, 1>>>>,
                sleepers |-> {1, 3, 4, 5}]
TakingTurns == [calls |-> <<<<"move", 1, 2>>, <<"start", 2, 2>>, <<"start", 2, 1>>>>,
                sleepers |-> {1}]
Moved == [calls |-> <<<<"start", 2, 2>>, <<"move", 3, 1>>, <<"move", 1, 1>>>>,
          sleepers |-> {1, 3}]

MCPlans == {Shipped, OnePerLevel, TakingTurns, Moved}
=============================================================================
