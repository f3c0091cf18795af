------------------------------ MODULE MTaskOps ------------------------------
(***************************************************************************)
(* The operations of mtask.c on struct TASKCTL, as functions from the      *)
(* structure before the call to the one after it.                          *)
(*                                                                         *)
(*   k.now_level, k.level_change   as in the code                          *)
(*   k.level[l]                    struct TASKLEVEL: running, now, tasks   *)
(*   k.tasks0[t]                   struct TASK: flags, level, priority     *)
(*                                                                         *)
(* A pointer to a TASK is its number in tasks0, from 1; the entries of a   *)
(* tasks array beyond `running' keep what they held before, Garbage (0) at *)
(* first.                                                                  *)
(***************************************************************************)
EXTENDS Integers, FiniteSets, FiniteSetsExt

CONSTANTS MAX_TASKS, MAX_TASKS_LV, MAX_TASKLEVELS

ASSUME TaskLimits == /\ MAX_TASKS \in Nat \ {0}
                     /\ MAX_TASKS_LV \in Nat \ {0}
                     /\ MAX_TASKLEVELS \in Nat \ {0}

Task == 1 .. MAX_TASKS
Level == 0 .. MAX_TASKLEVELS - 1
Garbage == 0

task_now(k) == LET tl == k.level[k.now_level] IN tl.tasks[tl.now]

\* task_alloc: the first unused structure, 0 when all are in use.
task_alloc(k) ==
    LET unused == {t \in Task : k.tasks0[t].flags = 0}
    IN  IF unused = {} THEN 0 ELSE Min(unused)
Claim(k, t) == [k EXCEPT !.tasks0[t].flags = 1]

\* task_add puts the task behind the running ones of its level.
With(tl, t) == [tl EXCEPT !.tasks[tl.running] = t, !.running = @ + 1]
task_add(k, t) ==
    [k EXCEPT !.level[k.tasks0[t].level] = With(@, t),
              !.tasks0[t].flags = 2]

\* The list that task_add would add t to has no entry left: nothing in mtask.c
\* looks, the store goes into the next structure.
ListFull(k, t) == k.level[k.tasks0[t].level].running = MAX_TASKS_LV

-----------------------------------------------------------------------------
\* task_remove counts one task less and corrects now; the entries of tasks
\* stay where they are.
Index(tl, t) == Min({i \in 0 .. tl.running - 1 : tl.tasks[i] = t} \cup {tl.running})
Before(i, now) == IF i < now THEN now - 1 ELSE now
InRange(now, running) == IF now >= running THEN 0 ELSE now

\* A variant: running keeps its value.
KeepsCount(tl, t) ==
    [tl EXCEPT !.now = InRange(Before(Index(tl, t), @), tl.running)]

Without(tl, t) ==
    [tl EXCEPT !.running = @ - 1,
               !.now = InRange(Before(Index(tl, t), @), tl.running - 1)]
task_remove(k, t) ==
    [k EXCEPT !.level[k.tasks0[t].level] = Without(@, t),
              !.tasks0[t].flags = 1]

-----------------------------------------------------------------------------
\* A variant: the loop goes down from the last level.
LeastUrgent(k) == Max({l \in Level : k.level[l].running > 0} \cup {-1})

\* The most urgent level with a task; MAX_TASKLEVELS if there is none.
Busiest(k) == Min({l \in Level : k.level[l].running > 0} \cup {MAX_TASKLEVELS})
task_switchsub(k) == [k EXCEPT !.now_level = Busiest(k), !.level_change = 0]

\* Variants with a plausible slip: no level change is asked for; the old level
\* keeps the task.
RunUnnoticed(k, t, level, priority) ==
    LET l == IF level < 0 THEN k.tasks0[t].level ELSE level
        k1 == IF priority > 0 THEN [k EXCEPT !.tasks0[t].priority = priority] ELSE k
        k2 == IF k1.tasks0[t].flags = 2 /\ k1.tasks0[t].level # l
              THEN task_remove(k1, t) ELSE k1
    IN  IF k2.tasks0[t].flags # 2
        THEN task_add([k2 EXCEPT !.tasks0[t].level = l], t) ELSE k2
RunWithoutRemove(k, t, level, priority) ==
    LET l == IF level < 0 THEN k.tasks0[t].level ELSE level
        k1 == IF priority > 0 THEN [k EXCEPT !.tasks0[t].priority = priority] ELSE k
    IN  [task_add([k1 EXCEPT !.tasks0[t].level = l], t) EXCEPT !.level_change = 1]

task_run(k, t, level, priority) ==
    LET l == IF level < 0 THEN k.tasks0[t].level ELSE level
        k1 == IF priority > 0 THEN [k EXCEPT !.tasks0[t].priority = priority] ELSE k
        k2 == IF k1.tasks0[t].flags = 2 /\ k1.tasks0[t].level # l
              THEN task_remove(k1, t) ELSE k1
        k3 == IF k2.tasks0[t].flags # 2
              THEN task_add([k2 EXCEPT !.tasks0[t].level = l], t) ELSE k2
    IN  [k3 EXCEPT !.level_change = 1]

\* task_sleep: a task that puts itself to sleep hands over the processor.
task_sleep(k, t) ==
    IF k.tasks0[t].flags # 2 THEN k
    ELSE IF t = task_now(k) THEN task_switchsub(task_remove(k, t))
    ELSE task_remove(k, t)

-----------------------------------------------------------------------------
\* The step of now at the start of task_switch (and two variants of it).
Stay(tl) == tl
RotateLate(tl) ==
    [tl EXCEPT !.now = IF @ = tl.running THEN 0 ELSE @ + 1]
Rotate(tl) ==
    [tl EXCEPT !.now = IF @ + 1 = tl.running THEN 0 ELSE @ + 1]
ChangeLevel(k) == IF k.level_change # 0 THEN task_switchsub(k) ELSE k

\* task_switch: the structure after it; task_now of it is the task to run.
task_switch(k) ==
    ChangeLevel([k EXCEPT !.level[k.now_level] = Rotate(@)])

-----------------------------------------------------------------------------
TaskctlType ==
    [now_level : Level, level_change : {0, 1},
     level : [Level -> [running : 0 .. MAX_TASKS_LV, now : 0 .. MAX_TASKS_LV,
                        tasks : [0 .. MAX_TASKS_LV - 1 -> Task \cup {Garbage}]]],
     tasks0 : [Task -> [flags : {0, 1, 2}, level : Level, priority : Nat]]]

\* The tasks that are to run at a level, and the entries that say so.
Active(k, l) == {t \in Task : k.tasks0[t].flags = 2 /\ k.tasks0[t].level = l}
Listed(k, l) == {k.level[l].tasks[i] : i \in 0 .. k.level[l].running - 1}
=============================================================================
