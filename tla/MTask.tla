------------------------------- MODULE MTask -------------------------------
(***************************************************************************)
(* Multitasking (mtask.c): the tasks, their levels and the processor.      *)
(*                                                                         *)
(* Task 1 is the program that called task_init (task_a), task 2 is the     *)
(* idle task, the others are started while task 1 boots.  Each action is   *)
(* one call that nothing interrupts: task_switch comes from the timer      *)
(* interrupt, task_sleep is called with interrupts off, a wake-up is the   *)
(* task_run(task, -1, 0) of fifo32_put.  Wake-ups by a task that can be    *)
(* interrupted are in Kernel.tla.                                          *)
(***************************************************************************)
EXTENDS MTaskOps, Sequences

CONSTANT Plans        \* the sets of tasks to look at

Task_a == 1
Idle == 2

\* A plan: the calls task 1 makes while it boots, and which tasks have a main
\* loop that sleeps when it is idle (the others just compute).  The call
\* <<"move", level, priority>> is task_run(task_a, level, priority), and
\* <<"start", level, priority>> is task_alloc and task_run of a new task.
Plan == [calls : Seq({"move", "start"} \X Level \X (Nat \ {0})),
         sleepers : SUBSET (Task \ {Idle})]
ASSUME PlansAssumption == Plans \subseteq Plan

\* The task that the plan's i-th call starts has this number: task_alloc takes the
\* first unused structure, and task 1 and the idle task have theirs before.
Number(p, i) == 2 + Cardinality({j \in 1 .. i : p.calls[j][1] = "start"})

\* The first i calls that take a task to level l.
Taking(p, i, l) == {j \in 1 .. i : p.calls[j][2] = l}

\* The level of the idle task.
Bottom == MAX_TASKLEVELS - 1

\* mtask.c serves a plan in which a task that sleeps or is moved shares none of its
\* levels, nobody is taken to the level task 1 comes from, and no list overflows:
\* task_remove leaves the entries of other tasks where they were, `now' of a level
\* that task 1 has left may stay behind, and task_add does not look for room.
Served(p) ==
    /\ \A i \in 1 .. Len(p.calls) :
           /\ p.calls[i][2] # 0
           /\ p.calls[i][1] = "move" \/ Number(p, i) \in p.sleepers =>
                  /\ p.calls[i][2] # Bottom
                  /\ \A j \in 1 .. Len(p.calls) \ {i} : p.calls[j][2] # p.calls[i][2]
    /\ \A l \in Level :
           Cardinality(Taking(p, Len(p.calls), l)) + (IF l = Bottom THEN 1 ELSE 0)
               <= MAX_TASKS_LV
ASSUME ServedAssumption == \A p \in Plans : Served(p)

\* task_init needs two tasks and two levels.
ASSUME RoomAssumption == MAX_TASKS >= 2 /\ MAX_TASKLEVELS >= 2

VARIABLES taskctl,    \* struct TASKCTL
          cpu,        \* the task the processor runs (the task register)
          boot,       \* how many of the plan's calls have been made
          plan        \* the plan, which never changes

vars == <<taskctl, cpu, boot, plan>>

\* task_init, whose loops clear flags, running and now and nothing else.
Cleared == [now_level |-> 0, level_change |-> 0,
            level |-> [l \in Level |->
                [running |-> 0, now |-> 0,
                 tasks |-> [i \in 0 .. MAX_TASKS_LV - 1 |-> Garbage]]],
            tasks0 |-> [t \in Task |-> [flags |-> 0, level |-> 0, priority |-> 0]]]
task_init ==
    LET k1 == Claim(Cleared, Task_a)
        k2 == [k1 EXCEPT !.tasks0[Task_a] = [flags |-> 2, level |-> 0, priority |-> 2]]
        k3 == task_switchsub(task_add(k2, Task_a))
    IN  task_run(Claim(k3, Idle), Idle, Bottom, 1)

Init == /\ taskctl = task_init
        /\ cpu = Task_a
        /\ boot = 0
        /\ plan \in Plans

BootCall ==
    /\ cpu = Task_a
    /\ boot < Len(plan.calls)
    /\ LET kind == plan.calls[boot + 1][1]
           level == plan.calls[boot + 1][2]
           priority == plan.calls[boot + 1][3]
       IN  \/ /\ kind = "move"
              /\ taskctl' = task_run(taskctl, Task_a, level, priority)
           \/ /\ kind = "start"
              /\ task_alloc(taskctl) # 0
              /\ LET t == task_alloc(taskctl)
                 IN  taskctl' = task_run(Claim(taskctl, t), t, level, priority)
    /\ boot' = boot + 1
    /\ UNCHANGED <<cpu, plan>>

\* A main loop finds its FIFO empty and puts its own task to sleep.
Sleep == /\ cpu \in plan.sleepers
         /\ cpu = Task_a => boot = Len(plan.calls)
         /\ taskctl' = task_sleep(taskctl, cpu)
         /\ cpu' = task_now(taskctl')
         /\ UNCHANGED <<boot, plan>>

\* fifo32_put finds the owner of a FIFO asleep.
Wake(t) == /\ t \in plan.sleepers
           /\ taskctl.tasks0[t].flags = 1
           /\ taskctl' = task_run(taskctl, t, -1, 0)
           /\ UNCHANGED <<cpu, boot, plan>>

\* task_timer is up: inthandler20 calls task_switch.
Switch == /\ taskctl' = task_switch(taskctl)
          /\ cpu' = task_now(taskctl')
          /\ UNCHANGED <<boot, plan>>

Next == \/ BootCall
        \/ Sleep
        \/ \E t \in Task : Wake(t)
        \/ Switch

\* task_timer is set again on every task_switch, so it is up again and again;
\* task 1 does not stop in the middle of its boot code.
Spec == Init /\ [][Next]_vars /\ WF_vars(Switch) /\ WF_vars(BootCall)

-----------------------------------------------------------------------------
TypeOK == /\ taskctl \in TaskctlType
          /\ cpu \in Task
          /\ plan \in Plans
          /\ boot \in 0 .. Len(plan.calls)

\* The list of a level names each active task of the level once and no other:
\* its first `running' entries are what task_switch chooses from.
QueuesExact ==
    \A l \in Level : /\ taskctl.level[l].running = Cardinality(Active(taskctl, l))
                     /\ Listed(taskctl, l) = Active(taskctl, l)

\* task_now(), which task_sleep and console_task trust, is the task the
\* processor runs; that task is active, and of the most urgent level, unless a
\* level change has been asked for and the next task_switch is still to come.
UrgentFirst ==
    /\ task_now(taskctl) = cpu
    /\ taskctl.tasks0[cpu].flags = 2
    /\ taskctl.level_change = 0 =>
           \A t \in Task : taskctl.tasks0[t].flags = 2 =>
               taskctl.tasks0[t].level >= taskctl.tasks0[cpu].level

\* A task on the most urgent level gets the processor, whoever shares the
\* level with it, unless it is overtaken by a more urgent one or put to sleep.
Urgent(t) == /\ taskctl.tasks0[t].flags = 2
             /\ \A u \in Task : taskctl.tasks0[u].flags = 2 =>
                    taskctl.tasks0[u].level >= taskctl.tasks0[t].level
NobodyStarves == \A t \in Task : Urgent(t) ~> (cpu = t \/ ~Urgent(t))
=============================================================================
