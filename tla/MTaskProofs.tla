---------------------------- MODULE MTaskProofs ----------------------------
(***************************************************************************)
(* Proofs about MTask.tla and Timer.tla: the scheduler and the timers,     *)
(* one of which drives it.                                                 *)
(*                                                                         *)
(* The scheduler, for any number of tasks, levels and list entries and any *)
(* plans that mtask.c can serve: the inductive invariant IInv says where   *)
(* each task may be after the calls made so far, that each level's list    *)
(* names its active tasks and no others, and that now_level and now name   *)
(* the processor's task, which task 1 does even from a level that a call   *)
(* has just taken it away from.                                            *)
(*                                                                         *)
(* The timers, for any number of them and any delays: TimerInv says that   *)
(* the pointers lead once through the running timers whose setting is      *)
(* complete, in order of time, to the sentinel.  The pointers are compared *)
(* with a function w from places to timers: Link puts a timer into w, and  *)
(* TakeOff leaves the rest of w after the due ones.                        *)
(***************************************************************************)
EXTENDS MTask, Timer, FiniteSetTheorems, SequenceTheorems, TLAPS

USE TaskLimits, RoomAssumption

\* Where a task may be after b calls: task 1 on level 0 or where a call has moved
\* it, any other on the level it was started on.
At(p, b, t, l) ==
    \/ t = Task_a /\ l = 0
    \/ \E i \in 1 .. b : /\ p.calls[i][2] = l
                         /\ IF t = Task_a THEN p.calls[i][1] = "move"
                            ELSE p.calls[i][1] = "start" /\ Number(p, i) = t

\* The tasks: how many have been started, where they are, who may sleep.
Tasks(k, p, b) ==
    /\ \A t \in Task : k.tasks0[t].flags # 0 <=> t <= Number(p, b)
    /\ \A t \in Task : k.tasks0[t].flags = 1 => t \in p.sleepers
    /\ k.tasks0[Idle].level = Bottom
    /\ \A t \in Task \ {Idle} : k.tasks0[t].flags # 0 => At(p, b, t, k.tasks0[t].level)

\* A level's list names its active tasks, each once, and now is one of them.
Exact(k, l) ==
    /\ \A i \in 0 .. k.level[l].running - 1 : k.level[l].tasks[i] \in Active(k, l)
    /\ \A i, j \in 0 .. k.level[l].running - 1 :
           k.level[l].tasks[i] = k.level[l].tasks[j] => i = j
    /\ \A t \in Active(k, l) :
           \E i \in 0 .. k.level[l].running - 1 : k.level[l].tasks[i] = t
    /\ k.level[l].running > 0 => k.level[l].now < k.level[l].running
Lists(k) == \A l \in Level : Exact(k, l)

\* Only a level that task 1 has left may have a now that is not 0 and no task.
Left(k, p, b, l) ==
    /\ k.tasks0[Task_a].level # l
    /\ l = 0 \/ \E i \in 1 .. b : p.calls[i][1] = "move" /\ p.calls[i][2] = l
Heads(k, p, b) ==
    \A l \in Level : k.level[l].running = 0 /\ ~Left(k, p, b, l) => k.level[l].now = 0

\* No list is longer than the calls that can have filled it.
Room(k, p, b) ==
    \A l \in Level : k.level[l].running
        <= Cardinality(Taking(p, b, l)) + (IF l \in {0, Bottom} THEN 1 ELSE 0)

\* The processor's task is the one that now_level and now name, although task 1
\* may just have been moved away from there.
Chosen(k, c, p, b) ==
    /\ task_now(k) = c /\ k.tasks0[c].flags = 2
    /\ k.level_change = 0 =>
           /\ k.level[k.now_level].running > 0
           /\ \A l \in Level : k.level[l].running > 0 => k.now_level <= l
    /\ k.level[k.now_level].running = 0 =>
           /\ c = Task_a /\ k.level[k.now_level].now = 0
           /\ Left(k, p, b, k.now_level)

Sched(k, c, p, b) ==
    /\ Tasks(k, p, b) /\ Lists(k) /\ Heads(k, p, b) /\ Room(k, p, b)
    /\ Chosen(k, c, p, b)

IInv == TypeOK /\ Sched(taskctl, cpu, plan, boot)

-----------------------------------------------------------------------------
(* Plans.                                                                   *)

\* The numbers of tasks and levels.
LEMMA Numbers ==
    /\ Task_a = 1 /\ Idle = 2 /\ Task_a \in Task /\ Idle \in Task
    /\ 0 \in Level /\ Bottom \in Level /\ Bottom # 0
    /\ \A l \in Level : l \in Nat /\ l <= Bottom
    /\ \A t \in Task : t \in Nat /\ t > 0
BY DEF Task_a, Idle, Bottom, Task, Level

\* A plan's calls and sleepers.
LEMMA PlanFields ==
    ASSUME NEW p \in Plans
    PROVE  /\ Len(p.calls) \in Nat
           /\ p.sleepers \subseteq Task \ {Idle}
           /\ \A i \in 1 .. Len(p.calls) :
                  /\ p.calls[i][1] \in {"move", "start"}
                  /\ p.calls[i][2] \in Level
                  /\ p.calls[i][3] \in Nat /\ p.calls[i][3] > 0
<1> DEFINE Call == {"move", "start"} \X Level \X (Nat \ {0})
<1>1. p.calls \in Seq(Call) /\ p.sleepers \in SUBSET (Task \ {Idle})
  BY PlansAssumption DEF Plan
<1>2. /\ Len(p.calls) \in Nat
      /\ \A i \in 1 .. Len(p.calls) : p.calls[i] \in Call
  <2> HIDE DEF Call
  <2>1. QED
    BY <1>1
<1>3. \A c \in Call : c[1] \in {"move", "start"} /\ c[2] \in Level /\ c[3] \in Nat \ {0}
  OBVIOUS
<1> HIDE DEF Call
<1>4. QED
  BY <1>1, <1>2, <1>3

\* What is known of a plan that is served.
LEMMA PlanServed ==
    ASSUME NEW p \in Plans
    PROVE  /\ \A i \in 1 .. Len(p.calls) : p.calls[i][2] # 0
           /\ \A i \in 1 .. Len(p.calls) :
                  p.calls[i][1] = "move" \/ Number(p, i) \in p.sleepers =>
                      /\ p.calls[i][2] # Bottom
                      /\ \A j \in 1 .. Len(p.calls) \ {i} : p.calls[j][2] # p.calls[i][2]
           /\ \A l \in Level :
                  Cardinality(Taking(p, Len(p.calls), l)) + (IF l = Bottom THEN 1 ELSE 0)
                      <= MAX_TASKS_LV
BY ServedAssumption DEF Served

\* One call more adds one element to a set of calls, or none.
LEMMA OneMore ==
    ASSUME NEW P, NEW b \in Nat
    PROVE  LET S(n) == {j \in 1 .. n : j \in P}
           IN  /\ IsFiniteSet(S(b)) /\ Cardinality(S(b)) \in Nat
               /\ Cardinality(S(b + 1)) = IF b + 1 \in P THEN Cardinality(S(b)) + 1
                                          ELSE Cardinality(S(b))
<1> DEFINE S(n) == {j \in 1 .. n : j \in P}
<1>1. IsFiniteSet(S(b))
  <2>1. IsFiniteSet(1 .. b) /\ S(b) \in SUBSET (1 .. b)
    BY FS_Interval
  <2> HIDE DEF S
  <2>2. QED
    BY <2>1, FS_Subset
<1>2. CASE b + 1 \in P
  <2>1. S(b + 1) = S(b) \cup {b + 1} /\ b + 1 \notin S(b)
    BY <1>2
  <2> HIDE DEF S
  <2>2. QED
    BY <1>1, <1>2, <2>1, FS_AddElement, FS_CardinalityType DEF S
<1>3. CASE b + 1 \notin P
  <2>1. S(b + 1) = S(b)
    BY <1>3
  <2>2. QED
    BY <1>1, <1>3, <2>1, FS_CardinalityType
<1>4. QED
  BY <1>2, <1>3

\* The number of tasks after one call more.
LEMMA NumberStep ==
    ASSUME NEW p, NEW b \in Nat
    PROVE  /\ Number(p, b) \in Nat /\ Number(p, b) >= 2
           /\ Number(p, b + 1) = IF p.calls[b + 1][1] = "start" THEN Number(p, b) + 1
                                 ELSE Number(p, b)
           /\ b = 0 => Number(p, b) = 2
<1> PICK P : \A j \in Nat : j \in P <=> p.calls[j][1] = "start"
  <2>1. \A j \in Nat : j \in {n \in Nat : p.calls[n][1] = "start"} <=> p.calls[j][1] = "start"
    OBVIOUS
  <2>2. QED
    BY <2>1, Zenon
<1> DEFINE S(n) == {j \in 1 .. n : j \in P}
<1>1. \A n \in Nat : Number(p, n) = 2 + Cardinality(S(n))
  <2> TAKE n \in Nat
  <2>1. {j \in 1 .. n : p.calls[j][1] = "start"} = S(n)
    OBVIOUS
  <2>2. QED
    BY <2>1 DEF Number
<1>2. b = 0 => S(b) = {}
  OBVIOUS
<1>3. /\ Cardinality(S(b)) \in Nat
      /\ Cardinality(S(b + 1)) = IF b + 1 \in P THEN Cardinality(S(b)) + 1
                                 ELSE Cardinality(S(b))
  BY OneMore
<1>4. b + 1 \in P <=> p.calls[b + 1][1] = "start"
  OBVIOUS
<1>5. /\ Number(p, b) = 2 + Cardinality(S(b))
      /\ Number(p, b + 1) = 2 + Cardinality(S(b + 1))
      /\ b = 0 => Cardinality(S(b)) = 0
  <2> HIDE DEF S
  <2>1. b + 1 \in Nat
    OBVIOUS
  <2>2. QED
    BY <1>1, <1>2, <2>1, FS_EmptySet
<1> HIDE DEF S
<1>6. QED
  BY ONLY <1>3, <1>4, <1>5

\* The calls that take a task to a level, after one call more.
LEMMA TakingStep ==
    ASSUME NEW p, NEW b \in Nat, NEW l
    PROVE  /\ Cardinality(Taking(p, b, l)) \in Nat
           /\ Cardinality(Taking(p, b + 1, l)) =
                  IF p.calls[b + 1][2] = l THEN Cardinality(Taking(p, b, l)) + 1
                  ELSE Cardinality(Taking(p, b, l))
<1> PICK P : \A j \in Nat : j \in P <=> p.calls[j][2] = l
  <2>1. \A j \in Nat : j \in {n \in Nat : p.calls[n][2] = l} <=> p.calls[j][2] = l
    OBVIOUS
  <2>2. QED
    BY <2>1, Zenon
<1> DEFINE S(n) == {j \in 1 .. n : j \in P}
<1>1. \A n \in Nat : Taking(p, n, l) = S(n)
  BY DEF Taking
<1>3. /\ Cardinality(S(b)) \in Nat
      /\ Cardinality(S(b + 1)) = IF b + 1 \in P THEN Cardinality(S(b)) + 1
                                 ELSE Cardinality(S(b))
  BY OneMore
<1>4. b + 1 \in P <=> p.calls[b + 1][2] = l
  OBVIOUS
<1> HIDE DEF S
<1>5. QED
  BY <1>1, <1>3, <1>4

\* Fewer calls take no more tasks to a level.
LEMMA TakingGrows ==
    ASSUME NEW p, NEW n \in Nat, NEW b \in 0 .. n, NEW l
    PROVE  Cardinality(Taking(p, b, l)) <= Cardinality(Taking(p, n, l))
<1>1. Taking(p, b, l) \in SUBSET Taking(p, n, l) /\ Taking(p, n, l) \in SUBSET (1 .. n)
  BY DEF Taking
<1>2. IsFiniteSet(Taking(p, n, l))
  <2>1. IsFiniteSet(1 .. n)
    BY FS_Interval
  <2>2. QED
    BY ONLY <1>1, <2>1, FS_Subset
<1>3. QED
  BY <1>1, <1>2, FS_Subset

\* A level that a call has taken a task to has at least one such call.
LEMMA TakingSome ==
    ASSUME NEW p, NEW b \in Nat, NEW l, NEW i \in 1 .. b, p.calls[i][2] = l
    PROVE  Cardinality(Taking(p, b, l)) >= 1
<1>1. {i} \in SUBSET Taking(p, b, l) /\ Taking(p, b, l) \in SUBSET (1 .. b)
  BY DEF Taking
<1>2. IsFiniteSet(Taking(p, b, l))
  <2>1. IsFiniteSet(1 .. b)
    BY FS_Interval
  <2>2. QED
    BY ONLY <1>1, <2>1, FS_Subset
<1>3. Cardinality({i}) <= Cardinality(Taking(p, b, l)) /\ Cardinality({i}) = 1
  BY <1>1, <1>2, FS_Subset, FS_Singleton
<1>4. QED
  BY <1>3, TakingStep

-----------------------------------------------------------------------------
(* The operations of mtask.c on any structure.                              *)

LevelType == [running : 0 .. MAX_TASKS_LV, now : 0 .. MAX_TASKS_LV,
              tasks : [0 .. MAX_TASKS_LV - 1 -> Task \cup {Garbage}]]
EntryType == [flags : {0, 1, 2}, level : Level, priority : Nat]

\* The fields of the structure.
LEMMA TaskRecord ==
    ASSUME NEW k \in TaskctlType
    PROVE  /\ k = [now_level |-> k.now_level, level_change |-> k.level_change,
                   level |-> k.level, tasks0 |-> k.tasks0]
           /\ k.now_level \in Level /\ k.level_change \in {0, 1}
           /\ k.level \in [Level -> LevelType]
           /\ k.tasks0 \in [Task -> EntryType]
BY DEF TaskctlType, LevelType, EntryType

\* The smallest of some numbers.
LEMMA SmallestIs ==
    ASSUME NEW S \in SUBSET Int, NEW m \in S, \A x \in S : m <= x
    PROVE  Min(S) = m
<1>1. Min(S) = CHOOSE x \in S : \A y \in S : x <= y
  BY DEF Min
<1>2. \A x \in S : (\A y \in S : x <= y) => x = m
  OBVIOUS
<1>3. QED
  BY <1>1, <1>2

\* The structure with the record of one level and of one task replaced.
Replace(k, l, h, t, e) == [k EXCEPT !.level = [k.level EXCEPT ![l] = h],
                                    !.tasks0 = [k.tasks0 EXCEPT ![t] = e]]

\* What is replaced, and what is not.
Replaces(g, k, l, h, t, e) ==
    /\ g \in TaskctlType
    /\ g.now_level = k.now_level /\ g.level_change = k.level_change
    /\ g.level[l] = h /\ \A m \in Level \ {l} : g.level[m] = k.level[m]
    /\ g.tasks0[t] = e /\ \A u \in Task \ {t} : g.tasks0[u] = k.tasks0[u]

\* It keeps its type, and all but these two.
LEMMA Replaced ==
    ASSUME NEW k \in TaskctlType, NEW l \in Level, NEW t \in Task,
           NEW h \in LevelType, NEW e \in EntryType,
           NEW g, g = Replace(k, l, h, t, e)
    PROVE  Replaces(g, k, l, h, t, e)
<1>1. /\ [k.level EXCEPT ![l] = h] \in [Level -> LevelType]
      /\ [k.tasks0 EXCEPT ![t] = e] \in [Task -> EntryType]
  BY TaskRecord
<1>2. /\ g.level = [k.level EXCEPT ![l] = h] /\ g.tasks0 = [k.tasks0 EXCEPT ![t] = e]
      /\ g.now_level = k.now_level /\ g.level_change = k.level_change
      /\ g \in TaskctlType
  BY <1>1 DEF TaskctlType, Replace, LevelType, EntryType
<1>3. DOMAIN k.level = Level /\ DOMAIN k.tasks0 = Task
  BY TaskRecord
<1>4. QED
  BY <1>2, <1>3 DEF Replaces

\* What task_remove does to a task that has its level for itself.
Removal(k, t, l, g) ==
    /\ g \in TaskctlType
    /\ g.now_level = k.now_level
    /\ g.tasks0[t].flags = 1 /\ g.tasks0[t].level = l
    /\ \A u \in Task \ {t} : g.tasks0[u] = k.tasks0[u]
    /\ \A m \in Level \ {l} : g.level[m] = k.level[m]
    /\ g.level[l].running = 0 /\ g.level[l].now = 0
    /\ g.level[l].tasks = k.level[l].tasks

\* The list of a task that is the only one: its first entry goes, and now is 0.
LEMMA RemoveAlone ==
    ASSUME NEW k \in TaskctlType, NEW t \in Task, NEW l, l = k.tasks0[t].level,
           k.level[l].running = 1, k.level[l].now = 0, k.level[l].tasks[0] = t,
           NEW g, g = task_remove(k, t)
    PROVE  Removal(k, t, l, g)
<1> PICK tl : tl = k.level[l]
  OBVIOUS
<1> PICK s : s = k.tasks0[t]
  OBVIOUS
<1>1. l \in Level /\ tl \in LevelType /\ s \in EntryType /\ s.level = l
  BY TaskRecord DEF EntryType
<1>2. Index(tl, t) = 0
  <2> DEFINE S == {i \in 0 .. tl.running - 1 : tl.tasks[i] = t} \cup {tl.running}
  <2>1. S \subseteq Int /\ 0 \in S /\ \A x \in S : 0 <= x
    OBVIOUS
  <2>2. Index(tl, t) = Min(S)
    BY DEF Index
  <2> HIDE DEF S
  <2>3. QED
    BY <2>1, <2>2, SmallestIs
<1> PICK h : h = [running |-> 0, now |-> 0, tasks |-> tl.tasks]
  OBVIOUS
<1>3. Without(tl, t) = h
  <2>0. tl.running - 1 = 0 /\ Before(0, tl.now) = 0 /\ InRange(0, 0) = 0
    BY DEF InRange, Before
  <2>1. Without(tl, t) = [tl EXCEPT !.running = 0, !.now = 0]
    BY <1>2, <2>0 DEF Without
  <2>2. tl = [running |-> tl.running, now |-> tl.now, tasks |-> tl.tasks]
    BY <1>1 DEF LevelType
  <2>3. QED
    BY <2>1, <2>2
<1> PICK e : e = [flags |-> 1, level |-> s.level, priority |-> s.priority]
  OBVIOUS
<1>4. e = [s EXCEPT !.flags = 1] /\ e \in EntryType /\ h \in LevelType
  <2>1. /\ s = [flags |-> s.flags, level |-> s.level, priority |-> s.priority]
        /\ s.level \in Level /\ s.priority \in Nat
    BY <1>1 DEF EntryType
  <2>2. e = [s EXCEPT !.flags = 1]
    BY <2>1
  <2>3. e \in EntryType
    BY <2>1 DEF EntryType
  <2>4. tl.tasks \in [0 .. MAX_TASKS_LV - 1 -> Task \cup {Garbage}]
    BY <1>1 DEF LevelType
  <2>5. h \in LevelType
    BY <2>4 DEF LevelType
  <2>6. QED
    BY <2>2, <2>3, <2>5
<1>5. g = Replace(k, l, h, t, e)
  <2>1. g = [k EXCEPT !.level[l] = Without(tl, t), !.tasks0[t].flags = 1]
    BY DEF task_remove
  <2>2. g = [k EXCEPT !.level = [k.level EXCEPT ![l] = h],
                      !.tasks0 = [k.tasks0 EXCEPT ![t] = [s EXCEPT !.flags = 1]]]
    BY <1>3, <2>1
  <2>3. QED
    BY <1>4, <2>2 DEF Replace
<1>6. Replaces(g, k, l, h, t, e)
  BY <1>1, <1>4, <1>5, Replaced
<1>7. /\ e.flags = 1 /\ e.level = l
      /\ h.running = 0 /\ h.now = 0 /\ h.tasks = tl.tasks
  BY <1>1
<1>8. QED
  BY ONLY <1>6, <1>7, tl = k.level[l] DEF Replaces, Removal

\* What task_add does to a task that it puts on level l.
Addition(k, t, l, g) ==
    /\ g \in TaskctlType
    /\ g.now_level = k.now_level
    /\ g.tasks0[t].flags = 2 /\ g.tasks0[t].level = l
    /\ \A u \in Task \ {t} : g.tasks0[u] = k.tasks0[u]
    /\ \A m \in Level \ {l} : g.level[m] = k.level[m]
    /\ g.level[l].running = k.level[l].running + 1
    /\ g.level[l].now = k.level[l].now
    /\ g.level[l].tasks = [k.level[l].tasks EXCEPT ![k.level[l].running] = t]

\* The task is the last one of the list, if there is room for it.
LEMMA AddAt ==
    ASSUME NEW k \in TaskctlType, NEW t \in Task, NEW l \in Level,
           k.level[l].running < MAX_TASKS_LV,
           NEW g, g = task_add([k EXCEPT !.tasks0[t].level = l], t)
    PROVE  Addition(k, t, l, g)
<1> PICK tl : tl = k.level[l]
  OBVIOUS
<1> PICK s : s = k.tasks0[t]
  OBVIOUS
<1> PICK r : r = tl.running
  OBVIOUS
<1>1. /\ tl \in LevelType /\ s \in EntryType
      /\ r \in 0 .. MAX_TASKS_LV - 1
      /\ tl = [running |-> r, now |-> tl.now, tasks |-> tl.tasks]
      /\ tl.tasks \in [0 .. MAX_TASKS_LV - 1 -> Task \cup {Garbage}]
      /\ tl.now \in 0 .. MAX_TASKS_LV
      /\ DOMAIN k.tasks0 = Task /\ DOMAIN k.level = Level
  BY TaskRecord DEF LevelType
<1> PICK b : b = [tl.tasks EXCEPT ![r] = t]
  OBVIOUS
<1> PICK h : h = [running |-> r + 1, now |-> tl.now, tasks |-> b]
  OBVIOUS
<1>2. h \in LevelType /\ h = With(tl, t)
  <2>1. b \in [0 .. MAX_TASKS_LV - 1 -> Task \cup {Garbage}] /\ r + 1 \in 0 .. MAX_TASKS_LV
    BY <1>1
  <2>2. With(tl, t) = [tl EXCEPT !.tasks = b, !.running = r + 1]
    BY <1>1 DEF With
  <2>3. QED
    BY <1>1, <2>1, <2>2 DEF LevelType
<1> PICK s1 : s1 = [s EXCEPT !.level = l]
  OBVIOUS
<1> PICK e : e = [flags |-> 2, level |-> l, priority |-> s.priority]
  OBVIOUS
<1>3. e = [s1 EXCEPT !.flags = 2] /\ e \in EntryType /\ s1.level = l /\ s1 \in EntryType
  <2> PICK f : f = s.flags
    OBVIOUS
  <2> PICK y : y = s.priority
    OBVIOUS
  <2>1. s = [flags |-> f, level |-> s.level, priority |-> y] /\ f \in {0, 1, 2} /\ y \in Nat
    BY <1>1 DEF EntryType
  <2>2. s1 = [flags |-> f, level |-> l, priority |-> y]
    BY ONLY <2>1, s1 = [s EXCEPT !.level = l]
  <2>3. e = [flags |-> 2, level |-> l, priority |-> y]
    OBVIOUS
  <2>4. e = [s1 EXCEPT !.flags = 2] /\ s1.level = l
    BY ONLY <2>2, <2>3
  <2>5. e \in EntryType /\ s1 \in EntryType
    BY ONLY <2>1, <2>2, <2>3, l \in Level DEF EntryType
  <2>6. QED
    BY <2>4, <2>5
<1> PICK k1 : k1 = [k EXCEPT !.tasks0 = [k.tasks0 EXCEPT ![t] = s1]]
  OBVIOUS
<1>4. /\ k1.tasks0 = [k.tasks0 EXCEPT ![t] = s1] /\ k1.level = k.level
      /\ k1.now_level = k.now_level /\ k1.level_change = k.level_change
      /\ k1 = [k EXCEPT !.tasks0[t].level = l]
      /\ k1 = [now_level |-> k.now_level, level_change |-> k.level_change,
               level |-> k.level, tasks0 |-> k1.tasks0]
  BY TaskRecord
<1>5. k1.tasks0[t] = s1 /\ k1.tasks0[t].level = l
  BY <1>1, <1>3, <1>4
<1>6. g = [k1 EXCEPT !.level = [k.level EXCEPT ![l] = h],
                     !.tasks0 = [k.tasks0 EXCEPT ![t] = e]]
  <2>1. g = [k1 EXCEPT !.level[l] = With(tl, t), !.tasks0[t].flags = 2]
    BY <1>4, <1>5 DEF task_add
  <2>2. g = [k1 EXCEPT !.level = [k.level EXCEPT ![l] = h],
                       !.tasks0 = [k1.tasks0 EXCEPT ![t] = [s1 EXCEPT !.flags = 2]]]
    BY <1>2, <1>4, <1>5, <2>1
  <2>3. [k1.tasks0 EXCEPT ![t] = e] = [k.tasks0 EXCEPT ![t] = e]
    BY <1>1, <1>4
  <2>4. QED
    BY <1>3, <2>2, <2>3
<1>7. g = Replace(k, l, h, t, e)
  <2> PICK v : v = [k.level EXCEPT ![l] = h]
    OBVIOUS
  <2> PICK w : w = [k.tasks0 EXCEPT ![t] = e]
    OBVIOUS
  <2>1. k = [now_level |-> k.now_level, level_change |-> k.level_change,
             level |-> k.level, tasks0 |-> k.tasks0]
    BY TaskRecord
  <2>2. g = [now_level |-> k.now_level, level_change |-> k.level_change,
             level |-> v, tasks0 |-> w]
    BY <1>4, <1>6
  <2>3. Replace(k, l, h, t, e) = [k EXCEPT !.level = v, !.tasks0 = w]
    BY DEF Replace
  <2>4. QED
    BY <2>1, <2>2, <2>3
<1>8. Replaces(g, k, l, h, t, e)
  BY <1>1, <1>2, <1>3, <1>7, Replaced
<1>9. /\ e.flags = 2 /\ e.level = l
      /\ h.running = r + 1 /\ h.now = tl.now /\ h.tasks = b
  OBVIOUS
<1>10. QED
  BY ONLY <1>8, <1>9, tl = k.level[l], r = tl.running, b = [tl.tasks EXCEPT ![r] = t]
     DEF Replaces, Addition

\* A set of natural numbers has a least element.
LEMMA HasLeast ==
    ASSUME NEW T, T \subseteq Nat, T # {}
    PROVE  \E x \in T : \A y \in T : x <= y
<1>1. \E x \in T : \A y \in T : ~ (<<y, x>> \in OpToRel(<, Nat))
  BY WFMin, NatLessThanWellFounded, Zenon
<1>2. \A x, y \in Nat : y < x => <<y, x>> \in OpToRel(<, Nat)
  BY Zenon DEF OpToRel
<1>3. PICK x \in T : \A y \in T : ~ (y < x)
  BY <1>1, <1>2, Zenon
<1>4. QED
  BY <1>3

\* The structure k1 differs from k in the record of t at the most.
Like(k1, k, t) ==
    /\ k1 \in TaskctlType /\ k1.now_level = k.now_level /\ k1.level = k.level
    /\ \A u \in Task \ {t} : k1.tasks0[u] = k.tasks0[u]

\* Then t is added to the one as it is to the other.
LEMMA AdditionLike ==
    ASSUME NEW k, NEW t, NEW l, NEW k1, NEW g, Like(k1, k, t), Addition(k1, t, l, g)
    PROVE  Addition(k, t, l, g)
BY DEF Like, Addition

\* Setting the record of a task.
EntryPut(k, t, e) == [k EXCEPT !.tasks0 = [k.tasks0 EXCEPT ![t] = e]]

LEMMA EntrySet ==
    ASSUME NEW k \in TaskctlType, NEW t \in Task, NEW e \in EntryType,
           NEW g, g = EntryPut(k, t, e)
    PROVE  /\ Like(g, k, t) /\ g.tasks0[t] = e
           /\ g.level_change = k.level_change
<1> PICK w : w = [k.tasks0 EXCEPT ![t] = e]
  OBVIOUS
<1>1. /\ w \in [Task -> EntryType] /\ w[t] = e
      /\ \A u \in Task \ {t} : w[u] = k.tasks0[u]
  BY TaskRecord
<1>2. g = [k EXCEPT !.tasks0 = w]
  BY DEF EntryPut
<1>3. /\ g.tasks0 = w /\ g.level = k.level /\ g.now_level = k.now_level
      /\ g.level_change = k.level_change
      /\ g \in TaskctlType
  BY <1>1, <1>2 DEF TaskctlType, EntryType
<1>4. QED
  BY <1>1, <1>3 DEF Like

\* task_run in its four parts: the level, the priority, the removal, the addition.
Goal(k, t, level) == IF level < 0 THEN k.tasks0[t].level ELSE level
Prior(k, t, priority) ==
    IF priority > 0 THEN [k EXCEPT !.tasks0[t].priority = priority] ELSE k
Away(k, t, l) ==
    IF k.tasks0[t].flags = 2 /\ k.tasks0[t].level # l THEN task_remove(k, t) ELSE k
Onto(k, t, l) ==
    IF k.tasks0[t].flags # 2 THEN task_add([k EXCEPT !.tasks0[t].level = l], t) ELSE k
Asked(k) == [k EXCEPT !.level_change = 1]

LEMMA RunParts ==
    ASSUME NEW k, NEW t, NEW level, NEW priority
    PROVE  task_run(k, t, level, priority) =
               Asked(Onto(Away(Prior(k, t, priority), t, Goal(k, t, level)), t,
                          Goal(k, t, level)))
BY DEF task_run, Goal, Prior, Away, Onto, Asked

\* The first assignment of task_run.
LEMMA PrioritySet ==
    ASSUME NEW k \in TaskctlType, NEW t \in Task, NEW priority \in Nat,
           NEW g, g = Prior(k, t, priority)
    PROVE  /\ Like(g, k, t)
           /\ g.tasks0[t].flags = k.tasks0[t].flags
           /\ g.tasks0[t].level = k.tasks0[t].level
<1> PICK s : s = k.tasks0[t]
  OBVIOUS
<1>1. s \in EntryType /\ s = [flags |-> s.flags, level |-> s.level, priority |-> s.priority]
  BY TaskRecord DEF EntryType
<1>2. CASE priority > 0
  <2> PICK e : e = [flags |-> s.flags, level |-> s.level, priority |-> priority]
    OBVIOUS
  <2>1. e \in EntryType /\ e.flags = s.flags /\ e.level = s.level
    BY <1>1 DEF EntryType
  <2>2. [s EXCEPT !.priority = priority] = e
    BY ONLY <1>1, e = [flags |-> s.flags, level |-> s.level, priority |-> priority]
  <2>3. g = [k EXCEPT !.tasks0 = [k.tasks0 EXCEPT ![t] = [s EXCEPT !.priority = priority]]]
    BY <1>2 DEF Prior
  <2>4. g = EntryPut(k, t, e)
    BY <2>2, <2>3 DEF EntryPut
  <2>5. Like(g, k, t) /\ g.tasks0[t] = e
    BY ONLY <2>1, <2>4, k \in TaskctlType, t \in Task, EntrySet
  <2>6. QED
    BY <2>1, <2>5
<1>3. CASE ~(priority > 0)
  BY <1>3 DEF Like, Prior
<1>4. QED
  BY <1>2, <1>3

\* task_run of a task that is not running puts it on its level and asks for a
\* level change.
LEMMA RunAdds ==
    ASSUME NEW k \in TaskctlType, NEW t \in Task, k.tasks0[t].flags = 1,
           NEW level \in Level \cup {-1}, NEW priority \in Nat,
           NEW l \in Level, l = Goal(k, t, level),
           k.level[l].running < MAX_TASKS_LV,
           NEW g, g = task_run(k, t, level, priority)
    PROVE  Addition(k, t, l, g) /\ g.level_change = 1
<1> PICK k1 : k1 = Prior(k, t, priority)
  OBVIOUS
<1>1. Like(k1, k, t) /\ k1.tasks0[t].flags = 1
  BY PrioritySet
<1> PICK n : n = task_add([k1 EXCEPT !.tasks0[t].level = l], t)
  OBVIOUS
<1>2. g = Asked(n)
  <2>1. k1 = Away(k1, t, l)
    BY <1>1 DEF Away
  <2>2. n = Onto(k1, t, l)
    BY <1>1 DEF Onto
  <2>3. QED
    BY ONLY <2>1, <2>2, k1 = Prior(k, t, priority), l = Goal(k, t, level),
            g = task_run(k, t, level, priority), RunParts
<1>3. k1 \in TaskctlType /\ k1.level[l].running < MAX_TASKS_LV
  BY <1>1 DEF Like
<1>4. Addition(k1, t, l, n)
  BY <1>3, AddAt
<1>5. Addition(k, t, l, n)
  BY <1>1, <1>4, AdditionLike
<1>6. /\ g.level = n.level /\ g.tasks0 = n.tasks0 /\ g.now_level = n.now_level
      /\ g.level_change = 1 /\ g \in TaskctlType
  BY <1>2, <1>5 DEF Addition, TaskctlType, Asked
<1>7. QED
  BY ONLY <1>5, <1>6 DEF Addition

\* task_run of a task that runs elsewhere, where it is alone, takes it from there
\* first.
LEMMA RunMoves ==
    ASSUME NEW k \in TaskctlType, NEW t \in Task, k.tasks0[t].flags = 2,
           NEW level \in Level, NEW priority \in Nat,
           NEW l \in Level, l = k.tasks0[t].level, level # l,
           k.level[l].running = 1, k.level[l].now = 0, k.level[l].tasks[0] = t,
           k.level[level].running < MAX_TASKS_LV,
           NEW g, g = task_run(k, t, level, priority)
    PROVE  /\ \E k2 : Removal(k, t, l, k2) /\ Addition(k2, t, level, g)
           /\ g.level_change = 1
<1> PICK k1 : k1 = Prior(k, t, priority)
  OBVIOUS
<1>1. /\ Like(k1, k, t) /\ k1.tasks0[t].flags = 2 /\ k1.tasks0[t].level = l
      /\ k1 \in TaskctlType /\ k1.level = k.level
  <2>1. Like(k1, k, t) /\ k1.tasks0[t].flags = 2 /\ k1.tasks0[t].level = l
    BY PrioritySet
  <2>2. QED
    BY <2>1 DEF Like
<1> PICK k2 : k2 = task_remove(k1, t)
  OBVIOUS
<1>2. Removal(k1, t, l, k2)
  <2>1. k1.level[l].running = 1 /\ k1.level[l].now = 0 /\ k1.level[l].tasks[0] = t
    BY <1>1
  <2>2. k1 \in TaskctlType /\ l = k1.tasks0[t].level
    BY <1>1
  <2>3. QED
    BY ONLY <2>1, <2>2, t \in Task, k2 = task_remove(k1, t), RemoveAlone
<1>3. Removal(k, t, l, k2)
  BY <1>1, <1>2 DEF Like, Removal
<1> PICK n : n = task_add([k2 EXCEPT !.tasks0[t].level = level], t)
  OBVIOUS
<1>4. g = Asked(n)
  <2>1. level = Goal(k, t, level)
    <3>1. ~(level < 0)
      BY Numbers
    <3>2. QED
      BY <3>1 DEF Goal
  <2>2. k2 = Away(k1, t, level)
    BY <1>1 DEF Away
  <2>3. n = Onto(k2, t, level)
    BY <1>3 DEF Removal, Onto
  <2>4. QED
    BY ONLY <2>1, <2>2, <2>3, k1 = Prior(k, t, priority),
            g = task_run(k, t, level, priority), RunParts
<1>5. k2 \in TaskctlType /\ k2.level[level].running < MAX_TASKS_LV
  BY <1>3 DEF Removal
<1>6. Addition(k2, t, level, n)
  BY <1>5, AddAt
<1>7. /\ g.level = n.level /\ g.tasks0 = n.tasks0 /\ g.now_level = n.now_level
      /\ g.level_change = 1 /\ g \in TaskctlType
  BY <1>4, <1>6 DEF Addition, TaskctlType, Asked
<1>8. Addition(k2, t, level, g)
  BY ONLY <1>6, <1>7 DEF Addition
<1>9. QED
  BY <1>3, <1>7, <1>8

\* task_switchsub takes the most urgent level with a task on it.
LEMMA SwitchsubEffect ==
    ASSUME NEW k \in TaskctlType, NEW m \in Level, k.level[m].running > 0,
           NEW g, g = task_switchsub(k)
    PROVE  /\ g \in TaskctlType /\ g.level = k.level /\ g.tasks0 = k.tasks0
           /\ g.level_change = 0
           /\ g.level[g.now_level].running > 0
           /\ \A l \in Level : g.level[l].running > 0 => g.now_level <= l
<1> DEFINE S == {l \in Level : k.level[l].running > 0} \cup {MAX_TASKLEVELS}
<1>1. PICK b \in S : \A x \in S : b <= x
  <2>1. S \subseteq Nat /\ m \in S
    BY Numbers
  <2> HIDE DEF S
  <2>2. QED
    BY <2>1, HasLeast
<1>2. b \in Level /\ k.level[b].running > 0
  <2>1. m \in S /\ m <= Bottom /\ m \in Int
    BY Numbers
  <2>2. b <= m
    BY <1>1, <2>1
  <2>3. MAX_TASKLEVELS > Bottom /\ Bottom \in Int
    BY DEF Bottom
  <2>4. b # MAX_TASKLEVELS
    BY <2>1, <2>2, <2>3
  <2>5. QED
    BY <1>1, <2>4
<1>3. \A l \in Level : k.level[l].running > 0 => b <= l
  BY <1>1
<1>4. Busiest(k) = b
  <2>1. Busiest(k) = Min(S) /\ S \in SUBSET Int
    BY Numbers DEF Busiest
  <2> HIDE DEF S
  <2>2. QED
    BY <1>1, <2>1, SmallestIs
<1>5. g = [k EXCEPT !.now_level = b, !.level_change = 0]
  BY <1>4 DEF task_switchsub
<1>6. /\ g.level = k.level /\ g.tasks0 = k.tasks0 /\ g.level_change = 0 /\ g.now_level = b
      /\ g \in TaskctlType
  <2>1. k \in TaskctlType
    OBVIOUS
  <2>2. QED
    BY ONLY <1>2, <1>5, <2>1 DEF TaskctlType
<1>7. QED
  BY <1>2, <1>3, <1>6

\* task_alloc's assignment.
LEMMA ClaimEffect ==
    ASSUME NEW k \in TaskctlType, NEW t \in Task, NEW g, g = Claim(k, t)
    PROVE  Like(g, k, t) /\ g.tasks0[t].flags = 1
<1> PICK s : s = k.tasks0[t]
  OBVIOUS
<1>1. s \in EntryType /\ s = [flags |-> s.flags, level |-> s.level, priority |-> s.priority]
  BY TaskRecord DEF EntryType
<1> PICK e : e = [flags |-> 1, level |-> s.level, priority |-> s.priority]
  OBVIOUS
<1>2. e \in EntryType /\ e.flags = 1
  BY <1>1 DEF EntryType
<1>3. [s EXCEPT !.flags = 1] = e
  BY ONLY <1>1, e = [flags |-> 1, level |-> s.level, priority |-> s.priority]
<1>4. g = [k EXCEPT !.tasks0 = [k.tasks0 EXCEPT ![t] = [s EXCEPT !.flags = 1]]]
  BY DEF Claim
<1>5. g = EntryPut(k, t, e)
  BY <1>3, <1>4 DEF EntryPut
<1>6. Like(g, k, t) /\ g.tasks0[t] = e
  BY <1>2, <1>5, EntrySet
<1>7. QED
  BY <1>2, <1>6

\* Assigning a task the level it has changes nothing.
LevelPut(k, t, l) == [k EXCEPT !.tasks0[t].level = l]

LEMMA LevelSame ==
    ASSUME NEW k \in TaskctlType, NEW t \in Task, NEW l, l = k.tasks0[t].level
    PROVE  k = LevelPut(k, t, l)
<1> PICK s : s = k.tasks0[t]
  OBVIOUS
<1>1. s \in EntryType /\ s = [flags |-> s.flags, level |-> s.level, priority |-> s.priority]
  BY TaskRecord DEF EntryType
<1>2. [s EXCEPT !.level = l] = s
  BY ONLY <1>1, s = k.tasks0[t], l = k.tasks0[t].level
<1>3. k.tasks0 \in [Task -> EntryType]
  BY TaskRecord
<1>4. [k.tasks0 EXCEPT ![t] = s] = k.tasks0
  BY ONLY <1>3, t \in Task, s = k.tasks0[t]
<1>5. LevelPut(k, t, l) =
          [k EXCEPT !.tasks0 = [k.tasks0 EXCEPT ![t] = [s EXCEPT !.level = l]]]
  BY DEF LevelPut
<1>6. [k EXCEPT !.tasks0 = k.tasks0] = k
  BY TaskRecord
<1>7. QED
  BY <1>2, <1>4, <1>5, <1>6

-----------------------------------------------------------------------------
(* The lists.                                                               *)

\* The list of a level with one active task.
LEMMA AloneList ==
    ASSUME NEW k \in TaskctlType, NEW l \in Level, NEW t \in Task, Exact(k, l),
           t \in Active(k, l), \A u \in Active(k, l) : u = t
    PROVE  k.level[l].running = 1 /\ k.level[l].tasks[0] = t /\ k.level[l].now = 0
<1> PICK r : r = k.level[l].running
  OBVIOUS
<1> PICK w : w = k.level[l].tasks
  OBVIOUS
<1> PICK n : n = k.level[l].now
  OBVIOUS
<1> PICK A : A = Active(k, l)
  OBVIOUS
<1>1. r \in Nat /\ n \in Nat
  BY TaskRecord DEF LevelType
<1>2. /\ \A i \in 0 .. r - 1 : w[i] \in A
      /\ \A i, j \in 0 .. r - 1 : w[i] = w[j] => i = j
      /\ \A u \in A : \E i \in 0 .. r - 1 : w[i] = u
      /\ r > 0 => n < r
  BY ONLY r = k.level[l].running, w = k.level[l].tasks, n = k.level[l].now,
          A = Active(k, l), Exact(k, l) DEF Exact
<1>3. t \in A /\ \A u \in A : u = t
  OBVIOUS
<1>4. r > 0
  BY ONLY <1>1, <1>2, <1>3
<1>5. r < 2
  <2> SUFFICES ASSUME r >= 2
               PROVE  FALSE
    BY <1>1
  <2>1. 0 \in 0 .. r - 1 /\ 1 \in 0 .. r - 1
    BY <1>1
  <2>2. w[0] = t /\ w[1] = t
    BY ONLY <1>2, <1>3, <2>1
  <2>3. 0 = 1
    BY ONLY <1>2, <2>1, <2>2
  <2>4. QED
    BY <2>3
<1>6. r = 1 /\ n = 0 /\ 0 \in 0 .. r - 1
  BY ONLY <1>1, <1>2, <1>4, <1>5
<1>7. w[0] = t
  BY ONLY <1>2, <1>3, <1>6
<1>8. QED
  BY <1>6, <1>7

\* The list of a level with none.
LEMMA NobodyListed ==
    ASSUME NEW k \in TaskctlType, NEW l \in Level, Exact(k, l), Active(k, l) = {}
    PROVE  k.level[l].running = 0
<1> PICK r : r = k.level[l].running
  OBVIOUS
<1>1. r \in Nat
  BY TaskRecord DEF LevelType
<1>2. \A i \in 0 .. r - 1 : FALSE
  BY DEF Exact
<1>3. QED
  BY <1>1, <1>2

\* A level with an active task has a list that is not empty.
LEMMA SomebodyListed ==
    ASSUME NEW k \in TaskctlType, Lists(k), NEW t \in Task, k.tasks0[t].flags = 2
    PROVE  k.tasks0[t].level \in Level /\ k.level[k.tasks0[t].level].running > 0
<1> PICK l : l = k.tasks0[t].level
  OBVIOUS
<1>1. l \in Level /\ k.level[l].running \in Nat
  BY TaskRecord DEF LevelType, EntryType
<1>2. t \in Active(k, l)
  BY DEF Active
<1>3. \E i \in 0 .. k.level[l].running - 1 : k.level[l].tasks[i] = t
  BY <1>1, <1>2 DEF Lists, Exact
<1>4. QED
  BY <1>1, <1>3

\* The task that a list's now names is active on that level.
LEMMA NowActive ==
    ASSUME NEW k \in TaskctlType, NEW l \in Level, Exact(k, l), k.level[l].running > 0
    PROVE  /\ k.level[l].now < k.level[l].running
           /\ k.level[l].tasks[k.level[l].now] \in Task
           /\ k.tasks0[k.level[l].tasks[k.level[l].now]].flags = 2
           /\ k.tasks0[k.level[l].tasks[k.level[l].now]].level = l
<1>1. k.level[l].now \in Nat /\ k.level[l].running \in Nat
  BY TaskRecord DEF LevelType
<1>2. k.level[l].now \in 0 .. k.level[l].running - 1
  BY <1>1 DEF Exact
<1> PICK u : u = k.level[l].tasks[k.level[l].now]
  OBVIOUS
<1>3. u \in Active(k, l)
  BY <1>2 DEF Exact
<1>4. u \in Task /\ k.tasks0[u].flags = 2 /\ k.tasks0[u].level = l
  BY ONLY <1>3 DEF Active
<1>5. k.level[l].now < k.level[l].running
  BY ONLY <1>1, <1>2
<1>6. QED
  BY <1>4, <1>5

\* A list stays exact when neither it nor the level's active tasks change.
LEMMA ExactKept ==
    ASSUME NEW k, NEW g, NEW l, Exact(k, l), g.level[l] = k.level[l],
           Active(g, l) = Active(k, l)
    PROVE  Exact(g, l)
BY DEF Exact

\* Taking away a task that has its level for itself.
LEMMA ListsRemoved ==
    ASSUME NEW k \in TaskctlType, NEW t \in Task, NEW l \in Level, NEW g,
           Lists(k), k.tasks0[t].level = l, \A u \in Active(k, l) : u = t,
           Removal(k, t, l, g)
    PROVE  Lists(g)
<1> SUFFICES ASSUME NEW m \in Level
             PROVE  Exact(g, m)
  BY DEF Lists
<1>1. /\ g.tasks0[t].flags = 1
      /\ \A u \in Task \ {t} : g.tasks0[u] = k.tasks0[u]
  BY DEF Removal
<1>2. CASE m = l
  <2>1. Active(g, m) = {}
    <3>1. ASSUME NEW u \in Task, u \in Active(g, m)
          PROVE  FALSE
      <4>1. u # t
        BY <1>1, <3>1 DEF Active
      <4>2. u \in Active(k, l)
        BY <1>1, <1>2, <3>1, <4>1 DEF Active
      <4>3. QED
        BY <4>1, <4>2
    <3>2. Active(g, m) \subseteq Task
      BY DEF Active
    <3>3. QED
      BY <3>1, <3>2
  <2>2. g.level[m].running = 0
    BY <1>2 DEF Removal
  <2>3. QED
    BY <2>1, <2>2 DEF Exact
<1>3. CASE m # l
  <2>1. Active(g, m) = Active(k, m)
    <3>1. ASSUME NEW u \in Task
          PROVE  u \in Active(g, m) <=> u \in Active(k, m)
      <4>1. CASE u = t
        BY <1>1, <1>3, <4>1 DEF Active
      <4>2. CASE u # t
        BY <1>1, <4>2 DEF Active
      <4>3. QED
        BY <4>1, <4>2
    <3>2. Active(g, m) \subseteq Task /\ Active(k, m) \subseteq Task
      BY DEF Active
    <3>3. QED
      BY <3>1, <3>2
  <2>2. g.level[m] = k.level[m]
    BY <1>3 DEF Removal
  <2>3. QED
    BY <2>1, <2>2, ExactKept DEF Lists
<1>4. QED
  BY <1>2, <1>3

\* Adding a task that is not active.
LEMMA ListsAdded ==
    ASSUME NEW k \in TaskctlType, NEW t \in Task, NEW l \in Level, NEW g,
           Lists(k), k.tasks0[t].flags # 2, k.level[l].running < MAX_TASKS_LV,
           k.level[l].running = 0 => k.level[l].now = 0,
           Addition(k, t, l, g)
    PROVE  Lists(g)
<1> SUFFICES ASSUME NEW m \in Level
             PROVE  Exact(g, m)
  BY DEF Lists
<1>1. /\ g.tasks0[t].flags = 2 /\ g.tasks0[t].level = l
      /\ \A u \in Task \ {t} : g.tasks0[u] = k.tasks0[u]
  BY DEF Addition
<1>2. ASSUME NEW u \in Task
      PROVE  u \in Active(g, m) <=> u \in Active(k, m) \/ (u = t /\ m = l)
  <2>1. CASE u = t
    BY <1>1, <2>1 DEF Active
  <2>2. CASE u # t
    BY <1>1, <2>2 DEF Active
  <2>3. QED
    BY <2>1, <2>2
<1>3. /\ Active(g, m) \subseteq Task /\ Active(k, m) \subseteq Task
      /\ t \notin Active(k, m)
  BY DEF Active
<1>4. CASE m = l
  <2> PICK r : r = k.level[l].running
    OBVIOUS
  <2> PICK w : w = k.level[l].tasks
    OBVIOUS
  <2> PICK n : n = k.level[l].now
    OBVIOUS
  <2> PICK A : A = Active(k, l)
    OBVIOUS
  <2> PICK B : B = Active(g, l)
    OBVIOUS
  <2> PICK v : v = g.level[l].tasks
    OBVIOUS
  <2>1. /\ r \in 0 .. MAX_TASKS_LV - 1 /\ n \in Nat
        /\ w \in [0 .. MAX_TASKS_LV - 1 -> Task \cup {Garbage}]
    <3>1. k.level[l] \in LevelType
      BY TaskRecord
    <3>2. QED
      BY <3>1 DEF LevelType
  <2>2. /\ \A i \in 0 .. r - 1 : w[i] \in A
        /\ \A i, j \in 0 .. r - 1 : w[i] = w[j] => i = j
        /\ \A u \in A : \E i \in 0 .. r - 1 : w[i] = u
        /\ r > 0 => n < r
    <3>1. Exact(k, l)
      BY DEF Lists
    <3>2. QED
      BY ONLY r = k.level[l].running, w = k.level[l].tasks, n = k.level[l].now,
              A = Active(k, l), <3>1 DEF Exact
  <2>3. /\ g.level[l].running = r + 1 /\ g.level[l].now = n
        /\ v = [w EXCEPT ![r] = t]
    BY DEF Addition
  <2>4. /\ v[r] = t /\ \A i \in 0 .. r - 1 : v[i] = w[i]
        /\ \A i \in 0 .. r : i = r \/ i \in 0 .. r - 1
        /\ \A i \in 0 .. r - 1 : i \in 0 .. r
    BY <2>1, <2>3
  <2>5. B = A \cup {t} /\ t \notin A
    BY <1>2, <1>3, <1>4
  <2>6. \A i \in 0 .. r : v[i] \in B
    BY ONLY <2>2, <2>4, <2>5
  <2>7. \A i, j \in 0 .. r : v[i] = v[j] => i = j
    <3> SUFFICES ASSUME NEW i \in 0 .. r, NEW j \in 0 .. r, v[i] = v[j]
                 PROVE  i = j
      OBVIOUS
    <3>1. CASE i = r /\ j # r
      <4>1. j \in 0 .. r - 1 /\ v[j] = w[j] /\ w[j] \in A
        BY ONLY <2>2, <2>4, <3>1, j \in 0 .. r
      <4>2. QED
        BY ONLY <2>4, <2>5, <3>1, <4>1, v[i] = v[j]
    <3>2. CASE i # r /\ j = r
      <4>1. i \in 0 .. r - 1 /\ v[i] = w[i] /\ w[i] \in A
        BY ONLY <2>2, <2>4, <3>2, i \in 0 .. r
      <4>2. QED
        BY ONLY <2>4, <2>5, <3>2, <4>1, v[i] = v[j]
    <3>3. CASE i # r /\ j # r
      <4>1. i \in 0 .. r - 1 /\ j \in 0 .. r - 1 /\ w[i] = w[j]
        BY ONLY <2>4, <3>3, i \in 0 .. r, j \in 0 .. r, v[i] = v[j]
      <4>2. QED
        BY ONLY <2>2, <4>1
    <3>4. QED
      BY <3>1, <3>2, <3>3
  <2>8. \A u \in B : \E i \in 0 .. r : v[i] = u
    <3> SUFFICES ASSUME NEW u \in B
                 PROVE  \E i \in 0 .. r : v[i] = u
      OBVIOUS
    <3>1. CASE u = t
      <4>1. r \in 0 .. r
        BY <2>1
      <4>2. QED
        BY ONLY <2>4, <3>1, <4>1
    <3>2. CASE u # t
      <4>1. u \in A
        BY ONLY <2>5, <3>2, u \in B
      <4>2. PICK i \in 0 .. r - 1 : w[i] = u
        BY ONLY <2>2, <4>1
      <4>3. i \in 0 .. r /\ v[i] = u
        BY ONLY <2>4, <4>2
      <4>4. QED
        BY ONLY <4>3
    <3>3. QED
      BY <3>1, <3>2
  <2>9. n < r + 1
    <3>1. r = 0 => n = 0
      OBVIOUS
    <3>2. QED
      BY ONLY <2>1, <2>2, <3>1
  <2>10. (r + 1) - 1 = r
    BY <2>1
  <2>11. QED
    BY ONLY <1>4, <2>3, <2>6, <2>7, <2>8, <2>9, <2>10, B = Active(g, l),
            v = g.level[l].tasks DEF Exact
<1>5. CASE m # l
  <2>1. Active(g, m) = Active(k, m)
    BY <1>2, <1>3, <1>5
  <2>2. g.level[m] = k.level[m]
    BY <1>5 DEF Addition
  <2>3. QED
    BY <2>1, <2>2, ExactKept DEF Lists
<1>6. QED
  BY <1>4, <1>5

\* Adding a task leaves the one that is now where it was.
LEMMA NowKept ==
    ASSUME NEW k \in TaskctlType, NEW t \in Task, NEW l \in Level, NEW g,
           Lists(k), k.now_level = l => k.level[l].running > 0,
           k.level[l].running < MAX_TASKS_LV, Addition(k, t, l, g)
    PROVE  task_now(g) = task_now(k)
<1>1. g.now_level = k.now_level /\ k.now_level \in Level
  BY TaskRecord DEF Addition
<1>2. CASE k.now_level = l
  <2>1. k.level[l].now < k.level[l].running
    BY <1>2 DEF Lists, Exact
  <2>2. /\ k.level[l].now \in 0 .. MAX_TASKS_LV - 1
        /\ k.level[l].tasks \in [0 .. MAX_TASKS_LV - 1 -> Task \cup {Garbage}]
        /\ k.level[l].running \in Nat
    BY <2>1, TaskRecord DEF LevelType
  <2>3. /\ g.level[l].now = k.level[l].now
        /\ g.level[l].tasks = [k.level[l].tasks EXCEPT ![k.level[l].running] = t]
    BY DEF Addition
  <2>4. g.level[l].tasks[g.level[l].now] = k.level[l].tasks[k.level[l].now]
    BY ONLY <2>1, <2>2, <2>3
  <2>5. QED
    BY <1>1, <1>2, <2>4 DEF task_now
<1>3. CASE k.now_level # l
  BY <1>1, <1>3 DEF Addition, task_now
<1>4. QED
  BY <1>2, <1>3

-----------------------------------------------------------------------------
(* Where the tasks are.                                                     *)

\* The idle task and the levels in use.
LEMMA TaskFacts ==
    ASSUME NEW k \in TaskctlType, NEW p \in Plans, NEW b \in 0 .. Len(p.calls),
           Tasks(k, p, b)
    PROVE  /\ k.tasks0[Idle].flags = 2 /\ k.tasks0[Idle].level = Bottom
           /\ k.tasks0[Task_a].flags # 0
           /\ \A t \in Task : k.tasks0[t].flags \in {0, 1, 2} /\ k.tasks0[t].level \in Level
<1>1. \A t \in Task : k.tasks0[t].flags \in {0, 1, 2} /\ k.tasks0[t].level \in Level
  BY TaskRecord DEF EntryType
<1>2. b \in Nat /\ Number(p, b) \in Nat /\ Number(p, b) >= 2
  <2>1. b \in Nat
    BY PlanFields
  <2>2. QED
    BY <2>1, NumberStep
<1>3. k.tasks0[Idle].flags # 0 /\ k.tasks0[Task_a].flags # 0
  BY <1>2, Numbers DEF Tasks
<1>4. Idle \notin p.sleepers
  BY PlanFields
<1>5. k.tasks0[Idle].flags # 1 /\ k.tasks0[Idle].level = Bottom
  BY <1>4, Numbers DEF Tasks
<1>6. QED
  BY <1>1, <1>3, <1>5, Numbers

\* A call that moves a task or starts one that may sleep is alone on its level.
LEMMA Lonely ==
    ASSUME NEW p \in Plans, NEW b \in 0 .. Len(p.calls), NEW i \in 1 .. Len(p.calls),
           NEW l, l = p.calls[i][2],
           p.calls[i][1] = "move" \/ Number(p, i) \in p.sleepers
    PROVE  /\ l # Bottom /\ l # 0
           /\ \A j \in 1 .. b : p.calls[j][2] = l => j = i
           /\ \A u \in Task \ {Idle} : At(p, b, u, l) => u = Task_a \/ u = Number(p, i)
           /\ i \notin 1 .. b => \A u \in Task \ {Idle} : ~At(p, b, u, l)
<1>1. Len(p.calls) \in Nat
  BY PlanFields
<1>2. /\ l # Bottom /\ l # 0
      /\ \A j \in 1 .. Len(p.calls) \ {i} : p.calls[j][2] # l
  BY PlanServed
<1>3. \A j \in 1 .. b : p.calls[j][2] = l => j = i
  BY <1>1, <1>2
<1>4. ASSUME NEW u \in Task \ {Idle}, At(p, b, u, l)
      PROVE  i \in 1 .. b /\ (u = Task_a \/ u = Number(p, i))
  <2>1. PICK j \in 1 .. b : /\ p.calls[j][2] = l
                            /\ IF u = Task_a THEN p.calls[j][1] = "move"
                               ELSE p.calls[j][1] = "start" /\ Number(p, j) = u
    BY <1>2, <1>4 DEF At
  <2>2. j = i
    BY <1>3, <2>1
  <2>3. QED
    BY <2>1, <2>2
<1>5. QED
  BY <1>2, <1>3, <1>4

\* A task that is moved or may sleep shares its level with no other task, and the
\* level is not one that task 1 has left.
LEMMA Alone ==
    ASSUME NEW k \in TaskctlType, NEW p \in Plans, NEW b \in 0 .. Len(p.calls),
           Tasks(k, p, b), NEW t \in Task \ {Idle}, k.tasks0[t].flags # 0,
           t = Task_a \/ t \in p.sleepers, NEW l, l = k.tasks0[t].level
    PROVE  /\ \A u \in Task : k.tasks0[u].flags # 0 /\ k.tasks0[u].level = l => u = t
           /\ l # Bottom /\ ~Left(k, p, b, l)
           /\ l \in {0, Bottom} \/ \E i \in 1 .. b : p.calls[i][2] = l
<1>1. /\ At(p, b, t, l) /\ Len(p.calls) \in Nat
      /\ \A u \in Task \ {Idle} : k.tasks0[u].flags # 0 => At(p, b, u, k.tasks0[u].level)
      /\ k.tasks0[Idle].level = Bottom
  BY PlanFields DEF Tasks
<1>2. CASE t = Task_a /\ l = 0
  <2>1. ASSUME NEW u \in Task, k.tasks0[u].flags # 0, k.tasks0[u].level = l, u # t
        PROVE  FALSE
    <3>1. u # Idle
      BY <1>1, <1>2, <2>1, Numbers
    <3>2. At(p, b, u, 0)
      BY <1>1, <1>2, <2>1, <3>1
    <3>3. PICK j \in 1 .. b : p.calls[j][2] = 0
      BY <1>2, <2>1, <3>2 DEF At
    <3>4. j \in 1 .. Len(p.calls)
      BY <1>1
    <3>5. QED
      BY <3>3, <3>4, PlanServed
  <2>2. ~Left(k, p, b, l)
    BY <1>2 DEF Left
  <2>3. QED
    BY <1>2, <2>1, <2>2, Numbers
<1>3. CASE ~(t = Task_a /\ l = 0)
  <2>1. PICK i \in 1 .. b : /\ p.calls[i][2] = l
                            /\ IF t = Task_a THEN p.calls[i][1] = "move"
                               ELSE p.calls[i][1] = "start" /\ Number(p, i) = t
    BY <1>1, <1>3 DEF At
  <2>2. i \in 1 .. Len(p.calls) /\ (p.calls[i][1] = "move" \/ Number(p, i) \in p.sleepers)
    BY <1>1, <2>1
  <2>3. /\ l # Bottom /\ l # 0
        /\ \A j \in 1 .. b : p.calls[j][2] = l => j = i
    BY <2>1, <2>2, Lonely
  <2>4. ASSUME NEW u \in Task, k.tasks0[u].flags # 0, k.tasks0[u].level = l, u # t
        PROVE  FALSE
    <3>1. u # Idle /\ At(p, b, u, l)
      BY <1>1, <2>3, <2>4
    <3>2. PICK j \in 1 .. b : /\ p.calls[j][2] = l
                              /\ IF u = Task_a THEN p.calls[j][1] = "move"
                                 ELSE p.calls[j][1] = "start" /\ Number(p, j) = u
      BY <2>3, <3>1 DEF At
    <3>3. j = i
      BY <2>3, <3>2
    <3>4. QED
      BY <2>1, <2>4, <3>2, <3>3
  <2>5. ~Left(k, p, b, l)
    <3>1. SUFFICES ASSUME Left(k, p, b, l)
                   PROVE  FALSE
      OBVIOUS
    <3>2. t # Task_a
      BY <3>1 DEF Left
    <3>3. PICK j \in 1 .. b : p.calls[j][1] = "move" /\ p.calls[j][2] = l
      BY <2>3, <3>1 DEF Left
    <3>4. j = i
      BY <2>3, <3>3
    <3>5. QED
      BY <2>1, <3>2, <3>3, <3>4
  <2>6. QED
    BY <2>1, <2>3, <2>4, <2>5
<1>4. QED
  BY <1>2, <1>3

\* Its list, when it is active.
LEMMA AloneOnList ==
    ASSUME NEW k \in TaskctlType, NEW p \in Plans, NEW b \in 0 .. Len(p.calls),
           Tasks(k, p, b), Lists(k), NEW t \in Task \ {Idle}, k.tasks0[t].flags = 2,
           t = Task_a \/ t \in p.sleepers, NEW l, l = k.tasks0[t].level
    PROVE  /\ k.level[l].running = 1 /\ k.level[l].tasks[0] = t /\ k.level[l].now = 0
           /\ \A u \in Active(k, l) : u = t
<1>1. l \in Level /\ k.tasks0[t].flags # 0
  BY TaskFacts
<1>2. \A u \in Task : k.tasks0[u].flags # 0 /\ k.tasks0[u].level = l => u = t
  BY <1>1, Alone
<1>3. /\ t \in Active(k, l)
      /\ \A u \in Active(k, l) : u = t
  BY <1>2 DEF Active
<1>4. Exact(k, l)
  BY <1>1 DEF Lists
<1>5. QED
  BY <1>1, <1>3, <1>4, AloneList

\* Where a task may be, and which levels task 1 has left, only grows.
LEMMA AtGrows ==
    ASSUME NEW p, NEW b \in Nat
    PROVE  /\ \A u, l : At(p, b, u, l) => At(p, b + 1, u, l)
           /\ \A k, g, l : Left(k, p, b, l) /\ g.tasks0[Task_a].level # l
                  => Left(g, p, b + 1, l)
<1>1. \A i \in 1 .. b : i \in 1 .. b + 1
  OBVIOUS
<1>2. ASSUME NEW u, NEW l, At(p, b, u, l)
      PROVE  At(p, b + 1, u, l)
  BY <1>1, <1>2 DEF At
<1>3. ASSUME NEW k, NEW g, NEW l, Left(k, p, b, l), g.tasks0[Task_a].level # l
      PROVE  Left(g, p, b + 1, l)
  BY <1>1, <1>3 DEF Left
<1>4. QED
  BY <1>2, <1>3

-----------------------------------------------------------------------------
(* The steps.                                                               *)

\* Choosing the most urgent level establishes who is chosen.
LEMMA SwitchsubStep ==
    ASSUME NEW k \in TaskctlType, NEW p \in Plans, NEW b \in 0 .. Len(p.calls),
           Tasks(k, p, b), Lists(k), Heads(k, p, b), Room(k, p, b),
           NEW g, g = task_switchsub(k)
    PROVE  g \in TaskctlType /\ Sched(g, task_now(g), p, b) /\ task_now(g) \in Task
<1>1. k.level[Bottom].running > 0
  <2>1. k.tasks0[Idle].flags = 2 /\ k.tasks0[Idle].level = Bottom
    BY TaskFacts
  <2>2. QED
    BY <2>1, SomebodyListed, Numbers
<1>2. /\ g \in TaskctlType /\ g.level = k.level /\ g.tasks0 = k.tasks0
      /\ g.level_change = 0
      /\ g.level[g.now_level].running > 0
      /\ \A l \in Level : g.level[l].running > 0 => g.now_level <= l
  BY <1>1, Numbers, SwitchsubEffect
<1>3. Tasks(g, p, b)
  BY <1>2 DEF Tasks
<1>4. Lists(g)
  BY <1>2 DEF Lists, Exact, Active
<1>5. Heads(g, p, b)
  BY <1>2 DEF Heads, Left
<1>6. Room(g, p, b)
  BY <1>2 DEF Room
<1>7. g.now_level \in Level
  BY <1>2, TaskRecord
<1>8. Exact(g, g.now_level)
  BY <1>4, <1>7 DEF Lists
<1>9. task_now(g) = g.level[g.now_level].tasks[g.level[g.now_level].now]
  BY DEF task_now
<1>10. task_now(g) \in Task /\ g.tasks0[task_now(g)].flags = 2
  BY <1>2, <1>7, <1>8, <1>9, NowActive
<1>11. g.level[g.now_level].running # 0
  BY <1>2
<1>12. Chosen(g, task_now(g), p, b)
  BY <1>2, <1>10, <1>11 DEF Chosen
<1>13. QED
  BY <1>2, <1>3, <1>4, <1>5, <1>6, <1>10, <1>12 DEF Sched

\* fifo32_put wakes a task that sleeps.
LEMMA WakeStep ==
    ASSUME NEW k \in TaskctlType, NEW c, NEW p \in Plans, NEW b \in 0 .. Len(p.calls),
           Sched(k, c, p, b), NEW t \in p.sleepers, k.tasks0[t].flags = 1,
           NEW g, g = task_run(k, t, -1, 0)
    PROVE  g \in TaskctlType /\ Sched(g, c, p, b)
<1>1. /\ Tasks(k, p, b) /\ Lists(k) /\ Heads(k, p, b) /\ Room(k, p, b)
      /\ Chosen(k, c, p, b)
  BY DEF Sched
<1>2. t \in Task \ {Idle} /\ t \in Task
  BY PlanFields
<1> PICK l : l = k.tasks0[t].level
  OBVIOUS
<1>3. l \in Level
  BY <1>1, <1>2, TaskFacts
<1>4. /\ \A u \in Task : k.tasks0[u].flags # 0 /\ k.tasks0[u].level = l => u = t
      /\ l # Bottom /\ ~Left(k, p, b, l)
      /\ l \in {0, Bottom} \/ \E i \in 1 .. b : p.calls[i][2] = l
  <2>1. k.tasks0[t].flags # 0
    OBVIOUS
  <2>2. QED
    BY <1>1, <1>2, <2>1, Alone
<1>5. k.level[l].running = 0 /\ k.level[l].now = 0
  <2>1. Active(k, l) = {}
    BY <1>2, <1>4 DEF Active
  <2>2. Exact(k, l)
    BY <1>1, <1>3 DEF Lists
  <2>3. k.level[l].running = 0
    BY <1>3, <2>1, <2>2, NobodyListed
  <2>4. QED
    BY <1>1, <1>3, <1>4, <2>3 DEF Heads
<1>6. Addition(k, t, l, g) /\ g.level_change = 1
  <2>1. l = Goal(k, t, -1)
    BY DEF Goal
  <2>2. k.level[l].running < MAX_TASKS_LV
    BY <1>5
  <2>3. -1 \in Level \cup {-1} /\ 0 \in Nat
    OBVIOUS
  <2>4. QED
    BY <1>2, <1>3, <2>1, <2>2, <2>3, RunAdds
<1>7. /\ g \in TaskctlType /\ g.now_level = k.now_level
      /\ g.tasks0[t].flags = 2 /\ g.tasks0[t].level = l
      /\ \A u \in Task \ {t} : g.tasks0[u] = k.tasks0[u]
      /\ \A m \in Level \ {l} : g.level[m] = k.level[m]
      /\ g.level[l].running = 1
  BY <1>5, <1>6 DEF Addition
<1>8. \A u \in Task : /\ g.tasks0[u].level = k.tasks0[u].level
                      /\ g.tasks0[u].flags # 0 <=> k.tasks0[u].flags # 0
                      /\ g.tasks0[u].flags = 1 => k.tasks0[u].flags = 1
                      /\ k.tasks0[u].flags = 2 => g.tasks0[u].flags = 2
  <2> TAKE u \in Task
  <2>1. CASE u = t
    BY <1>7, <2>1
  <2>2. CASE u # t
    BY <1>7, <2>2
  <2>3. QED
    BY <2>1, <2>2
<1>9. Tasks(g, p, b)
  BY <1>1, <1>8, Numbers DEF Tasks
<1>10. Lists(g)
  <2>1. k.level[l].running < MAX_TASKS_LV /\ k.tasks0[t].flags # 2
    BY <1>5
  <2>2. QED
    BY <1>1, <1>2, <1>3, <1>5, <1>6, <2>1, ListsAdded
<1>11. \A m : Left(g, p, b, m) <=> Left(k, p, b, m)
  BY <1>8, Numbers DEF Left
<1>12. Heads(g, p, b)
  <2> SUFFICES ASSUME NEW m \in Level, g.level[m].running = 0, ~Left(g, p, b, m)
               PROVE  g.level[m].now = 0
    BY DEF Heads
  <2>1. m # l
    BY <1>7
  <2>2. g.level[m] = k.level[m]
    BY <1>7, <2>1
  <2>3. QED
    BY <1>1, <1>11, <2>2 DEF Heads
<1>13. Room(g, p, b)
  <2> SUFFICES ASSUME NEW m \in Level
               PROVE  g.level[m].running
                          <= Cardinality(Taking(p, b, m)) + (IF m \in {0, Bottom} THEN 1 ELSE 0)
    BY DEF Room
  <2>1. CASE m # l
    BY <1>1, <1>7, <2>1 DEF Room
  <2>2. CASE m = l
    <3>1. Cardinality(Taking(p, b, l)) \in Nat /\ b \in Nat
      BY PlanFields, TakingStep
    <3>2. CASE l \in {0, Bottom}
      BY <1>7, <2>2, <3>1, <3>2
    <3>3. CASE ~(l \in {0, Bottom})
      <4>1. PICK i \in 1 .. b : p.calls[i][2] = l
        BY <1>4, <3>3
      <4>2. Cardinality(Taking(p, b, l)) >= 1
        BY <3>1, <4>1, TakingSome
      <4>3. g.level[m].running <= Cardinality(Taking(p, b, m))
        BY ONLY <1>7, <2>2, <4>2, <3>1
      <4>4. QED
        BY ONLY <3>1, <3>3, <2>2, <4>3
    <3>4. QED
      BY <3>2, <3>3
  <2>3. QED
    BY <2>1, <2>2
<1>14. k.now_level \in Level /\ k.now_level # l
  <2>1. k.now_level \in Level
    BY TaskRecord
  <2>2. k.level[k.now_level].running = 0 => Left(k, p, b, k.now_level)
    BY <1>1 DEF Chosen
  <2>3. QED
    BY <1>4, <1>5, <2>1, <2>2
<1>15. g.level[g.now_level] = k.level[k.now_level]
  BY <1>7, <1>14
<1>16. c \in Task
  <2>1. CASE k.level[k.now_level].running = 0
    BY <1>1, <2>1, Numbers DEF Chosen
  <2>2. CASE k.level[k.now_level].running # 0
    <3>1. Exact(k, k.now_level) /\ k.level[k.now_level].running > 0
      BY <1>1, <1>14, <2>2, TaskRecord DEF Lists, LevelType
    <3>2. c = k.level[k.now_level].tasks[k.level[k.now_level].now]
      BY <1>1 DEF Chosen, task_now
    <3>3. QED
      BY <1>14, <3>1, <3>2, NowActive
  <2>3. QED
    BY <2>1, <2>2
<1>17. Chosen(g, c, p, b)
  <2>1. task_now(g) = c
    BY <1>1, <1>15 DEF Chosen, task_now
  <2>2. g.tasks0[c].flags = 2
    BY <1>1, <1>8, <1>16 DEF Chosen
  <2>3. g.level[g.now_level].running = 0 =>
            /\ c = Task_a /\ g.level[g.now_level].now = 0
            /\ Left(g, p, b, g.now_level)
    BY <1>1, <1>7, <1>11, <1>15 DEF Chosen
  <2>4. QED
    BY <1>6, <2>1, <2>2, <2>3 DEF Chosen
<1>18. QED
  BY <1>7, <1>9, <1>10, <1>12, <1>13, <1>17 DEF Sched


\* A task that sleeps gives the processor to the most urgent one.
LEMMA SleepStep ==
    ASSUME NEW k \in TaskctlType, NEW p \in Plans, NEW b \in 0 .. Len(p.calls),
           NEW c \in p.sleepers, Sched(k, c, p, b),
           NEW g, g = task_sleep(k, c)
    PROVE  g \in TaskctlType /\ Sched(g, task_now(g), p, b) /\ task_now(g) \in Task
<1>1. /\ Tasks(k, p, b) /\ Lists(k) /\ Heads(k, p, b) /\ Room(k, p, b)
      /\ Chosen(k, c, p, b)
  BY DEF Sched
<1>2. c \in Task \ {Idle} /\ c \in Task /\ k.tasks0[c].flags = 2 /\ task_now(k) = c
  BY <1>1, PlanFields DEF Chosen
<1> PICK l : l = k.tasks0[c].level
  OBVIOUS
<1> PICK n : n = task_remove(k, c)
  OBVIOUS
<1>3. g = task_switchsub(n)
  BY <1>2 DEF task_sleep
<1>4. /\ k.level[l].running = 1 /\ k.level[l].tasks[0] = c /\ k.level[l].now = 0
      /\ \A u \in Active(k, l) : u = c
  BY <1>1, <1>2, AloneOnList
<1>5. l \in Level
  BY <1>1, <1>2, TaskFacts
<1>6. Removal(k, c, l, n)
  BY <1>2, <1>4, RemoveAlone
<1>7. Lists(n)
  BY <1>1, <1>2, <1>4, <1>5, <1>6, ListsRemoved
<1>8. /\ n \in TaskctlType /\ n.now_level = k.now_level
      /\ n.tasks0[c].flags = 1 /\ n.tasks0[c].level = l
      /\ \A u \in Task \ {c} : n.tasks0[u] = k.tasks0[u]
      /\ \A m \in Level \ {l} : n.level[m] = k.level[m]
      /\ n.level[l].running = 0 /\ n.level[l].now = 0
  BY <1>6 DEF Removal
<1>9. \A u \in Task : /\ n.tasks0[u].level = k.tasks0[u].level
                      /\ n.tasks0[u].flags # 0 <=> k.tasks0[u].flags # 0
                      /\ n.tasks0[u].flags = 1 => u = c \/ k.tasks0[u].flags = 1
  <2> TAKE u \in Task
  <2>1. CASE u = c
    BY <1>2, <1>8, <2>1
  <2>2. CASE u # c
    BY <1>8, <2>2
  <2>3. QED
    BY <2>1, <2>2
<1>10. Tasks(n, p, b)
  BY <1>1, <1>9, Numbers DEF Tasks
<1>11. \A m : Left(n, p, b, m) <=> Left(k, p, b, m)
  BY <1>9, Numbers DEF Left
<1>12. Heads(n, p, b)
  <2> SUFFICES ASSUME NEW m \in Level, n.level[m].running = 0, ~Left(n, p, b, m)
               PROVE  n.level[m].now = 0
    BY DEF Heads
  <2>1. CASE m = l
    BY <1>8, <2>1
  <2>2. CASE m # l
    BY <1>1, <1>8, <1>11, <2>2 DEF Heads
  <2>3. QED
    BY <2>1, <2>2
<1>13. Room(n, p, b)
  <2> SUFFICES ASSUME NEW m \in Level
               PROVE  n.level[m].running
                          <= Cardinality(Taking(p, b, m)) + (IF m \in {0, Bottom} THEN 1 ELSE 0)
    BY DEF Room
  <2>1. CASE m # l
    BY <1>1, <1>8, <2>1 DEF Room
  <2>2. CASE m = l
    <3>1. b \in Nat
      BY PlanFields
    <3>2. Cardinality(Taking(p, b, l)) \in Nat
      BY <3>1, TakingStep
    <3>3. QED
      BY <1>8, <2>2, <3>2
  <2>3. QED
    BY <2>1, <2>2
<1>14. QED
  BY <1>3, <1>7, <1>8, <1>10, <1>12, <1>13, SwitchsubStep

\* The first half of task_switch: only now of the processor's level moves on.
LEMMA RotateEffect ==
    ASSUME NEW k \in TaskctlType, NEW g,
           k.level[k.now_level].now < MAX_TASKS_LV,
           g = [k EXCEPT !.level[k.now_level] = Rotate(@)]
    PROVE  /\ g \in TaskctlType /\ g.tasks0 = k.tasks0 /\ g.now_level = k.now_level
           /\ g.level_change = k.level_change
           /\ \A m \in Level \ {k.now_level} : g.level[m] = k.level[m]
           /\ g.level[k.now_level].running = k.level[k.now_level].running
           /\ g.level[k.now_level].tasks = k.level[k.now_level].tasks
           /\ g.level[k.now_level].now =
                  IF k.level[k.now_level].now + 1 = k.level[k.now_level].running THEN 0
                  ELSE k.level[k.now_level].now + 1
<1> PICK l : l = k.now_level
  OBVIOUS
<1> PICK tl : tl = k.level[l]
  OBVIOUS
<1>1. l \in Level /\ tl \in LevelType /\ k.level \in [Level -> LevelType]
  BY TaskRecord
<1> PICK r : r = tl.running
  OBVIOUS
<1> PICK w : w = tl.tasks
  OBVIOUS
<1>2. /\ tl = [running |-> r, now |-> tl.now, tasks |-> w]
      /\ r \in 0 .. MAX_TASKS_LV /\ tl.now \in 0 .. MAX_TASKS_LV - 1
      /\ w \in [0 .. MAX_TASKS_LV - 1 -> Task \cup {Garbage}]
  BY <1>1 DEF LevelType
<1> PICK n : n = IF tl.now + 1 = r THEN 0 ELSE tl.now + 1
  OBVIOUS
<1>3. n \in 0 .. MAX_TASKS_LV
  BY <1>2
<1> PICK h : h = [running |-> r, now |-> n, tasks |-> w]
  OBVIOUS
<1>4. h = Rotate(tl)
  <2>1. Rotate(tl) = [tl EXCEPT !.now = n]
    BY <1>2 DEF Rotate
  <2>2. QED
    BY <1>2, <2>1
<1>5. h \in LevelType
  BY <1>2, <1>3 DEF LevelType
<1> PICK v : v = [k.level EXCEPT ![l] = h]
  OBVIOUS
<1>6. g = [k EXCEPT !.level = v]
  <2>1. g = [k EXCEPT !.level[l] = Rotate(tl)]
    OBVIOUS
  <2>2. QED
    BY <1>4, <2>1
<1>7. v \in [Level -> LevelType] /\ v[l] = h /\ \A m \in Level \ {l} : v[m] = k.level[m]
  BY <1>1, <1>5
<1>8. /\ g.level = v /\ g.tasks0 = k.tasks0 /\ g.now_level = k.now_level
      /\ g.level_change = k.level_change
      /\ g \in TaskctlType
  <2>1. k \in TaskctlType
    OBVIOUS
  <2>2. QED
    BY ONLY <1>6, <1>7, <2>1 DEF TaskctlType, LevelType
<1>9. h.running = r /\ h.tasks = w /\ h.now = n
  OBVIOUS
<1>10. QED
  BY <1>7, <1>8, <1>9

\* The timer interrupt switches tasks.
LEMMA SwitchStep ==
    ASSUME NEW k \in TaskctlType, NEW c, NEW p \in Plans, NEW b \in 0 .. Len(p.calls),
           Sched(k, c, p, b), NEW g, g = task_switch(k)
    PROVE  g \in TaskctlType /\ Sched(g, task_now(g), p, b) /\ task_now(g) \in Task
<1>1. /\ Tasks(k, p, b) /\ Lists(k) /\ Heads(k, p, b) /\ Room(k, p, b)
      /\ Chosen(k, c, p, b)
  BY DEF Sched
<1> PICK l : l = k.now_level
  OBVIOUS
<1>2. l \in Level /\ k.level[l] \in LevelType /\ k.level_change \in {0, 1}
  BY TaskRecord
<1> PICK r : r = k.level[l].running
  OBVIOUS
<1> PICK n : n = k.level[l].now
  OBVIOUS
<1>3. /\ r \in 0 .. MAX_TASKS_LV /\ n \in 0 .. MAX_TASKS_LV
      /\ r > 0 => n < r
      /\ r = 0 => n = 0 /\ Left(k, p, b, l) /\ k.level_change = 1
  <2>1. r \in 0 .. MAX_TASKS_LV /\ n \in 0 .. MAX_TASKS_LV
    BY <1>2 DEF LevelType
  <2>2. r > 0 => n < r
    BY <1>1, <1>2 DEF Lists, Exact
  <2>3. r = 0 => n = 0 /\ Left(k, p, b, l) /\ k.level_change = 1
    BY <1>1, <1>2 DEF Chosen
  <2>4. QED
    BY <2>1, <2>2, <2>3
<1> PICK h : h = [k EXCEPT !.level[k.now_level] = Rotate(@)]
  OBVIOUS
<1>4. /\ h \in TaskctlType /\ h.tasks0 = k.tasks0 /\ h.now_level = l
      /\ h.level_change = k.level_change
      /\ \A m \in Level \ {l} : h.level[m] = k.level[m]
      /\ h.level[l].running = r
      /\ h.level[l].tasks = k.level[l].tasks
      /\ h.level[l].now = IF n + 1 = r THEN 0 ELSE n + 1
  <2>1. k.level[k.now_level].now < MAX_TASKS_LV
    BY <1>3
  <2>2. QED
    BY ONLY <2>1, k \in TaskctlType, h = [k EXCEPT !.level[k.now_level] = Rotate(@)],
            l = k.now_level, r = k.level[l].running, n = k.level[l].now, RotateEffect,
            ZenonT(30)
<1>5. Tasks(h, p, b)
  BY <1>1, <1>4 DEF Tasks
<1>6. \A m : Active(h, m) = Active(k, m)
  BY <1>4 DEF Active
<1>7. Lists(h)
  <2> SUFFICES ASSUME NEW m \in Level
               PROVE  Exact(h, m)
    BY DEF Lists
  <2>1. CASE m # l
    <3>1. Exact(k, m)
      BY <1>1 DEF Lists
    <3>2. h.level[m] = k.level[m]
      BY <1>4, <2>1
    <3>3. Active(h, m) = Active(k, m)
      BY <1>6
    <3>4. QED
      BY <3>1, <3>2, <3>3, ExactKept
  <2>2. CASE m = l
    <3>1. r > 0 => h.level[l].now < r
      BY <1>3, <1>4
    <3>2. Exact(k, l)
      BY <1>1, <1>2 DEF Lists
    <3>3. /\ h.level[l].running = k.level[l].running
          /\ h.level[l].tasks = k.level[l].tasks
          /\ Active(h, l) = Active(k, l)
      BY <1>4, <1>6
    <3>4. h.level[l].running = r
      BY <1>4
    <3>5. Exact(h, l)
      BY ONLY <3>1, <3>2, <3>3, <3>4 DEF Exact
    <3>6. QED
      BY <2>2, <3>5
  <2>3. QED
    BY <2>1, <2>2
<1>8. \A m : Left(h, p, b, m) <=> Left(k, p, b, m)
  BY <1>4 DEF Left
<1>9. Heads(h, p, b)
  <2> SUFFICES ASSUME NEW m \in Level, h.level[m].running = 0, ~Left(h, p, b, m)
               PROVE  h.level[m].now = 0
    BY DEF Heads
  <2>1. m # l
    BY <1>3, <1>4, <1>8
  <2>2. QED
    BY <1>1, <1>4, <1>8, <2>1 DEF Heads
<1>10. Room(h, p, b)
  BY <1>1, <1>4 DEF Room
<1>11. g = ChangeLevel(h)
  BY DEF task_switch
<1>12. CASE k.level_change # 0
  <2>1. g = task_switchsub(h)
    BY <1>4, <1>11, <1>12 DEF ChangeLevel
  <2>2. QED
    BY <1>4, <1>5, <1>7, <1>9, <1>10, <2>1, SwitchsubStep
<1>13. CASE k.level_change = 0
  <2>1. g = h
    BY <1>4, <1>11, <1>13 DEF ChangeLevel
  <2>2. r > 0
    BY <1>3, <1>13
  <2>3. \A m \in Level : h.level[m].running = k.level[m].running
    <3> TAKE m \in Level
    <3>1. CASE m = l
      BY <1>4, <3>1
    <3>2. CASE m # l
      BY <1>4, <3>2
    <3>3. QED
      BY <3>1, <3>2
  <2>4. \A m \in Level : h.level[m].running > 0 => h.now_level <= m
    BY <1>1, <1>4, <1>13, <2>3 DEF Chosen
  <2>5. Exact(h, l)
    BY <1>2, <1>7 DEF Lists
  <2>6. task_now(h) = h.level[l].tasks[h.level[l].now]
    BY <1>4 DEF task_now
  <2>7. task_now(h) \in Task /\ h.tasks0[task_now(h)].flags = 2
    <3>1. h.level[l].running > 0
      BY <1>4, <2>2
    <3>2. /\ h.level[l].tasks[h.level[l].now] \in Task
          /\ h.tasks0[h.level[l].tasks[h.level[l].now]].flags = 2
      BY <1>2, <1>4, <2>5, <3>1, NowActive
    <3>3. QED
      BY ONLY <2>6, <3>2
  <2>8. h.level[h.now_level].running > 0 /\ h.level[h.now_level].running # 0
    BY <1>3, <1>4, <2>2
  <2>9. Chosen(h, task_now(h), p, b)
    BY <2>4, <2>7, <2>8 DEF Chosen
  <2>10. QED
    BY <1>4, <1>5, <1>7, <1>9, <1>10, <2>1, <2>7, <2>9 DEF Sched
<1>14. QED
  BY <1>12, <1>13

\* A call of the boot code moves task 1 to another level.
LEMMA MoveStep ==
    ASSUME NEW k \in TaskctlType, NEW p \in Plans, NEW b \in 0 .. Len(p.calls) - 1,
           Sched(k, Task_a, p, b), p.calls[b + 1][1] = "move",
           NEW g, g = task_run(k, Task_a, p.calls[b + 1][2], p.calls[b + 1][3])
    PROVE  g \in TaskctlType /\ Sched(g, Task_a, p, b + 1)
<1>0. /\ Tasks(k, p, b) /\ Lists(k) /\ Heads(k, p, b) /\ Room(k, p, b)
      /\ Chosen(k, Task_a, p, b)
  BY DEF Sched
<1>1. /\ Len(p.calls) \in Nat /\ b \in Nat /\ b \in 0 .. Len(p.calls)
      /\ b + 1 \in 1 .. Len(p.calls) /\ b + 1 \in 1 .. b + 1 /\ b + 1 \notin 1 .. b
      /\ \A i \in 1 .. b : i \in 1 .. b + 1
  BY PlanFields
<1> PICK level : level = p.calls[b + 1][2]
  OBVIOUS
<1> PICK priority : priority = p.calls[b + 1][3]
  OBVIOUS
<1> PICK l : l = k.tasks0[Task_a].level
  OBVIOUS
<1>2. level \in Level /\ priority \in Nat
  BY <1>1, PlanFields
<1>3. /\ Task_a \in Task /\ Task_a \in Task \ {Idle}
      /\ k.tasks0[Task_a].flags = 2 /\ l \in Level
  BY <1>0, <1>1, Numbers, TaskFacts DEF Chosen
<1>4. /\ level # Bottom /\ level # 0
      /\ \A j \in 1 .. b : p.calls[j][2] # level
      /\ \A u \in Task \ {Idle} : ~At(p, b, u, level)
  <2>1. /\ level # Bottom /\ level # 0
        /\ \A j \in 1 .. b : p.calls[j][2] = level => j = b + 1
        /\ \A u \in Task \ {Idle} : ~At(p, b, u, level)
    BY <1>1, Lonely
  <2>2. QED
    BY <1>1, <2>1
<1>5. At(p, b, Task_a, l)
  BY <1>0, <1>3 DEF Tasks
<1>6. l # level
  BY <1>3, <1>4, <1>5
<1>7. /\ k.level[l].running = 1 /\ k.level[l].tasks[0] = Task_a /\ k.level[l].now = 0
      /\ \A u \in Active(k, l) : u = Task_a
  <2>1. Tasks(k, p, b) /\ Lists(k) /\ b \in 0 .. Len(p.calls)
    BY <1>0, <1>1
  <2>2. Task_a \in Task \ {Idle} /\ k.tasks0[Task_a].flags = 2
    BY <1>3
  <2>3. QED
    BY ONLY <2>1, <2>2, k \in TaskctlType, p \in Plans, l = k.tasks0[Task_a].level, AloneOnList
<1>8. ~Left(k, p, b, level)
  BY <1>4 DEF Left
<1>9. k.level[level].running = 0 /\ k.level[level].now = 0
  <2>1. ASSUME NEW u \in Task, u \in Active(k, level)
        PROVE  FALSE
    <3>1. k.tasks0[u].flags # 0 /\ k.tasks0[u].level = level
      BY <2>1 DEF Active
    <3>2. u # Idle
      BY <1>0, <1>1, <1>4, <3>1, TaskFacts
    <3>3. At(p, b, u, level)
      BY <1>0, <3>1, <3>2 DEF Tasks
    <3>4. QED
      BY <1>4, <3>2, <3>3
  <2>2. Active(k, level) = {}
    BY <2>1 DEF Active
  <2>3. Exact(k, level)
    BY <1>0, <1>2 DEF Lists
  <2>4. k.level[level].running = 0
    BY <1>2, <2>2, <2>3, NobodyListed
  <2>5. QED
    BY <1>0, <1>2, <1>8, <2>4 DEF Heads
<1>10. /\ \E k2 : Removal(k, Task_a, l, k2) /\ Addition(k2, Task_a, level, g)
       /\ g.level_change = 1
  <2>1. k.level[level].running < MAX_TASKS_LV
    BY <1>9
  <2>2. g = task_run(k, Task_a, level, priority)
    OBVIOUS
  <2>3. QED
    BY <1>2, <1>3, <1>6, <1>7, <2>1, <2>2, RunMoves
<1>11. PICK n : Removal(k, Task_a, l, n) /\ Addition(n, Task_a, level, g)
  BY <1>10
<1>12. /\ n \in TaskctlType /\ n.now_level = k.now_level
       /\ n.tasks0[Task_a].flags = 1
       /\ \A u \in Task \ {Task_a} : n.tasks0[u] = k.tasks0[u]
       /\ \A m \in Level \ {l} : n.level[m] = k.level[m]
       /\ n.level[l].running = 0 /\ n.level[l].now = 0
       /\ n.level[l].tasks = k.level[l].tasks
  BY <1>11 DEF Removal
<1>13. /\ g \in TaskctlType /\ g.now_level = n.now_level
       /\ g.tasks0[Task_a].flags = 2 /\ g.tasks0[Task_a].level = level
       /\ \A u \in Task \ {Task_a} : g.tasks0[u] = n.tasks0[u]
       /\ \A m \in Level \ {level} : g.level[m] = n.level[m]
       /\ g.level[level].running = n.level[level].running + 1
  BY <1>11 DEF Addition
<1>14. /\ n.level[level].running = 0 /\ n.level[level].now = 0
       /\ g.level[level].running = 1
       /\ g.level[l].running = 0 /\ g.level[l].now = 0
       /\ g.level[l].tasks = k.level[l].tasks
       /\ \A m \in Level \ {l, level} : g.level[m] = k.level[m]
       /\ \A u \in Task \ {Task_a} : g.tasks0[u] = k.tasks0[u]
  <2>1. /\ n.level[level] = k.level[level] /\ g.level[l] = n.level[l]
        /\ \A m \in Level \ {l, level} : g.level[m] = k.level[m]
    BY <1>2, <1>3, <1>6, <1>12, <1>13
  <2>2. \A u \in Task \ {Task_a} : g.tasks0[u] = k.tasks0[u]
    BY <1>12, <1>13
  <2>3. n.level[level].running = 0 /\ n.level[level].now = 0
    BY <1>9, <2>1
  <2>4. g.level[level].running = 1
    BY ONLY <1>13, <2>3
  <2>5. QED
    BY <1>12, <2>1, <2>2, <2>3, <2>4
<1>15. Lists(g)
  <2>1. Lists(n)
    BY <1>0, <1>3, <1>7, <1>11, ListsRemoved
  <2>2. n.tasks0[Task_a].flags # 2 /\ n.level[level].running < MAX_TASKS_LV
    <3>1. MAX_TASKS_LV \in Nat \ {0}
      OBVIOUS
    <3>2. QED
      BY ONLY <1>12, <1>14, <3>1
  <2>3. /\ n \in TaskctlType /\ Task_a \in Task /\ Addition(n, Task_a, level, g)
        /\ n.level[level].running = 0 => n.level[level].now = 0
    BY ONLY <1>3, <1>11, <1>12, <1>14
  <2>4. QED
    BY ONLY <1>2, <2>1, <2>2, <2>3, ListsAdded
<1>16. Tasks(g, p, b + 1)
  <2>1. Number(p, b + 1) = Number(p, b)
    <3>1. "move" # "start"
      OBVIOUS
    <3>2. QED
      BY <1>1, <3>1, NumberStep
  <2>2. At(p, b + 1, Task_a, level)
    BY <1>1 DEF At
  <2>3. Idle \in Task /\ Idle # Task_a
    BY Numbers
  <2>4. \A u \in Task : /\ g.tasks0[u].flags # 0 <=> k.tasks0[u].flags # 0
                        /\ g.tasks0[u].flags = 1 => k.tasks0[u].flags = 1
    <3> TAKE u \in Task
    <3>1. CASE u = Task_a
      BY <1>3, <1>13, <3>1
    <3>2. CASE u # Task_a
      BY <1>14, <3>2
    <3>3. QED
      BY <3>1, <3>2
  <2>5. ASSUME NEW u \in Task \ {Idle}, g.tasks0[u].flags # 0
        PROVE  At(p, b + 1, u, g.tasks0[u].level)
    <3>1. CASE u = Task_a
      BY <1>13, <2>2, <3>1
    <3>2. CASE u # Task_a
      <4>1. At(p, b, u, k.tasks0[u].level)
        BY <1>0, <2>4, <2>5 DEF Tasks
      <4>2. QED
        BY <1>1, <1>14, <3>2, <4>1, AtGrows
    <3>3. QED
      BY <3>1, <3>2
  <2>6. g.tasks0[Idle].level = Bottom
    BY <1>0, <1>14, <2>3 DEF Tasks
  <2>7. /\ \A u \in Task : g.tasks0[u].flags # 0 <=> u <= Number(p, b + 1)
        /\ \A u \in Task : g.tasks0[u].flags = 1 => u \in p.sleepers
    BY <1>0, <2>1, <2>4 DEF Tasks
  <2>8. QED
    BY <2>5, <2>6, <2>7 DEF Tasks
<1>17. \A m : Left(k, p, b, m) => Left(g, p, b + 1, m)
  <2> TAKE m
  <2>1. HAVE Left(k, p, b, m)
  <2>2. m # level
    BY <1>8, <2>1
  <2>3. g.tasks0[Task_a].level # m
    BY <1>13, <2>2
  <2>4. QED
    BY <1>1, <2>1, <2>3, AtGrows
<1>18. Heads(g, p, b + 1)
  <2> SUFFICES ASSUME NEW m \in Level, g.level[m].running = 0, ~Left(g, p, b + 1, m)
               PROVE  g.level[m].now = 0
    BY DEF Heads
  <2>1. m # level
    BY ONLY <1>14, g.level[m].running = 0
  <2>2. CASE m = l
    BY <1>14, <2>2
  <2>3. CASE m # l
    <3>1. g.level[m] = k.level[m]
      BY <1>14, <2>1, <2>3
    <3>2. ~Left(k, p, b, m)
      BY <1>17
    <3>3. QED
      BY <1>0, <3>1, <3>2 DEF Heads
  <2>4. QED
    BY <2>2, <2>3
<1>19. Room(g, p, b + 1)
  <2> SUFFICES ASSUME NEW m \in Level
               PROVE  g.level[m].running <= Cardinality(Taking(p, b + 1, m))
                          + (IF m \in {0, Bottom} THEN 1 ELSE 0)
    BY DEF Room
  <2>1. /\ Cardinality(Taking(p, b, m)) \in Nat
        /\ Cardinality(Taking(p, b + 1, m)) \in Nat
        /\ Cardinality(Taking(p, b, m)) <= Cardinality(Taking(p, b + 1, m))
    <3>1. /\ Cardinality(Taking(p, b, m)) \in Nat
          /\ Cardinality(Taking(p, b + 1, m)) =
                 IF p.calls[b + 1][2] = m THEN Cardinality(Taking(p, b, m)) + 1
                 ELSE Cardinality(Taking(p, b, m))
      BY <1>1, TakingStep
    <3>2. QED
      BY ONLY <3>1
  <2>2. CASE m = level
    <3>1. b + 1 \in Nat
      BY <1>1
    <3>2. Cardinality(Taking(p, b + 1, m)) >= 1
      BY <1>1, <2>2, <3>1, TakingSome
    <3>3. g.level[m].running = 1
      BY <1>14, <2>2
    <3>4. QED
      BY ONLY <2>1, <3>2, <3>3
  <2>3. CASE m = l
    <3>1. g.level[m].running = 0
      BY <1>14, <2>3
    <3>2. QED
      BY ONLY <2>1, <3>1
  <2>4. CASE m # level /\ m # l
    <3>1. g.level[m] = k.level[m]
      BY <1>14, <2>4
    <3>2. k.level[m].running <= Cardinality(Taking(p, b, m))
                                    + (IF m \in {0, Bottom} THEN 1 ELSE 0)
      BY <1>0 DEF Room
    <3>3. k.level[m].running \in Nat
      BY TaskRecord DEF LevelType
    <3>4. QED
      BY ONLY <2>1, <3>1, <3>2, <3>3
  <2>5. QED
    BY <2>2, <2>3, <2>4
<1>20. Chosen(g, Task_a, p, b + 1)
  <2> PICK o : o = k.now_level
    OBVIOUS
  <2>1. o \in Level /\ g.now_level = o /\ task_now(k) = k.level[o].tasks[k.level[o].now]
    BY <1>12, <1>13, TaskRecord DEF task_now
  <2>2. /\ task_now(k) = Task_a
        /\ k.level[o].running = 0 => k.level[o].now = 0 /\ Left(k, p, b, o)
    BY <1>0 DEF Chosen
  <2>3. task_now(g) = g.level[o].tasks[g.level[o].now]
    BY <2>1 DEF task_now
  <2>4. /\ task_now(g) = Task_a
        /\ g.level[o].running = 0 /\ g.level[o].now = 0
        /\ Left(g, p, b + 1, o)
    <3>1. CASE o = l
      <4>1. l = 0 \/ \E i \in 1 .. b : p.calls[i][1] = "move" /\ p.calls[i][2] = l
        BY <1>5 DEF At
      <4>2. Left(g, p, b + 1, l)
        BY <1>1, <1>6, <1>13, <4>1 DEF Left
      <4>3. QED
        BY ONLY <1>7, <1>14, <2>3, <3>1, <4>2
    <3>2. CASE o # l
      <4>1. k.level[o].running = 0
        <5>1. SUFFICES ASSUME k.level[o].running # 0
                       PROVE  FALSE
          OBVIOUS
        <5>2. Exact(k, o) /\ k.level[o].running > 0
          <6>1. k.level[o] \in LevelType
            BY <2>1, TaskRecord
          <6>2. k.level[o].running \in Nat
            BY ONLY <6>1 DEF LevelType
          <6>3. QED
            BY ONLY <1>0, <2>1, <5>1, <6>2 DEF Lists
        <5>3. k.tasks0[Task_a].level = o
          <6>1. k.tasks0[k.level[o].tasks[k.level[o].now]].level = o
            BY ONLY <2>1, <5>2, k \in TaskctlType, NowActive
          <6>2. k.level[o].tasks[k.level[o].now] = Task_a
            BY ONLY <2>1, <2>2
          <6>3. QED
            BY ONLY <6>1, <6>2
        <5>4. QED
          BY <3>2, <5>3
      <4>2. Left(k, p, b, o)
        BY <2>2, <4>1
      <4>3. o # level
        BY <1>8, <4>2
      <4>4. g.level[o] = k.level[o]
        BY <1>14, <2>1, <3>2, <4>3
      <4>5. QED
        BY ONLY <1>17, <2>1, <2>2, <2>3, <4>1, <4>2, <4>4
    <3>3. QED
      BY <3>1, <3>2
  <2>5. QED
    BY ONLY <1>10, <1>13, <2>1, <2>4 DEF Chosen
<1>21. QED
  BY <1>13, <1>15, <1>16, <1>18, <1>19, <1>20 DEF Sched

\* A call of the boot code starts a task on a level of its own or among others.
LEMMA StartStep ==
    ASSUME NEW k \in TaskctlType, NEW c, NEW p \in Plans, NEW b \in 0 .. Len(p.calls) - 1,
           Sched(k, c, p, b), c \in Task, p.calls[b + 1][1] = "start",
           NEW t, t = task_alloc(k), t # 0,
           NEW g, g = task_run(Claim(k, t), t, p.calls[b + 1][2], p.calls[b + 1][3])
    PROVE  g \in TaskctlType /\ Sched(g, c, p, b + 1)
<1>0. /\ Tasks(k, p, b) /\ Lists(k) /\ Heads(k, p, b) /\ Room(k, p, b)
      /\ Chosen(k, c, p, b)
  BY DEF Sched
<1>1. /\ Len(p.calls) \in Nat /\ b \in Nat /\ b \in 0 .. Len(p.calls)
      /\ b + 1 \in 0 .. Len(p.calls)
      /\ b + 1 \in 1 .. Len(p.calls) /\ b + 1 \in 1 .. b + 1 /\ b + 1 \notin 1 .. b
      /\ \A i \in 1 .. b : i \in 1 .. Len(p.calls)
  BY PlanFields
<1> PICK l : l = p.calls[b + 1][2]
  OBVIOUS
<1> PICK priority : priority = p.calls[b + 1][3]
  OBVIOUS
<1> PICK N : N = Number(p, b)
  OBVIOUS
<1>2. /\ l \in Level /\ l # 0 /\ priority \in Nat
      /\ k.level[l] \in LevelType
  BY <1>1, PlanFields, PlanServed, TaskRecord
<1>2a. k.level[l].running \in Nat
  BY ONLY <1>2 DEF LevelType
<1>3. N \in Nat /\ N >= 2 /\ Number(p, b + 1) = N + 1
  BY <1>1, NumberStep
<1>4. /\ t = N + 1 /\ t \in Task /\ k.tasks0[t].flags = 0
  <2> DEFINE U == {u \in Task : k.tasks0[u].flags = 0}
  <2>1. t = Min(U) /\ U # {}
    BY DEF task_alloc
  <2>2. \A u \in Task : u \in U <=> u > N
    <3>1. \A u \in Task : k.tasks0[u].flags # 0 <=> u <= N
      BY <1>0 DEF Tasks
    <3>2. \A u \in Task : u \in Nat
      BY Numbers
    <3>3. QED
      BY <1>3, <3>1, <3>2
  <2>3. U \subseteq Task
    OBVIOUS
  <2>4. N + 1 \in Task
    <3> HIDE DEF U
    <3>1. PICK u \in Task : u > N
      BY <2>1, <2>2, <2>3
    <3>2. QED
      BY <1>3, <3>1 DEF Task
  <2>5. N + 1 \in U /\ U \in SUBSET Int /\ \A u \in U : N + 1 <= u
    <3>1. N + 1 \in U
      BY <1>3, <2>2, <2>4
    <3>2. \A u \in U : u \in Nat /\ u > N
      BY <2>2, <2>3, Numbers
    <3>3. QED
      BY <1>3, <3>1, <3>2
  <2>6. k.tasks0[N + 1].flags = 0
    BY <2>5
  <2> HIDE DEF U
  <2>7. t = N + 1
    BY <2>1, <2>5, SmallestIs
  <2>8. QED
    BY <2>4, <2>6, <2>7
<1>5. t # Task_a /\ t # Idle
  BY <1>3, <1>4, Numbers
<1> PICK k1 : k1 = Claim(k, t)
  OBVIOUS
<1>6. Like(k1, k, t) /\ k1.tasks0[t].flags = 1
  BY <1>4, ClaimEffect
<1>7. k.level[l].running < MAX_TASKS_LV
  <2> PICK n : n = Len(p.calls)
    OBVIOUS
  <2> PICK r : r = k.level[l].running
    OBVIOUS
  <2> PICK x : x = IF l = Bottom THEN 1 ELSE 0
    OBVIOUS
  <2>1. Cardinality(Taking(p, b + 1, l)) = Cardinality(Taking(p, b, l)) + 1
    BY <1>1, TakingStep
  <2>2. Cardinality(Taking(p, b + 1, l)) <= Cardinality(Taking(p, n, l))
    BY <1>1, TakingGrows
  <2>3. Cardinality(Taking(p, n, l)) + x <= MAX_TASKS_LV
    BY <1>2, PlanServed
  <2>4. r <= Cardinality(Taking(p, b, l)) + x
    <3>1. l \in {0, Bottom} <=> l = Bottom
      BY <1>2
    <3>2. r <= Cardinality(Taking(p, b, l)) + (IF l \in {0, Bottom} THEN 1 ELSE 0)
      BY <1>0, <1>2 DEF Room
    <3>3. (IF l \in {0, Bottom} THEN 1 ELSE 0) = x
      BY <3>1
    <3>4. QED
      BY ONLY <3>2, <3>3
  <2>5. r \in Nat /\ x \in Nat
    BY <1>2a
  <2>6. /\ Cardinality(Taking(p, b, l)) \in Nat
        /\ Cardinality(Taking(p, n, l)) \in Nat
    BY <1>1, TakingStep
  <2>7. MAX_TASKS_LV \in Nat
    OBVIOUS
  <2>8. r < MAX_TASKS_LV
    BY ONLY <2>1, <2>2, <2>3, <2>4, <2>5, <2>6, <2>7
  <2>9. QED
    BY <2>8
<1>8. ~Left(k, p, b, l)
  <2>1. SUFFICES ASSUME Left(k, p, b, l)
                 PROVE  FALSE
    OBVIOUS
  <2>2. PICK i \in 1 .. b : p.calls[i][1] = "move" /\ p.calls[i][2] = l
    BY <1>2, <2>1 DEF Left
  <2>3. i \in 1 .. Len(p.calls) /\ b + 1 \in 1 .. Len(p.calls) \ {i}
    BY <1>1, <2>2
  <2>4. QED
    BY <2>2, <2>3, PlanServed
<1>9. k.level[l].running = 0 => k.level[l].now = 0
  BY <1>0, <1>2, <1>8 DEF Heads
<1>10. Addition(k, t, l, g) /\ g.level_change = 1
  <2>1. k1 \in TaskctlType /\ k1.level = k.level
    BY <1>6 DEF Like
  <2>2. l = Goal(k1, t, l)
    <3>1. ~(l < 0)
      BY <1>2, Numbers
    <3>2. QED
      BY <3>1 DEF Goal
  <2>3. k1.level[l].running < MAX_TASKS_LV /\ l \in Level \cup {-1}
    BY <1>2, <1>7, <2>1
  <2>4. g = task_run(k1, t, l, priority)
    OBVIOUS
  <2>5. Addition(k1, t, l, g) /\ g.level_change = 1
    BY <1>2, <1>4, <1>6, <2>1, <2>2, <2>3, <2>4, RunAdds
  <2>6. QED
    BY <1>6, <2>5, AdditionLike
<1>11. /\ g \in TaskctlType /\ g.now_level = k.now_level
       /\ g.tasks0[t].flags = 2 /\ g.tasks0[t].level = l
       /\ \A u \in Task \ {t} : g.tasks0[u] = k.tasks0[u]
       /\ \A m \in Level \ {l} : g.level[m] = k.level[m]
       /\ g.level[l].running = k.level[l].running + 1
  BY <1>10 DEF Addition
<1>12. Lists(g)
  <2>1. k.tasks0[t].flags # 2
    BY <1>4
  <2>2. QED
    BY <1>0, <1>2, <1>4, <1>7, <1>9, <1>10, <2>1, ListsAdded
<1>13. g.tasks0[Task_a] = k.tasks0[Task_a] /\ g.tasks0[Idle] = k.tasks0[Idle]
  BY <1>5, <1>11, Numbers
<1>14. Tasks(g, p, b + 1)
  <2>1. At(p, b + 1, t, l)
    BY <1>1, <1>3, <1>4, <1>5 DEF At
  <2>2. ASSUME NEW u \in Task \ {Idle}, g.tasks0[u].flags # 0
        PROVE  At(p, b + 1, u, g.tasks0[u].level)
    <3>1. CASE u = t
      BY <1>11, <2>1, <3>1
    <3>2. CASE u # t
      <4>1. g.tasks0[u] = k.tasks0[u]
        BY <1>11, <3>2
      <4>2. At(p, b, u, k.tasks0[u].level)
        BY <1>0, <2>2, <4>1 DEF Tasks
      <4>3. QED
        BY <1>1, <4>1, <4>2, AtGrows
    <3>3. QED
      BY <3>1, <3>2
  <2>3. \A u \in Task : g.tasks0[u].flags = 1 => u \in p.sleepers
    <3> TAKE u \in Task
    <3>1. CASE u = t
      BY <1>11, <3>1
    <3>2. CASE u # t
      BY <1>0, <1>11, <3>2 DEF Tasks
    <3>3. QED
      BY <3>1, <3>2
  <2>4. \A u \in Task : g.tasks0[u].flags # 0 <=> u <= Number(p, b + 1)
    <3> TAKE u \in Task
    <3>0. u \in Nat
      BY Numbers
    <3>1. CASE u = t
      BY <1>3, <1>4, <1>11, <3>0, <3>1
    <3>2. CASE u # t
      <4>1. g.tasks0[u].flags # 0 <=> u <= N
        BY <1>0, <1>11, <3>2 DEF Tasks
      <4>2. QED
        BY <1>3, <1>4, <3>0, <3>2, <4>1
    <3>3. QED
      BY <3>1, <3>2
  <2>5. g.tasks0[Idle].level = Bottom
    BY <1>0, <1>13 DEF Tasks
  <2>6. QED
    BY <2>2, <2>3, <2>4, <2>5 DEF Tasks
<1>15. \A m : Left(k, p, b, m) => Left(g, p, b + 1, m)
  <2> TAKE m
  <2>1. HAVE Left(k, p, b, m)
  <2>2. g.tasks0[Task_a].level # m
    BY <1>13, <2>1 DEF Left
  <2>3. QED
    BY <1>1, <2>1, <2>2, AtGrows
<1>16. Heads(g, p, b + 1)
  <2> SUFFICES ASSUME NEW m \in Level, g.level[m].running = 0, ~Left(g, p, b + 1, m)
               PROVE  g.level[m].now = 0
    BY DEF Heads
  <2>1. m # l
    BY ONLY <1>2a, <1>11, g.level[m].running = 0
  <2>2. g.level[m] = k.level[m]
    BY <1>11, <2>1
  <2>3. ~Left(k, p, b, m)
    BY <1>15
  <2>4. QED
    BY <1>0, <2>2, <2>3 DEF Heads
<1>17. Room(g, p, b + 1)
  <2> SUFFICES ASSUME NEW m \in Level
               PROVE  g.level[m].running <= Cardinality(Taking(p, b + 1, m))
                          + (IF m \in {0, Bottom} THEN 1 ELSE 0)
    BY DEF Room
  <2>1. /\ Cardinality(Taking(p, b, m)) \in Nat
        /\ Cardinality(Taking(p, b + 1, m)) =
               IF p.calls[b + 1][2] = m THEN Cardinality(Taking(p, b, m)) + 1
               ELSE Cardinality(Taking(p, b, m))
    BY <1>1, TakingStep
  <2>2. k.level[m].running <= Cardinality(Taking(p, b, m))
                                  + (IF m \in {0, Bottom} THEN 1 ELSE 0)
    BY <1>0 DEF Room
  <2>3. k.level[m].running \in Nat
    BY TaskRecord DEF LevelType
  <2>4. CASE m = l
    <3>1. Cardinality(Taking(p, b + 1, m)) = Cardinality(Taking(p, b, m)) + 1
      BY <2>1, <2>4
    <3>2. g.level[m].running = k.level[m].running + 1
      BY <1>11, <2>4
    <3>3. QED
      BY ONLY <2>1, <2>2, <2>3, <3>1, <3>2
  <2>5. CASE m # l
    <3>1. Cardinality(Taking(p, b + 1, m)) = Cardinality(Taking(p, b, m))
      BY <2>1, <2>5
    <3>2. g.level[m].running = k.level[m].running
      BY <1>11, <2>5
    <3>3. QED
      BY ONLY <2>1, <2>2, <2>3, <3>1, <3>2
  <2>6. QED
    BY <2>4, <2>5
<1>18. Chosen(g, c, p, b + 1)
  <2> PICK o : o = k.now_level
    OBVIOUS
  <2>1. o \in Level /\ g.now_level = o
    BY <1>11, TaskRecord
  <2>2. /\ task_now(k) = c /\ k.tasks0[c].flags = 2
        /\ k.level[o].running = 0 =>
               c = Task_a /\ k.level[o].now = 0 /\ Left(k, p, b, o)
    BY <1>0 DEF Chosen
  <2>3. o = l => k.level[l].running > 0
    <3>1. ASSUME o = l, k.level[l].running = 0
          PROVE  FALSE
      BY ONLY <1>8, <2>2, <3>1
    <3>2. QED
      BY ONLY <1>2a, <3>1
  <2>4. task_now(g) = c
    BY <1>0, <1>2, <1>4, <1>7, <1>10, <2>2, <2>3, NowKept
  <2>5. g.tasks0[c].flags = 2
    BY <1>4, <1>11, <2>2
  <2>6. ASSUME g.level[o].running = 0
        PROVE  c = Task_a /\ g.level[o].now = 0 /\ Left(g, p, b + 1, o)
    <3>1. o # l
      BY ONLY <1>2a, <1>11, <2>6
    <3>2. g.level[o] = k.level[o]
      BY <1>11, <2>1, <3>1
    <3>3. QED
      BY <1>15, <2>2, <2>6, <3>2
  <2>7. QED
    BY <1>10, <2>1, <2>4, <2>5, <2>6 DEF Chosen
<1>19. QED
  BY <1>11, <1>12, <1>14, <1>16, <1>17, <1>18 DEF Sched

-----------------------------------------------------------------------------
(* The specification.                                                       *)

\* task_init makes task 1, on level 0, and the idle task at the bottom.
LEMMA InitStep ==
    ASSUME NEW p \in Plans, NEW g, g = task_init
    PROVE  g \in TaskctlType /\ Sched(g, Task_a, p, 0)
<1>1. /\ Task_a \in Task /\ Idle \in Task /\ Task_a # Idle
      /\ 0 \in Level /\ Bottom \in Level /\ Bottom # 0 /\ Task_a = 1 /\ Idle = 2
  BY Numbers
<1> PICK k0 : k0 = Cleared
  OBVIOUS
<1>2. /\ k0 \in TaskctlType
      /\ \A l \in Level : k0.level[l].running = 0 /\ k0.level[l].now = 0
      /\ \A t \in Task : k0.tasks0[t] = [flags |-> 0, level |-> 0, priority |-> 0]
      /\ k0.now_level = 0
  <2> DEFINE h == [running |-> 0, now |-> 0,
                   tasks |-> [i \in 0 .. MAX_TASKS_LV - 1 |-> Garbage]]
             e == [flags |-> 0, level |-> 0, priority |-> 0]
  <2>1. /\ k0.level = [l \in Level |-> h] /\ k0.tasks0 = [t \in Task |-> e]
        /\ k0.now_level = 0 /\ k0.level_change = 0
        /\ k0 = [now_level |-> 0, level_change |-> 0, level |-> k0.level,
                 tasks0 |-> k0.tasks0]
    BY DEF Cleared
  <2>2. h \in LevelType /\ h.running = 0 /\ h.now = 0
    BY DEF LevelType
  <2>3. e \in EntryType
    BY <1>1 DEF EntryType
  <2> HIDE DEF h, e
  <2>4. k0.level \in [Level -> LevelType] /\ k0.tasks0 \in [Task -> EntryType]
    BY <2>1, <2>2, <2>3
  <2>5. k0 \in TaskctlType
    BY <1>1, <2>1, <2>4 DEF TaskctlType, LevelType, EntryType
  <2>6. /\ \A l \in Level : k0.level[l].running = 0 /\ k0.level[l].now = 0
        /\ \A t \in Task : k0.tasks0[t] = e
    BY <2>1, <2>2
  <2>7. QED
    BY <2>1, <2>5, <2>6 DEF e
<1> PICK k1 : k1 = Claim(k0, Task_a)
  OBVIOUS
<1> PICK e : e = [flags |-> 2, level |-> 0, priority |-> 2]
  OBVIOUS
<1> PICK k2 : k2 = [k1 EXCEPT !.tasks0[Task_a] = e]
  OBVIOUS
<1> PICK n : n = task_add(k2, Task_a)
  OBVIOUS
<1> PICK k3 : k3 = task_switchsub(n)
  OBVIOUS
<1> PICK k4 : k4 = Claim(k3, Idle)
  OBVIOUS
<1>3. g = task_run(k4, Idle, Bottom, 1)
  BY DEF task_init
<1>4. Like(k1, k0, Task_a)
  BY <1>1, <1>2, ClaimEffect
<1>5. Like(k2, k1, Task_a) /\ k2.tasks0[Task_a] = e
  <2>1. k1 \in TaskctlType
    BY <1>4 DEF Like
  <2>2. e \in EntryType
    BY <1>1 DEF EntryType
  <2>3. k2 = EntryPut(k1, Task_a, e)
    BY DEF EntryPut
  <2>4. QED
    BY ONLY <1>1, <2>1, <2>2, <2>3, EntrySet
<1>6. /\ k2 \in TaskctlType /\ k2.now_level = 0 /\ k2.level = k0.level
      /\ \A u \in Task \ {Task_a} : k2.tasks0[u] = k0.tasks0[u]
  BY <1>2, <1>4, <1>5 DEF Like
<1>7. Addition(k2, Task_a, 0, n)
  <2>1. k2.tasks0[Task_a].level = 0
    BY <1>5
  <2>2. k2 = LevelPut(k2, Task_a, 0)
    BY ONLY <1>1, <1>6, <2>1, LevelSame
  <2>3. n = task_add([k2 EXCEPT !.tasks0[Task_a].level = 0], Task_a)
    BY ONLY <2>2, n = task_add(k2, Task_a) DEF LevelPut
  <2>4. k2.level[0].running < MAX_TASKS_LV
    BY <1>1, <1>2, <1>6
  <2>5. QED
    BY <1>1, <1>6, <2>3, <2>4, AddAt
<1>8. /\ n \in TaskctlType
      /\ n.tasks0[Task_a].flags = 2 /\ n.tasks0[Task_a].level = 0
      /\ \A u \in Task \ {Task_a} : n.tasks0[u] = k0.tasks0[u]
      /\ \A m \in Level \ {0} : n.level[m] = k0.level[m]
      /\ n.level[0].running = 1 /\ n.level[0].now = 0
      /\ n.level[0].tasks = [k0.level[0].tasks EXCEPT ![0] = Task_a]
  BY <1>1, <1>2, <1>6, <1>7 DEF Addition
<1>9. /\ k3 \in TaskctlType /\ k3.level = n.level /\ k3.tasks0 = n.tasks0
      /\ k3.now_level = 0
  <2>1. n.level[0].running > 0
    BY <1>8
  <2>2. /\ k3 \in TaskctlType /\ k3.level = n.level /\ k3.tasks0 = n.tasks0
        /\ \A l \in Level : k3.level[l].running > 0 => k3.now_level <= l
    BY <1>1, <1>8, <2>1, SwitchsubEffect
  <2>3. k3.now_level <= 0 /\ k3.now_level \in Level
    BY <1>1, <2>1, <2>2, TaskRecord
  <2>4. k3.now_level = 0
    BY <2>3, Numbers
  <2>5. QED
    BY <2>2, <2>4
<1>10. Like(k4, k3, Idle) /\ k4.tasks0[Idle].flags = 1
  BY <1>1, <1>9, ClaimEffect
<1>11. /\ k4 \in TaskctlType /\ k4.now_level = 0 /\ k4.level = n.level
       /\ \A u \in Task \ {Idle} : k4.tasks0[u] = n.tasks0[u]
       /\ k4.level[Bottom].running = 0 /\ k4.level[Bottom].now = 0
  BY <1>1, <1>2, <1>8, <1>9, <1>10 DEF Like
<1>12. Addition(k4, Idle, Bottom, g) /\ g.level_change = 1
  <2>1. Bottom = Goal(k4, Idle, Bottom)
    <3>1. ~(Bottom < 0)
      BY Numbers
    <3>2. QED
      BY <3>1 DEF Goal
  <2>2. k4.level[Bottom].running < MAX_TASKS_LV
    BY <1>11
  <2>3. QED
    BY <1>1, <1>3, <1>10, <1>11, <2>1, <2>2, RunAdds
<1>13. /\ g \in TaskctlType /\ g.now_level = 0
       /\ g.tasks0[Idle].flags = 2 /\ g.tasks0[Idle].level = Bottom
       /\ \A u \in Task \ {Idle} : g.tasks0[u] = n.tasks0[u]
       /\ \A m \in Level \ {Bottom} : g.level[m] = n.level[m]
       /\ g.level[Bottom].running = 1 /\ g.level[Bottom].now = 0
       /\ g.level[Bottom].tasks = [k4.level[Bottom].tasks EXCEPT ![0] = Idle]
  BY <1>11, <1>12 DEF Addition
<1>14. /\ g.tasks0[Task_a].flags = 2 /\ g.tasks0[Task_a].level = 0
       /\ \A u \in Task \ {Idle, Task_a} : g.tasks0[u].flags = 0
       /\ g.level[0].running = 1 /\ g.level[0].now = 0
       /\ \A m \in Level \ {0, Bottom} : g.level[m].running = 0 /\ g.level[m].now = 0
  BY <1>1, <1>2, <1>8, <1>13
<1>15. g.level[0].tasks[0] = Task_a /\ g.level[Bottom].tasks[0] = Idle
  <2>1. 0 \in 0 .. MAX_TASKS_LV - 1
    OBVIOUS
  <2>2. /\ k0.level[0].tasks \in [0 .. MAX_TASKS_LV - 1 -> Task \cup {Garbage}]
        /\ k4.level[Bottom].tasks \in [0 .. MAX_TASKS_LV - 1 -> Task \cup {Garbage}]
    <3>1. k0.level[0] \in LevelType /\ k4.level[Bottom] \in LevelType
      BY <1>1, <1>2, <1>11, TaskRecord
    <3>2. QED
      BY ONLY <3>1 DEF LevelType
  <2>3. g.level[0].tasks = [k0.level[0].tasks EXCEPT ![0] = Task_a]
    BY <1>1, <1>8, <1>13
  <2>4. QED
    BY ONLY <1>13, <2>1, <2>2, <2>3
<1>16. Lists(g)
  <2>0. ASSUME NEW t \in Task, g.tasks0[t].flags = 2
        PROVE  \/ t = Task_a /\ g.tasks0[t].level = 0
               \/ t = Idle /\ g.tasks0[t].level = Bottom
    <3>1. CASE t = Task_a
      <4>1. g.tasks0[t].level = 0
        BY <1>14, <3>1
      <4>2. QED
        BY ONLY <3>1, <4>1
    <3>2. CASE t = Idle
      <4>1. g.tasks0[t].level = Bottom
        BY <1>13, <3>2
      <4>2. QED
        BY ONLY <3>2, <4>1
    <3>3. CASE t # Task_a /\ t # Idle
      BY <1>14, <2>0, <3>3
    <3>4. QED
      BY <3>1, <3>2, <3>3
  <2>1. Active(g, 0) = {Task_a} /\ Active(g, Bottom) = {Idle}
    <3>1. Task_a \in Active(g, 0) /\ Idle \in Active(g, Bottom)
      BY <1>1, <1>13, <1>14 DEF Active
    <3>2. \A t \in Active(g, 0) : t = Task_a
      BY <1>1, <2>0 DEF Active
    <3>3. \A t \in Active(g, Bottom) : t = Idle
      BY <1>1, <2>0 DEF Active
    <3>4. QED
      BY ONLY <3>1, <3>2, <3>3
  <2>2. ASSUME NEW m \in Level, m # 0, m # Bottom
        PROVE  Active(g, m) = {}
    BY <2>0, <2>2 DEF Active
  <2>3. \A i \in 0 .. 1 - 1 : i = 0
    OBVIOUS
  <2>4. 0 \in 0 .. 1 - 1
    OBVIOUS
  <2>5. Exact(g, 0)
    BY ONLY <1>14, <1>15, <2>1, <2>3, <2>4 DEF Exact
  <2>6. Exact(g, Bottom)
    BY ONLY <1>13, <1>15, <2>1, <2>3, <2>4 DEF Exact
  <2>7. ASSUME NEW m \in Level, m # 0, m # Bottom
        PROVE  Exact(g, m)
    <3>1. g.level[m].running = 0 /\ Active(g, m) = {}
      BY <1>14, <2>2, <2>7
    <3>2. \A i \in 0 .. 0 - 1 : FALSE
      OBVIOUS
    <3>3. QED
      BY ONLY <3>1, <3>2 DEF Exact
  <2>8. QED
    BY <2>5, <2>6, <2>7 DEF Lists
<1>17. Tasks(g, p, 0)
  <2>1. Number(p, 0) = 2
    BY NumberStep
  <2>2. At(p, 0, Task_a, 0)
    BY DEF At
  <2>3. ASSUME NEW u \in Task
        PROVE  g.tasks0[u].flags # 0 <=> u <= 2
    <3>1. u \in Nat /\ u > 0
      BY Numbers
    <3>2. CASE u \in {Task_a, Idle}
      BY <1>1, <1>13, <1>14, <3>2
    <3>3. CASE u \notin {Task_a, Idle}
      BY <1>1, <1>14, <3>1, <3>3
    <3>4. QED
      BY <3>2, <3>3
  <2>4. \A u \in Task : g.tasks0[u].flags # 1
    BY <1>13, <1>14
  <2>5. \A u \in Task \ {Idle} : g.tasks0[u].flags # 0 => u = Task_a
    BY <1>14
  <2>6. QED
    BY <1>13, <1>14, <2>1, <2>2, <2>3, <2>4, <2>5 DEF Tasks
<1>18. Heads(g, p, 0)
  BY <1>13, <1>14 DEF Heads
<1>19. Room(g, p, 0)
  <2> SUFFICES ASSUME NEW m \in Level
               PROVE  g.level[m].running
                          <= Cardinality(Taking(p, 0, m)) + (IF m \in {0, Bottom} THEN 1 ELSE 0)
    BY DEF Room
  <2>1. Cardinality(Taking(p, 0, m)) \in Nat
    BY TakingStep
  <2>2. g.level[m].running = (IF m \in {0, Bottom} THEN 1 ELSE 0)
    BY <1>13, <1>14
  <2>3. QED
    BY ONLY <2>1, <2>2
<1>20. Chosen(g, Task_a, p, 0)
  <2>1. task_now(g) = Task_a
    BY <1>13, <1>14, <1>15 DEF task_now
  <2>2. g.level[g.now_level].running # 0
    BY <1>13, <1>14
  <2>3. QED
    BY <1>12, <1>14, <2>1, <2>2 DEF Chosen
<1>21. QED
  BY <1>13, <1>16, <1>17, <1>18, <1>19, <1>20 DEF Sched

\* The invariant holds at first.
LEMMA InitHolds == Init => IInv
<1> SUFFICES ASSUME Init
             PROVE  IInv
  OBVIOUS
<1>1. taskctl = task_init /\ cpu = Task_a /\ boot = 0 /\ plan \in Plans
  BY DEF Init
<1>2. taskctl \in TaskctlType /\ Sched(taskctl, Task_a, plan, 0)
  BY <1>1, InitStep
<1>3. 0 \in 0 .. Len(plan.calls) /\ Task_a \in Task
  BY <1>1, PlanFields, Numbers
<1>4. QED
  BY <1>1, <1>2, <1>3 DEF IInv, TypeOK

\* Every step keeps it.
LEMMA NextKeeps == IInv /\ [Next]_vars => IInv'
<1> SUFFICES ASSUME IInv, [Next]_vars
             PROVE  IInv'
  OBVIOUS
<1>1. /\ taskctl \in TaskctlType /\ cpu \in Task /\ plan \in Plans
      /\ boot \in 0 .. Len(plan.calls)
      /\ Sched(taskctl, cpu, plan, boot)
  BY DEF IInv, TypeOK
<1>2. CASE BootCall
  <2>1. /\ cpu = Task_a /\ boot < Len(plan.calls)
        /\ boot' = boot + 1 /\ cpu' = cpu /\ plan' = plan
    BY <1>2 DEF BootCall
  <2>2. boot \in 0 .. Len(plan.calls) - 1 /\ boot' \in 0 .. Len(plan.calls)
    BY <1>1, <2>1, PlanFields
  <2> PICK level : level = plan.calls[boot + 1][2]
    OBVIOUS
  <2> PICK priority : priority = plan.calls[boot + 1][3]
    OBVIOUS
  <2>3. \/ /\ plan.calls[boot + 1][1] = "move"
           /\ taskctl' = task_run(taskctl, Task_a, level, priority)
        \/ /\ plan.calls[boot + 1][1] = "start"
           /\ task_alloc(taskctl) # 0
           /\ taskctl' = task_run(Claim(taskctl, task_alloc(taskctl)),
                                  task_alloc(taskctl), level, priority)
    BY <1>2 DEF BootCall
  <2>4. taskctl' \in TaskctlType /\ Sched(taskctl', cpu, plan, boot + 1)
    <3>1. CASE /\ plan.calls[boot + 1][1] = "move"
               /\ taskctl' = task_run(taskctl, Task_a, level, priority)
      BY <1>1, <2>1, <2>2, <3>1, MoveStep
    <3>2. CASE /\ plan.calls[boot + 1][1] = "start"
               /\ task_alloc(taskctl) # 0
               /\ taskctl' = task_run(Claim(taskctl, task_alloc(taskctl)),
                                      task_alloc(taskctl), level, priority)
      <4> PICK t : t = task_alloc(taskctl)
        OBVIOUS
      <4>1. t # 0 /\ taskctl' = task_run(Claim(taskctl, t), t, level, priority)
        BY <3>2
      <4>2. QED
        BY <1>1, <2>2, <3>2, <4>1, StartStep
    <3>3. QED
      BY <2>3, <3>1, <3>2
  <2>5. QED
    BY <1>1, <2>1, <2>2, <2>4 DEF IInv, TypeOK
<1>3. CASE Sleep
  <2>1. /\ cpu \in plan.sleepers /\ taskctl' = task_sleep(taskctl, cpu)
        /\ cpu' = task_now(taskctl') /\ boot' = boot /\ plan' = plan
    BY <1>3 DEF Sleep
  <2>2. /\ taskctl' \in TaskctlType /\ task_now(taskctl') \in Task
        /\ Sched(taskctl', task_now(taskctl'), plan, boot)
    BY <1>1, <2>1, SleepStep
  <2>3. QED
    BY <1>1, <2>1, <2>2 DEF IInv, TypeOK
<1>4. CASE \E t \in Task : Wake(t)
  <2>1. PICK t \in Task : Wake(t)
    BY <1>4
  <2>2. /\ t \in plan.sleepers /\ taskctl.tasks0[t].flags = 1
        /\ taskctl' = task_run(taskctl, t, -1, 0)
        /\ cpu' = cpu /\ boot' = boot /\ plan' = plan
    BY <2>1 DEF Wake
  <2>3. taskctl' \in TaskctlType /\ Sched(taskctl', cpu, plan, boot)
    BY <1>1, <2>2, WakeStep
  <2>4. QED
    BY <1>1, <2>2, <2>3 DEF IInv, TypeOK
<1>5. CASE Switch
  <2>1. /\ taskctl' = task_switch(taskctl)
        /\ cpu' = task_now(taskctl') /\ boot' = boot /\ plan' = plan
    BY <1>5 DEF Switch
  <2>2. /\ taskctl' \in TaskctlType /\ task_now(taskctl') \in Task
        /\ Sched(taskctl', task_now(taskctl'), plan, boot)
    BY <1>1, <2>1, SwitchStep
  <2>3. QED
    BY <1>1, <2>1, <2>2 DEF IInv, TypeOK
<1>6. CASE UNCHANGED vars
  BY <1>6 DEF vars, IInv, TypeOK
<1>7. QED
  BY <1>2, <1>3, <1>4, <1>5, <1>6 DEF Next

\* In every state the tasks, the lists and the choice of task are as they should be.
LEMMA AlwaysIInv == Spec => []IInv
BY InitHolds, NextKeeps, PTL DEF Spec

\* The structures of mtask.c keep their types: no list is ever longer than its
\* array, no level outside of the table is chosen, and the processor runs a task.
THEOREM TypeCorrect == Spec => []TypeOK
<1>1. IInv => TypeOK
  BY DEF IInv
<1>2. QED
  BY AlwaysIInv, <1>1, PTL

\* A list names its level's active tasks, as many as `running' says.
LEMMA ExactCounts ==
    ASSUME NEW k \in TaskctlType, NEW l \in Level, Exact(k, l)
    PROVE  /\ k.level[l].running = Cardinality(Active(k, l))
           /\ Listed(k, l) = Active(k, l)
<1> PICK r : r = k.level[l].running
  OBVIOUS
<1> PICK w : w = k.level[l].tasks
  OBVIOUS
<1> PICK A : A = Active(k, l)
  OBVIOUS
<1>1. r \in Nat
  BY TaskRecord DEF LevelType
<1>2. /\ \A i \in 0 .. r - 1 : w[i] \in A
      /\ \A i, j \in 0 .. r - 1 : w[i] = w[j] => i = j
      /\ \A u \in A : \E i \in 0 .. r - 1 : w[i] = u
  BY ONLY r = k.level[l].running, w = k.level[l].tasks, A = Active(k, l), Exact(k, l)
     DEF Exact
<1>3. {w[i] : i \in 0 .. r - 1} = A
  BY ONLY <1>2
<1> DEFINE f == [i \in 0 .. r - 1 |-> w[i]]
<1>4. f \in Bijection(0 .. r - 1, A)
  <2>1. f \in [0 .. r - 1 -> A]
    BY ONLY <1>2
  <2>2. \A i, j \in 0 .. r - 1 : f[i] = f[j] => i = j
    BY ONLY <1>2
  <2>3. \A u \in A : \E i \in 0 .. r - 1 : f[i] = u
    BY ONLY <1>2
  <2> HIDE DEF f
  <2>4. QED
    BY ONLY <2>1, <2>2, <2>3 DEF Bijection, Injection, Surjection, IsInjective
<1> HIDE DEF f
<1>5. ExistsBijection(0 .. r - 1, A)
  BY ONLY <1>4 DEF ExistsBijection
<1>6. /\ IsFiniteSet(0 .. r - 1)
      /\ Cardinality(0 .. r - 1) = IF 0 > r - 1 THEN 0 ELSE (r - 1) - 0 + 1
  <2>1. 0 \in Int /\ r - 1 \in Int
    BY <1>1
  <2>2. QED
    BY ONLY <2>1, FS_Interval
<1>7. Cardinality(A) = Cardinality(0 .. r - 1)
  BY ONLY <1>5, <1>6, FS_Bijection
<1>8. Cardinality(A) = r
  BY ONLY <1>1, <1>6, <1>7
<1>9. QED
  BY <1>3, <1>8 DEF Listed

\* The list of each level names each of its active tasks once and nobody else, in
\* every plan that keeps a sleeping or moved task alone on its level: what
\* task_remove and task_add have to keep, although neither looks at the entries.
THEOREM QueuesStayExact == Spec => []QueuesExact
<1>1. IInv => QueuesExact
  <2> SUFFICES ASSUME IInv, NEW l \in Level
               PROVE  /\ taskctl.level[l].running = Cardinality(Active(taskctl, l))
                      /\ Listed(taskctl, l) = Active(taskctl, l)
    BY DEF QueuesExact
  <2>1. taskctl \in TaskctlType /\ Exact(taskctl, l)
    BY DEF IInv, TypeOK, Sched, Lists
  <2>2. QED
    BY <2>1, ExactCounts
<1>2. QED
  BY AlwaysIInv, <1>1, PTL

\* task_now() is the task the processor runs; it is active, and none is more urgent
\* unless a level change is asked for: task_switch, task_sleep, task_run and the
\* boot code together, whoever interrupts whom.
THEOREM MostUrgentRuns == Spec => []UrgentFirst
<1>1. IInv => UrgentFirst
  <2> SUFFICES ASSUME IInv
               PROVE  UrgentFirst
    OBVIOUS
  <2>1. /\ taskctl \in TaskctlType /\ Lists(taskctl)
        /\ Chosen(taskctl, cpu, plan, boot)
    BY DEF IInv, TypeOK, Sched
  <2>2. task_now(taskctl) = cpu /\ taskctl.tasks0[cpu].flags = 2
    BY <2>1 DEF Chosen
  <2>3. ASSUME taskctl.level_change = 0, NEW t \in Task, taskctl.tasks0[t].flags = 2
        PROVE  taskctl.tasks0[t].level >= taskctl.tasks0[cpu].level
    <3> PICK o : o = taskctl.now_level
      OBVIOUS
    <3>1. /\ taskctl.level[o].running > 0
          /\ \A l \in Level : taskctl.level[l].running > 0 => o <= l
      BY <2>1, <2>3 DEF Chosen
    <3>2. o \in Level /\ Exact(taskctl, o)
      BY <2>1, TaskRecord DEF Lists
    <3>3. cpu = taskctl.level[o].tasks[taskctl.level[o].now]
      BY <2>2 DEF task_now
    <3>4. taskctl.tasks0[cpu].level = o
      BY <2>1, <3>1, <3>2, <3>3, NowActive
    <3> PICK l : l = taskctl.tasks0[t].level
      OBVIOUS
    <3>5. l \in Level /\ taskctl.level[l].running > 0
      BY <2>1, <2>3, SomebodyListed
    <3>6. o <= l /\ o \in Nat /\ l \in Nat
      BY <3>1, <3>2, <3>5, Numbers
    <3>7. QED
      BY ONLY <3>4, <3>6, l = taskctl.tasks0[t].level
  <2>4. QED
    BY <2>2, <2>3 DEF UrgentFirst
<1>2. QED
  BY AlwaysIInv, <1>1, PTL

-----------------------------------------------------------------------------
(* The timers.  First, their list.                                          *)

\* The timers of tc's list are those of w, from 1 to k.
List(tc, w, k) ==
    /\ k \in Nat \ {0} /\ w \in [1 .. k -> Timers]
    /\ \A i, j \in 1 .. k : w[i] = w[j] => i = j
    /\ tc.t0 = w[1]
    /\ \A i \in 1 .. k : tc.timers0[w[i]].next = IF i = k THEN NULL ELSE w[i + 1]

\* They are in order of time, and the sentinel is the last.
Ordered(tc, w, k) ==
    /\ w[k] = Sentinel /\ tc.timers0[Sentinel].timeout = Wide - 1
    /\ \A i, j \in 1 .. k : i <= j => tc.timers0[w[i]].timeout <= tc.timers0[w[j]].timeout

\* The numbers of timers.
LEMMA TimerNumbers ==
    /\ MAX_TIMER \in Nat \ {0} /\ Wide \in Nat \ {0, 1} /\ MaxCount \in 0 .. Wide - 1
    /\ Delays \subseteq Nat \ {0}
    /\ Timers = 1 .. MAX_TIMER /\ NULL = 0 /\ NULL \notin Timers
    /\ Sentinel = 1 /\ Sentinel \in Timers
BY TimerLimits DEF Timers, NULL, Sentinel

\* No list is longer than the pool.
LEMMA ListLength ==
    ASSUME NEW tc, NEW w, NEW k, List(tc, w, k)
    PROVE  /\ k <= MAX_TIMER
           /\ Cardinality({w[i] : i \in 1 .. k}) = k
<1> DEFINE R == {w[i] : i \in 1 .. k}
<1>1. k \in Nat \ {0} /\ w \in [1 .. k -> Timers] /\ \A i, j \in 1 .. k : w[i] = w[j] => i = j
  BY DEF List
<1>2. IsFiniteSet(1 .. k) /\ Cardinality(1 .. k) = k
  <2>1. 1 \in Int /\ k \in Int /\ ~ (1 > k)
    BY <1>1
  <2>2. QED
    BY <1>1, <2>1, FS_Interval
<1>3. IsFiniteSet(Timers) /\ Cardinality(Timers) = MAX_TIMER
  <2>1. 1 \in Int /\ MAX_TIMER \in Int /\ ~ (1 > MAX_TIMER) /\ Timers = 1 .. MAX_TIMER
    BY TimerNumbers
  <2>2. QED
    BY <2>1, TimerNumbers, FS_Interval
<1>4. w \in Injection(1 .. k, Timers)
  BY <1>1, Zenon DEF Injection, IsInjective
<1>5. k <= MAX_TIMER
  BY <1>2, <1>3, <1>4, FS_Injection
<1>6. w \in Surjection(1 .. k, R) /\ w \in Injection(1 .. k, R)
  <2>1. w \in [1 .. k -> R]
    BY <1>1
  <2>2. \A y \in R : \E i \in 1 .. k : w[i] = y
    OBVIOUS
  <2> HIDE DEF R
  <2>3. QED
    BY <1>1, <2>1, <2>2, Zenon DEF Surjection, Injection, IsInjective
<1> HIDE DEF R
<1>7. Cardinality(R) = Cardinality(1 .. k)
  BY <1>2, <1>6, FS_Surjection
<1>8. QED
  BY <1>2, <1>5, <1>7 DEF R

\* The pointers lead from one timer of the list to the next.
LEMMA ChainIs ==
    ASSUME NEW tc, NEW w, NEW k, List(tc, w, k)
    PROVE  Chain(tc) = [n \in 0 .. MAX_TIMER |-> IF n < k THEN w[n + 1] ELSE NULL]
<1> DEFINE IsChain(node) ==
               node = [n \in 0 .. MAX_TIMER |->
                          IF n = 0 THEN tc.t0
                          ELSE IF node[n - 1] = NULL THEN NULL
                          ELSE tc.timers0[node[n - 1]].next]
           walk == [n \in 0 .. MAX_TIMER |-> IF n < k THEN w[n + 1] ELSE NULL]
           node0 == CHOOSE node : IsChain(node)
<1>1. k \in Nat \ {0} /\ w \in [1 .. k -> Timers] /\ MAX_TIMER \in Nat
  BY TimerNumbers DEF List
<1>2. IsChain(walk)
  <2>1. ASSUME NEW n \in 0 .. MAX_TIMER
        PROVE  walk[n] = IF n = 0 THEN tc.t0
                         ELSE IF walk[n - 1] = NULL THEN NULL
                         ELSE tc.timers0[walk[n - 1]].next
    <3>1. CASE n = 0
      <4>1. n < k /\ n + 1 = 1
        BY <1>1, <3>1
      <4>2. QED
        BY <3>1, <4>1 DEF List
    <3>2. CASE n # 0
      <4>1. n - 1 \in 0 .. MAX_TIMER /\ n - 1 + 1 = n
        BY <1>1, <3>2
      <4>2. CASE n - 1 < k
        <5>1. n \in 1 .. k /\ (n < k <=> n # k)
          BY <1>1, <3>2, <4>2
        <5>2. walk[n - 1] = w[n] /\ w[n] # NULL
          BY <1>1, <4>1, <4>2, <5>1, TimerNumbers
        <5>3. tc.timers0[w[n]].next = IF n = k THEN NULL ELSE w[n + 1]
          BY <5>1 DEF List
        <5>4. QED
          BY <3>2, <5>1, <5>2, <5>3
      <4>3. CASE ~ (n - 1 < k)
        <5>1. ~ (n < k)
          BY <1>1, <4>3
        <5>2. QED
          BY <3>2, <4>1, <4>3, <5>1
      <4>4. QED
        BY <4>2, <4>3
    <3>3. QED
      BY <3>1, <3>2
  <2>2. walk = [n \in 0 .. MAX_TIMER |-> walk[n]]
    OBVIOUS
  <2> HIDE DEF walk
  <2>3. QED
    BY <2>1, <2>2, Zenon
<1>3. IsChain(node0)
  <2> HIDE DEF IsChain, walk
  <2>1. QED
    BY <1>2, Zenon
<1>4. Chain(tc) = node0
  BY Zenon DEF Chain
<1> HIDE DEF node0, walk
<1> DEFINE Wrong == {n \in 0 .. MAX_TIMER : node0[n] # walk[n]}
<1>5. Wrong = {}
  <2>1. SUFFICES ASSUME Wrong # {} PROVE FALSE
    OBVIOUS
  <2>2. PICK n \in Wrong : \A m \in Wrong : n <= m
    <3>1. Wrong \subseteq Nat
      OBVIOUS
    <3> HIDE DEF Wrong
    <3>2. QED
      BY <2>1, <3>1, HasLeast
  <2>3. n \in 0 .. MAX_TIMER /\ node0[n] # walk[n]
    BY <2>2
  <2>4. /\ node0[n] = IF n = 0 THEN tc.t0 ELSE IF node0[n - 1] = NULL THEN NULL
                      ELSE tc.timers0[node0[n - 1]].next
        /\ walk[n] = IF n = 0 THEN tc.t0 ELSE IF walk[n - 1] = NULL THEN NULL
                     ELSE tc.timers0[walk[n - 1]].next
    BY <1>2, <1>3, <2>3
  <2>5. n # 0 => node0[n - 1] = walk[n - 1]
    <3>1. ASSUME n # 0 PROVE n - 1 \in 0 .. MAX_TIMER /\ n - 1 \notin Wrong
      BY <1>1, <2>2, <2>3, <3>1
    <3>2. QED
      BY <3>1
  <2>6. QED
    BY <2>3, <2>4, <2>5
<1>6. node0 = [n \in 0 .. MAX_TIMER |-> node0[n]] /\ walk = [n \in 0 .. MAX_TIMER |-> walk[n]]
  BY <1>2, <1>3
<1>7. node0 = walk
  BY <1>5, <1>6
<1>8. QED
  BY <1>4, <1>7 DEF walk

\* What the pointers lead to, place by place.
LEMMA Nodes ==
    ASSUME NEW tc, NEW w, NEW k, List(tc, w, k), NEW node, node = Chain(tc)
    PROVE  /\ DOMAIN node = 0 .. MAX_TIMER /\ k \in 1 .. MAX_TIMER
           /\ \A n \in 0 .. MAX_TIMER : node[n] = IF n < k THEN w[n + 1] ELSE NULL
           /\ \A n \in 0 .. k - 1 : n \in 0 .. MAX_TIMER /\ node[n] = w[n + 1] /\ node[n] # NULL
           /\ \A n \in k .. MAX_TIMER : node[n] = NULL
<1>1. node = [n \in 0 .. MAX_TIMER |-> IF n < k THEN w[n + 1] ELSE NULL]
  BY ChainIs
<1>2. k \in 1 .. MAX_TIMER /\ MAX_TIMER \in Nat /\ w \in [1 .. k -> Timers]
  <2>1. k \in Nat \ {0} /\ w \in [1 .. k -> Timers]
    BY DEF List
  <2>2. k <= MAX_TIMER
    BY ListLength
  <2>3. QED
    BY <2>1, <2>2, TimerNumbers
<1>3. ASSUME NEW n \in 0 .. k - 1
      PROVE  n \in 0 .. MAX_TIMER /\ node[n] = w[n + 1] /\ node[n] # NULL
  <2>1. n \in 0 .. MAX_TIMER /\ n < k /\ n + 1 \in 1 .. k
    BY <1>2
  <2>2. w[n + 1] \in Timers
    BY <1>2, <2>1
  <2>3. QED
    BY <1>1, <2>1, <2>2, TimerNumbers
<1>4. ASSUME NEW n \in k .. MAX_TIMER PROVE node[n] = NULL
  BY <1>1, <1>2
<1>5. QED
  BY <1>1, <1>2, <1>3, <1>4

\* The timers that the walk meets are those of w.
LEMMA WalkMeets ==
    ASSUME NEW w, NEW k, List(timerctl, w, k)
    PROVE  Linked = {w[i] : i \in 1 .. k}
<1>1. PICK node : node = Chain(timerctl)
  OBVIOUS
<1>2. /\ k \in 1 .. MAX_TIMER /\ MAX_TIMER \in Nat
      /\ \A n \in 0 .. k - 1 : n \in 0 .. MAX_TIMER /\ node[n] = w[n + 1] /\ node[n] # NULL
      /\ \A n \in k .. MAX_TIMER : node[n] = NULL
  BY <1>1, Nodes, TimerNumbers
<1>3. Linked = {node[n - 1] : n \in 1 .. MAX_TIMER} \ {NULL}
  BY <1>1 DEF Linked, ToSet
<1>4. ASSUME NEW n \in 1 .. MAX_TIMER, node[n - 1] # NULL
      PROVE  node[n - 1] \in {w[i] : i \in 1 .. k}
  <2>1. n - 1 \in 0 .. k - 1 /\ n \in 1 .. k /\ n - 1 + 1 = n
    BY <1>2, <1>4
  <2>2. QED
    BY <1>2, <2>1
<1>5. ASSUME NEW i \in 1 .. k
      PROVE  w[i] # NULL /\ w[i] \in {node[n - 1] : n \in 1 .. MAX_TIMER}
  <2>1. i - 1 \in 0 .. k - 1 /\ i \in 1 .. MAX_TIMER /\ i - 1 + 1 = i
    BY <1>2
  <2>2. QED
    BY <1>2, <2>1
<1>6. QED
  BY <1>3, <1>4, <1>5

\* timer_settime finds the first place whose timer is not earlier; the sentinel's
\* is one.
LEMMA SlotIs ==
    ASSUME NEW tc, NEW w, NEW k, List(tc, w, k), Ordered(tc, w, k),
           NEW time \in 0 .. Wide - 1, \A t \in Timers : tc.timers0[t].timeout \in Nat
    PROVE  /\ Slot(tc, time) \in 0 .. k - 1
           /\ \A i \in 1 .. Slot(tc, time) : tc.timers0[w[i]].timeout < time
           /\ tc.timers0[w[Slot(tc, time) + 1]].timeout >= time
<1>1. PICK node : node = Chain(tc)
  OBVIOUS
<1>2. /\ DOMAIN node = 0 .. MAX_TIMER /\ k \in 1 .. MAX_TIMER /\ MAX_TIMER \in Nat
      /\ w \in [1 .. k -> Timers]
      /\ \A n \in 0 .. k - 1 : n \in 0 .. MAX_TIMER /\ node[n] = w[n + 1] /\ node[n] # NULL
      /\ \A n \in k .. MAX_TIMER : node[n] = NULL
  <2>1. w \in [1 .. k -> Timers]
    BY DEF List
  <2>2. QED
    BY <1>1, <2>1, Nodes, TimerNumbers
<1> DEFINE D == {n \in DOMAIN node : node[n] # NULL /\ tc.timers0[node[n]].timeout >= time}
<1>3. D \subseteq 0 .. k - 1
  BY <1>2
<1>4. k - 1 \in D
  <2>1. k - 1 \in 0 .. k - 1 /\ k - 1 + 1 = k
    BY <1>2
  <2>2. tc.timers0[node[k - 1]].timeout = Wide - 1
    BY <1>2, <2>1 DEF Ordered
  <2>3. Wide - 1 >= time
    BY TimerNumbers
  <2>4. QED
    BY <1>2, <2>1, <2>2, <2>3
<1>5. PICK n \in D : \A m \in D : n <= m
  <2>1. D \subseteq Nat /\ D # {}
    BY <1>3, <1>4
  <2> HIDE DEF D
  <2>2. QED
    BY <2>1, HasLeast
<1>6. Slot(tc, time) = n
  <2>1. D \in SUBSET Int
    BY <1>3
  <2>2. Slot(tc, time) = Min(D)
    BY <1>1, Zenon DEF Slot
  <2> HIDE DEF D
  <2>3. QED
    BY <1>5, <2>1, <2>2, SmallestIs
<1>7. n \in 0 .. k - 1 /\ tc.timers0[w[n + 1]].timeout >= time
  BY <1>2, <1>3, <1>5
<1>8. ASSUME NEW i \in 1 .. n PROVE tc.timers0[w[i]].timeout < time
  <2>1. i - 1 \in 0 .. k - 1 /\ i - 1 + 1 = i /\ i - 1 < n /\ i \in 1 .. k
    BY <1>2, <1>7
  <2>2. i - 1 \notin D
    BY <1>3, <1>5, <2>1
  <2>3. ~ (tc.timers0[w[i]].timeout >= time)
    BY <1>2, <2>1, <2>2
  <2>4. tc.timers0[w[i]].timeout \in Nat
    BY <1>2, <2>1
  <2>5. QED
    BY <2>3, <2>4, TimerNumbers
<1>9. QED
  BY <1>6, <1>7, <1>8

\* inthandler20's loop goes over the first timers of the list, as many as are due,
\* and stops before the sentinel.
LEMMA DueIs ==
    ASSUME NEW tc, NEW w, NEW k, List(tc, w, k), Ordered(tc, w, k),
           tc.count \in Nat, tc.count < Wide - 1, \A t \in Timers : tc.timers0[t].timeout \in Nat
    PROVE  \E m \in 0 .. k - 1 :
               /\ DueTimers(tc) = [i \in 1 .. m |-> w[i]]
               /\ \A i \in 1 .. m : tc.timers0[w[i]].timeout <= tc.count
               /\ \A i \in m + 1 .. k : tc.timers0[w[i]].timeout > tc.count
<1>1. PICK node : node = Chain(tc)
  OBVIOUS
<1>2. /\ DOMAIN node = 0 .. MAX_TIMER /\ k \in 1 .. MAX_TIMER /\ MAX_TIMER \in Nat
      /\ w \in [1 .. k -> Timers]
      /\ \A n \in 0 .. k - 1 : n \in 0 .. MAX_TIMER /\ node[n] = w[n + 1] /\ node[n] # NULL
      /\ \A n \in k .. MAX_TIMER : node[n] = NULL
  <2>1. w \in [1 .. k -> Timers]
    BY DEF List
  <2>2. QED
    BY <1>1, <2>1, Nodes, TimerNumbers
<1> DEFINE stop == {n \in DOMAIN node :
                       node[n] = NULL \/ ~ Due(tc.timers0[node[n]].timeout, tc.count)}
<1>3. k - 1 \in stop
  <2>1. k - 1 \in 0 .. k - 1 /\ k - 1 + 1 = k
    BY <1>2
  <2>2. tc.timers0[node[k - 1]].timeout = Wide - 1
    BY <1>2, <2>1 DEF Ordered
  <2>3. ~ (Wide - 1 <= tc.count)
    BY TimerNumbers
  <2>4. QED
    BY <1>2, <2>1, <2>2, <2>3 DEF Due
<1>4. PICK m \in stop : \A n \in stop : m <= n
  <2>1. stop \subseteq Nat /\ stop # {}
    BY <1>2, <1>3
  <2> HIDE DEF stop
  <2>2. QED
    BY <2>1, HasLeast
<1>5. Min(stop) = m
  <2>1. stop \in SUBSET Int
    BY <1>2
  <2> HIDE DEF stop
  <2>2. QED
    BY <1>4, <2>1, SmallestIs
<1>6. m \in 0 .. k - 1
  BY <1>2, <1>3, <1>4
<1>7. DueTimers(tc) = [i \in 1 .. m |-> node[i - 1]]
  BY <1>1, <1>5, Zenon DEF DueTimers
<1>8. \A i \in 1 .. m : i - 1 \in 0 .. k - 1 /\ i - 1 + 1 = i /\ i - 1 < m
  BY <1>2, <1>6
<1>9. \A i \in 1 .. m : node[i - 1] = w[i]
  BY <1>2, <1>8
<1>10. ASSUME NEW i \in 1 .. m PROVE tc.timers0[w[i]].timeout <= tc.count
  <2>1. i - 1 \notin stop
    <3>1. i - 1 \in Int /\ m \in Int /\ ~ (m <= i - 1)
      BY <1>2, <1>6
    <3> HIDE DEF stop
    <3>2. QED
      BY <1>4, <3>1
  <2>2. QED
    BY <1>2, <1>8, <2>1 DEF Due
<1>11. ASSUME NEW i \in m + 1 .. k PROVE tc.timers0[w[i]].timeout > tc.count
  <2>1. m + 1 \in 1 .. k /\ i \in 1 .. k /\ m + 1 <= i
    BY <1>2, <1>6
  <2>2. node[m] = w[m + 1] /\ ~ (tc.timers0[w[m + 1]].timeout <= tc.count)
    BY <1>2, <1>4, <1>6 DEF Due
  <2>3. tc.timers0[w[m + 1]].timeout <= tc.timers0[w[i]].timeout
    BY <2>1 DEF Ordered
  <2>4. tc.timers0[w[m + 1]].timeout \in Nat /\ tc.timers0[w[i]].timeout \in Nat
    BY <1>2, <2>1
  <2>5. QED
    BY <2>2, <2>3, <2>4
<1>12. DueTimers(tc) = [i \in 1 .. m |-> w[i]]
  BY <1>7, <1>9
<1>13. QED
  BY <1>6, <1>10, <1>11, <1>12

-----------------------------------------------------------------------------
(* Linking a timer in.                                                      *)

TimerRecord == [flags : {0, TIMER_FLAGS_ALLOC, TIMER_FLAGS_USING},
                timeout : 0 .. Wide - 1,
                next : Timers \cup {NULL}]
TimerCtl == [count : 0 .. Wide - 1, next : 0 .. Wide - 1, t0 : Timers,
             timers0 : [Timers -> TimerRecord]]

\* The list of tc is w, in order, and tc.next is the time of its first timer.
Sound(tc, w, k) ==
    /\ tc \in TimerCtl
    /\ List(tc, w, k)
    /\ Ordered(tc, w, k)
    /\ tc.next = tc.timers0[tc.t0].timeout

\* Nothing but the pointers has changed from the timers f to the timers g.
SameTimes(f, g) ==
    \A x \in Timers : g[x].flags = f[x].flags /\ g[x].timeout = f[x].timeout

\* The types of a timer's fields.
LEMMA FieldTypes ==
    ASSUME NEW f \in [Timers -> TimerRecord], NEW x \in Timers
    PROVE  /\ f[x].flags \in {0, TIMER_FLAGS_ALLOC, TIMER_FLAGS_USING}
           /\ f[x].timeout \in 0 .. Wide - 1 /\ f[x].timeout \in Nat
           /\ f[x].next \in Timers \cup {NULL}
BY TimerNumbers DEF TimerRecord

\* The timers f with t's pointer set to a.
Pointing(f, t, a) == [f EXCEPT ![t].next = a]

\* Setting one pointer.
LEMMA SetNext ==
    ASSUME NEW f \in [Timers -> TimerRecord], NEW t \in Timers, NEW a \in Timers \cup {NULL},
           NEW g, g = Pointing(f, t, a)
    PROVE  /\ g \in [Timers -> TimerRecord] /\ SameTimes(f, g)
           /\ \A x \in Timers : g[x].next = IF x = t THEN a ELSE f[x].next
<1>1. \A x \in Timers : g[x] = IF x = t THEN [f[x] EXCEPT !.next = a] ELSE f[x]
  BY DEF Pointing
<1>2. ASSUME NEW x \in Timers
      PROVE  /\ g[x] \in TimerRecord
             /\ g[x].flags = f[x].flags /\ g[x].timeout = f[x].timeout
             /\ g[x].next = IF x = t THEN a ELSE f[x].next
  <2>1. f[x] \in TimerRecord
    OBVIOUS
  <2>2. QED
    BY <1>1, <2>1 DEF TimerRecord
<1>3. g = [x \in Timers |-> g[x]]
  BY DEF Pointing
<1>4. QED
  BY <1>2, <1>3 DEF SameTimes

\* What Link changes.
LEMMA Links ==
    ASSUME NEW tc \in TimerCtl, NEW w, NEW k, List(tc, w, k), Ordered(tc, w, k),
           NEW t \in Timers, NEW n, n = Slot(tc, tc.timers0[t].timeout),
           NEW r, r = Link(tc, t)
    PROVE  /\ r \in TimerCtl /\ r.count = tc.count /\ SameTimes(tc.timers0, r.timers0)
           /\ r.t0 = IF n = 0 THEN t ELSE tc.t0
           /\ r.next = IF n = 0 THEN tc.timers0[t].timeout ELSE tc.next
           /\ n # 0 /\ w[n] # t =>
                  \A x \in Timers : r.timers0[x].next =
                      IF x = t THEN w[n + 1] ELSE IF x = w[n] THEN t ELSE tc.timers0[x].next
           /\ n = 0 => \A x \in Timers : r.timers0[x].next =
                           IF x = t THEN tc.t0 ELSE tc.timers0[x].next
<1>1. /\ tc.timers0 \in [Timers -> TimerRecord] /\ tc.t0 \in Timers
      /\ tc.timers0[t].timeout \in 0 .. Wide - 1
      /\ \A x \in Timers : tc.timers0[x].timeout \in Nat
  <2>1. tc.timers0 \in [Timers -> TimerRecord] /\ tc.t0 \in Timers
    BY DEF TimerCtl
  <2>2. QED
    BY <2>1, FieldTypes
<1>2. n \in 0 .. k - 1
  BY <1>1, SlotIs
<1>3. k \in Nat \ {0} /\ w \in [1 .. k -> Timers]
  BY DEF List
<1>4. CASE n = 0
  <2>1. PICK g : g = Pointing(tc.timers0, t, tc.t0)
    OBVIOUS
  <2>2. /\ g \in [Timers -> TimerRecord] /\ SameTimes(tc.timers0, g)
        /\ \A x \in Timers : g[x].next = IF x = t THEN tc.t0 ELSE tc.timers0[x].next
    BY <1>1, <2>1, SetNext
  <2>3. r = [tc EXCEPT !.timers0 = g, !.t0 = t, !.next = g[t].timeout]
    <3>1. r = LinkFirst(tc, t)
      BY <1>4, Zenon DEF Link
    <3>2. g[t].timeout = tc.timers0[t].timeout
      BY <2>2 DEF SameTimes
    <3>3. QED
      BY <2>1, <3>1, <3>2 DEF LinkFirst, TimerCtl, Pointing
  <2>4. g[t].timeout = tc.timers0[t].timeout
    BY <2>2 DEF SameTimes
  <2>5. /\ r \in TimerCtl /\ r.count = tc.count /\ r.timers0 = g /\ r.t0 = t
        /\ r.next = tc.timers0[t].timeout
    BY <1>1, <2>2, <2>3, <2>4 DEF TimerCtl
  <2>6. QED
    BY <1>4, <2>2, <2>5
<1>5. CASE n # 0
  <2>1. Chain(tc)[n - 1] = w[n] /\ Chain(tc)[n] = w[n + 1]
    <3>1. n - 1 \in 0 .. k - 1 /\ n - 1 + 1 = n
      BY <1>2, <1>3, <1>5
    <3>2. QED
      BY <1>2, <3>1, Nodes
  <2>2. w[n] \in Timers /\ w[n + 1] \in Timers
    BY <1>2, <1>3, <1>5
  <2>3. PICK f : f = Pointing(tc.timers0, w[n], t)
    OBVIOUS
  <2>4. /\ f \in [Timers -> TimerRecord] /\ SameTimes(tc.timers0, f)
        /\ \A x \in Timers : f[x].next = IF x = w[n] THEN t ELSE tc.timers0[x].next
    BY <1>1, <2>2, <2>3, SetNext
  <2>5. PICK g : g = Pointing(f, t, w[n + 1])
    OBVIOUS
  <2>6. /\ g \in [Timers -> TimerRecord] /\ SameTimes(f, g)
        /\ \A x \in Timers : g[x].next = IF x = t THEN w[n + 1] ELSE f[x].next
    <3>1. f \in [Timers -> TimerRecord] /\ w[n + 1] \in Timers \cup {NULL}
      BY <2>2, <2>4
    <3>2. QED
      BY <2>5, <3>1, SetNext
  <2>7. r = [tc EXCEPT !.timers0 = g]
    <3>1. r = LinkBetween(tc, w[n], t, w[n + 1])
      BY <1>5, <2>1, Zenon DEF Link
    <3>2. QED
      BY <2>3, <2>5, <3>1 DEF LinkBetween, TimerCtl, Pointing
  <2>8. /\ r \in TimerCtl /\ r.count = tc.count /\ r.timers0 = g /\ r.t0 = tc.t0
        /\ r.next = tc.next
    BY <2>6, <2>7 DEF TimerCtl
  <2>9. SameTimes(tc.timers0, g)
    BY <2>4, <2>6 DEF SameTimes
  <2>10. QED
    BY <1>5, <2>4, <2>6, <2>8, <2>9
<1>6. QED
  BY <1>4, <1>5

\* The timers of w.
On(w, k) == {w[i] : i \in 1 .. k}

\* w with t put in after its first n timers.
Put(w, k, n, t) == [i \in 1 .. k + 1 |-> IF i <= n THEN w[i] ELSE IF i = n + 1 THEN t ELSE w[i - 1]]
IsPut(v, w, k, n, t) ==
    /\ v \in [1 .. k + 1 -> Timers]
    /\ \A i \in 1 .. n : v[i] = w[i]
    /\ v[n + 1] = t
    /\ \A i \in n + 2 .. k + 1 : v[i] = w[i - 1]
    /\ \A i \in 1 .. k + 1 : i \in 1 .. n \/ i = n + 1 \/ i \in n + 2 .. k + 1
    /\ \A i, j \in 1 .. k + 1 : v[i] = v[j] => i = j
    /\ {v[i] : i \in 1 .. k + 1} = {w[i] : i \in 1 .. k} \cup {t}

\* Putting a new timer into a list of different ones.
LEMMA Puts ==
    ASSUME NEW k \in Nat \ {0}, NEW w \in [1 .. k -> Timers], NEW n \in 0 .. k - 1,
           NEW t \in Timers \ {w[i] : i \in 1 .. k}, NEW v, v = Put(w, k, n, t),
           \A i, j \in 1 .. k : w[i] = w[j] => i = j
    PROVE  IsPut(v, w, k, n, t)
<1>1. \A i \in 1 .. k + 1 : i \in 1 .. n \/ i = n + 1 \/ i \in n + 2 .. k + 1
  OBVIOUS
<1>2. \A i \in 1 .. n : i \in 1 .. k /\ i \in 1 .. k + 1 /\ v[i] = w[i]
  BY DEF Put
<1>3. n + 1 \in 1 .. k + 1 /\ v[n + 1] = t
  BY DEF Put
<1>4. \A i \in n + 2 .. k + 1 : i - 1 \in 1 .. k /\ i \in 1 .. k + 1 /\ v[i] = w[i - 1]
  BY DEF Put
<1>5. ASSUME NEW i \in 1 .. k + 1 PROVE v[i] \in Timers
  BY <1>1, <1>2, <1>3, <1>4
<1>6. v \in [1 .. k + 1 -> Timers]
  <2>1. v = [i \in 1 .. k + 1 |-> v[i]]
    BY DEF Put
  <2>2. QED
    BY <1>5, <2>1
<1>7. ASSUME NEW i \in 1 .. k + 1, NEW j \in 1 .. k + 1, v[i] = v[j] PROVE i = j
  <2>1. CASE i = n + 1
    BY <1>1, <1>2, <1>3, <1>4, <1>7, <2>1
  <2>2. CASE j = n + 1
    BY <1>1, <1>2, <1>3, <1>4, <1>7, <2>2
  <2>3. CASE i # n + 1 /\ j # n + 1
    BY <1>1, <1>2, <1>4, <1>7, <2>3
  <2>4. QED
    BY <2>1, <2>2, <2>3
<1>8. ASSUME NEW j \in 1 .. k PROVE \E i \in 1 .. k + 1 : v[i] = w[j]
  <2>1. CASE j <= n
    <3>1. j \in 1 .. n
      BY <2>1
    <3>2. QED
      BY <1>2, <3>1
  <2>2. CASE ~ (j <= n)
    <3>1. j + 1 \in n + 2 .. k + 1 /\ j + 1 - 1 = j
      BY <2>2
    <3>2. QED
      BY <1>4, <3>1
  <2>3. QED
    BY <2>1, <2>2
<1>9. ASSUME NEW i \in 1 .. k + 1 PROVE v[i] \in {w[j] : j \in 1 .. k} \cup {t}
  <2>1. CASE i \in 1 .. n
    BY <1>2, <2>1
  <2>2. CASE i = n + 1
    BY <1>3, <2>2
  <2>3. CASE i \in n + 2 .. k + 1
    BY <1>4, <2>3
  <2>4. QED
    BY <1>1, <2>1, <2>2, <2>3
<1>10. {v[i] : i \in 1 .. k + 1} = {w[i] : i \in 1 .. k} \cup {t}
  BY <1>3, <1>8, <1>9
<1>11. QED
  BY <1>1, <1>2, <1>3, <1>4, <1>6, <1>7, <1>10 DEF IsPut

\* A list stays sound when a timer that is not on it is linked in.
LEMMA LinkKeeps ==
    ASSUME NEW tc, NEW w, NEW k, Sound(tc, w, k),
           NEW t \in Timers \ On(w, k), NEW r, r = Link(tc, t)
    PROVE  /\ r.count = tc.count /\ SameTimes(tc.timers0, r.timers0)
           /\ \E v : Sound(r, v, k + 1) /\ On(v, k + 1) = On(w, k) \cup {t}
<1>1. tc \in TimerCtl /\ List(tc, w, k) /\ Ordered(tc, w, k) /\ tc.next = tc.timers0[tc.t0].timeout
  BY DEF Sound
<1>2. /\ k \in Nat \ {0} /\ w \in [1 .. k -> Timers]
      /\ \A i, j \in 1 .. k : w[i] = w[j] => i = j
      /\ tc.t0 = w[1]
      /\ \A i \in 1 .. k : tc.timers0[w[i]].next = IF i = k THEN NULL ELSE w[i + 1]
  BY <1>1 DEF List
<1>3. /\ tc.timers0 \in [Timers -> TimerRecord]
      /\ tc.timers0[t].timeout \in 0 .. Wide - 1
      /\ \A x \in Timers : tc.timers0[x].timeout \in Nat
  <2>1. tc.timers0 \in [Timers -> TimerRecord]
    BY <1>1 DEF TimerCtl
  <2>2. QED
    BY <2>1, FieldTypes
<1>4. PICK time : time = tc.timers0[t].timeout
  OBVIOUS
<1>5. PICK n : n = Slot(tc, time)
  OBVIOUS
<1>6. /\ n \in 0 .. k - 1
      /\ \A i \in 1 .. n : tc.timers0[w[i]].timeout < time
      /\ tc.timers0[w[n + 1]].timeout >= time
  BY <1>1, <1>3, <1>4, <1>5, SlotIs
<1>7. /\ r \in TimerCtl /\ r.count = tc.count /\ SameTimes(tc.timers0, r.timers0)
      /\ r.t0 = IF n = 0 THEN t ELSE tc.t0
      /\ r.next = IF n = 0 THEN tc.timers0[t].timeout ELSE tc.next
      /\ n # 0 /\ w[n] # t =>
             \A x \in Timers : r.timers0[x].next =
                 IF x = t THEN w[n + 1] ELSE IF x = w[n] THEN t ELSE tc.timers0[x].next
      /\ n = 0 => \A x \in Timers : r.timers0[x].next =
                      IF x = t THEN tc.t0 ELSE tc.timers0[x].next
  BY <1>1, <1>4, <1>5, Links
<1>8. PICK v : v = Put(w, k, n, t)
  OBVIOUS
<1>9. /\ v \in [1 .. k + 1 -> Timers]
      /\ \A i \in 1 .. n : v[i] = w[i]
      /\ v[n + 1] = t
      /\ \A i \in n + 2 .. k + 1 : v[i] = w[i - 1]
      /\ \A i \in 1 .. k + 1 : i \in 1 .. n \/ i = n + 1 \/ i \in n + 2 .. k + 1
      /\ \A i, j \in 1 .. k + 1 : v[i] = v[j] => i = j
      /\ {v[i] : i \in 1 .. k + 1} = {w[i] : i \in 1 .. k} \cup {t}
  <2>1. /\ k \in Nat \ {0} /\ w \in [1 .. k -> Timers] /\ n \in 0 .. k - 1
        /\ \A i, j \in 1 .. k : w[i] = w[j] => i = j
    BY <1>2, <1>6
  <2>2. IsPut(v, w, k, n, t)
    <3>1. t \in Timers \ {w[i] : i \in 1 .. k}
      BY DEF On
    <3>2. QED
      BY <1>8, <2>1, <3>1, Puts, Zenon
  <2>3. QED
    BY <2>2 DEF IsPut
<1>10. \A i \in 1 .. k : w[i] \in Timers /\ w[i] # t
  BY <1>2 DEF On
<1>11. List(r, v, k + 1)
  <2>1. k + 1 \in Nat \ {0}
    BY <1>2
  <2>2. r.t0 = v[1]
    <3>1. CASE n = 0
      BY <1>7, <1>9, <3>1
    <3>2. CASE n # 0
      <4>1. 1 \in 1 .. n
        BY <1>2, <1>6, <3>2
      <4>2. QED
        BY <1>2, <1>7, <1>9, <3>2, <4>1
    <3>3. QED
      BY <3>1, <3>2
  <2>3. ASSUME NEW i \in 1 .. k + 1
        PROVE  r.timers0[v[i]].next = IF i = k + 1 THEN NULL ELSE v[i + 1]
    <3>1. CASE i \in 1 .. n
      <4>1. i \in 1 .. k /\ i # k /\ i # k + 1 /\ n \in 1 .. k /\ n # 0 /\ i \in Nat
        BY <1>2, <1>6, <3>1
      <4>2. v[i] = w[i] /\ w[i] \in Timers /\ w[i] # t /\ w[n] # t
        BY <1>9, <1>10, <3>1, <4>1
      <4>3. r.timers0[w[i]].next = IF w[i] = w[n] THEN t ELSE tc.timers0[w[i]].next
        BY <1>7, <4>1, <4>2
      <4>4. CASE i = n
        BY <1>9, <4>1, <4>2, <4>3, <4>4
      <4>5. CASE i # n
        <5>1. i + 1 \in 1 .. n
          BY <1>6, <3>1, <4>5
        <5>2. v[i + 1] = w[i + 1] /\ w[i] # w[n]
          BY <1>2, <1>9, <4>1, <4>5, <5>1
        <5>3. tc.timers0[w[i]].next = w[i + 1]
          BY <1>2, <4>1
        <5>4. QED
          BY <4>1, <4>2, <4>3, <5>2, <5>3
      <4>6. QED
        BY <4>4, <4>5
    <3>2. CASE i = n + 1
      <4>1. i # k + 1 /\ i + 1 \in n + 2 .. k + 1 /\ i + 1 - 1 = n + 1 /\ v[i] = t
        BY <1>2, <1>6, <1>9, <3>2
      <4>2. v[i + 1] = w[n + 1]
        BY <1>9, <4>1
      <4>3. r.timers0[t].next = w[n + 1]
        <5>1. CASE n = 0
          BY <1>2, <1>7, <5>1
        <5>2. CASE n # 0
          <6>1. n \in 1 .. k
            BY <1>2, <1>6, <5>2
          <6>2. QED
            BY <1>7, <1>10, <5>2, <6>1
        <5>3. QED
          BY <5>1, <5>2
      <4>4. QED
        BY <4>1, <4>2, <4>3
    <3>3. CASE i \in n + 2 .. k + 1
      <4>1. i - 1 \in 1 .. k /\ (i - 1 = k <=> i = k + 1) /\ i - 1 + 1 = i /\ i - 1 # n
        BY <1>2, <1>6, <3>3
      <4>2. v[i] = w[i - 1] /\ w[i - 1] \in Timers /\ w[i - 1] # t
        BY <1>9, <1>10, <3>3, <4>1
      <4>3. r.timers0[w[i - 1]].next = tc.timers0[w[i - 1]].next
        <5>1. CASE n = 0
          BY <1>7, <4>2, <5>1
        <5>2. CASE n # 0
          <6>1. n \in 1 .. k
            BY <1>2, <1>6, <5>2
          <6>2. w[n] # t /\ w[i - 1] # w[n]
            BY <1>2, <1>10, <4>1, <6>1
          <6>3. QED
            BY <1>7, <4>2, <5>2, <6>2
        <5>3. QED
          BY <5>1, <5>2
      <4>4. tc.timers0[w[i - 1]].next = IF i = k + 1 THEN NULL ELSE w[i]
        BY <1>2, <4>1
      <4>5. i # k + 1 => v[i + 1] = w[i]
        <5>1. ASSUME i # k + 1 PROVE i + 1 \in n + 2 .. k + 1 /\ i + 1 - 1 = i
          <6>1. k \in Nat /\ n \in Nat /\ i \in n + 2 .. k + 1
            BY <1>2, <1>6, <3>3
          <6>2. QED
            BY <5>1, <6>1
        <5>2. QED
          BY <1>9, <5>1
      <4>6. QED
        BY <4>2, <4>3, <4>4, <4>5
    <3>4. QED
      BY <1>9, <3>1, <3>2, <3>3
  <2>4. QED
    BY <1>9, <2>1, <2>2, <2>3 DEF List
<1>12. ASSUME NEW x \in Timers PROVE r.timers0[x].timeout = tc.timers0[x].timeout
  BY <1>7 DEF SameTimes
<1>13. Ordered(r, v, k + 1)
  <2>1. v[k + 1] = Sentinel /\ r.timers0[Sentinel].timeout = Wide - 1
    <3>1. k + 1 \in n + 2 .. k + 1 /\ k + 1 - 1 = k
      BY <1>2, <1>6
    <3>2. v[k + 1] = w[k]
      <4>1. PICK i \in n + 2 .. k + 1 : i = k + 1 /\ i - 1 = k
        BY <1>2, <3>1
      <4>2. v[i] = w[i - 1]
        BY <1>9
      <4>3. QED
        BY <4>1, <4>2
    <3>3. w[k] = Sentinel /\ tc.timers0[Sentinel].timeout = Wide - 1
      BY <1>1 DEF Ordered
    <3>4. QED
      BY <1>12, <3>2, <3>3, TimerNumbers
  <2>2. \A i, j \in 1 .. k : i <= j => tc.timers0[w[i]].timeout <= tc.timers0[w[j]].timeout
    BY <1>1 DEF Ordered
  <2>3. \A i \in 1 .. k : tc.timers0[w[i]].timeout \in Nat
    BY <1>3, <1>10
  <2>4. time \in Nat /\ tc.timers0[t].timeout = time
    BY <1>3, <1>4
  <2>5. ASSUME NEW i \in 1 .. k + 1, NEW j \in 1 .. k + 1, i <= j
        PROVE  tc.timers0[v[i]].timeout <= tc.timers0[v[j]].timeout
    <3>1. CASE i \in 1 .. n
      <4>1. i \in 1 .. k /\ v[i] = w[i] /\ tc.timers0[w[i]].timeout < time
        BY <1>2, <1>6, <1>9, <3>1
      <4>2. CASE j \in 1 .. n
        <5>1. j \in 1 .. k /\ v[j] = w[j]
          BY <1>2, <1>6, <1>9, <4>2
        <5>2. QED
          BY <2>2, <2>5, <4>1, <5>1
      <4>3. CASE j = n + 1
        BY <1>9, <2>3, <2>4, <4>1, <4>3
      <4>4. CASE j \in n + 2 .. k + 1
        <5>1. j - 1 \in 1 .. k /\ i <= j - 1 /\ v[j] = w[j - 1]
          BY <1>2, <1>6, <1>9, <3>1, <4>4
        <5>2. QED
          BY <2>2, <4>1, <5>1
      <4>5. QED
        BY <1>9, <4>2, <4>3, <4>4
    <3>2. CASE i = n + 1
      <4>1. v[i] = t /\ n + 1 \in 1 .. k
        BY <1>2, <1>6, <1>9, <3>2
      <4>2. CASE j = n + 1
        BY <2>4, <3>2, <4>2, <4>1
      <4>3. CASE j # n + 1
        <5>1. j \in n + 2 .. k + 1 /\ j - 1 \in 1 .. k /\ n + 1 <= j - 1
          BY <1>2, <1>6, <2>5, <3>2, <4>3
        <5>2. v[j] = w[j - 1]
          BY <1>9, <5>1
        <5>3. tc.timers0[w[n + 1]].timeout <= tc.timers0[w[j - 1]].timeout
          BY <2>2, <4>1, <5>1
        <5>4. QED
          BY <1>6, <2>3, <2>4, <4>1, <5>1, <5>2, <5>3
      <4>4. QED
        BY <4>2, <4>3
    <3>3. CASE i \in n + 2 .. k + 1
      <4>1. i - 1 \in 1 .. k /\ j \in n + 2 .. k + 1 /\ j - 1 \in 1 .. k /\ i - 1 <= j - 1
        BY <1>2, <1>6, <2>5, <3>3
      <4>2. v[i] = w[i - 1] /\ v[j] = w[j - 1]
        BY <1>9, <3>3, <4>1
      <4>3. QED
        BY <2>2, <4>1, <4>2
    <3>4. QED
      BY <1>9, <3>1, <3>2, <3>3
  <2>6. \A i \in 1 .. k + 1 : v[i] \in Timers
    BY <1>9
  <2>7. QED
    BY <1>12, <2>1, <2>5, <2>6 DEF Ordered
<1>14. r.next = r.timers0[r.t0].timeout
  <2>1. tc.t0 \in Timers
    BY <1>1 DEF TimerCtl
  <2>2. QED
    BY <1>1, <1>7, <1>12, <2>1
<1>15. Sound(r, v, k + 1)
  BY <1>7, <1>11, <1>13, <1>14 DEF Sound
<1>16. \E u : Sound(r, u, k + 1) /\ On(u, k + 1) = On(w, k) \cup {t}
  <2>1. On(v, k + 1) = On(w, k) \cup {t}
    BY <1>9 DEF On
  <2>2. QED
    BY <1>15, <2>1, Zenon
<1>17. QED
  BY <1>7, <1>16, Zenon

-----------------------------------------------------------------------------
(* Taking timers off.                                                       *)

\* Some list of tc is sound and has the timers S on it.
Holds(tc, S) ==
    \E k, w : Sound(tc, w, k) /\ S = On(w, k)

\* What inthandler20 makes of the timers f when those of D are due.
Ringing(f, D) ==
    [t \in Timers |-> IF t \in D THEN [f[t] EXCEPT !.flags = TIMER_FLAGS_ALLOC] ELSE f[t]]

\* The fields of the timers after a ring.
LEMMA RingingIs ==
    ASSUME NEW f \in [Timers -> TimerRecord], NEW D, NEW g, g = Ringing(f, D)
    PROVE  /\ g \in [Timers -> TimerRecord]
           /\ \A x \in Timers : /\ g[x].flags = IF x \in D THEN TIMER_FLAGS_ALLOC ELSE f[x].flags
                                /\ g[x].timeout = f[x].timeout
                                /\ g[x].next = f[x].next
<1>1. ASSUME NEW x \in Timers
      PROVE  /\ g[x] \in TimerRecord
             /\ g[x].flags = IF x \in D THEN TIMER_FLAGS_ALLOC ELSE f[x].flags
             /\ g[x].timeout = f[x].timeout
             /\ g[x].next = f[x].next
  <2>1. f[x] \in TimerRecord
    OBVIOUS
  <2>2. g[x] = IF x \in D THEN [f[x] EXCEPT !.flags = TIMER_FLAGS_ALLOC] ELSE f[x]
    BY DEF Ringing
  <2>3. QED
    BY <2>1, <2>2 DEF TimerRecord
<1>2. g = [x \in Timers |-> g[x]]
  BY DEF Ringing
<1>3. QED
  BY <1>1, <1>2

\* The end of a list, from its (m + 1)-st timer.
Rest(w, k, m) == [i \in 1 .. k - m |-> w[m + i]]

\* The timers of tc that D has, each once and in order of time.
InOrder(tc, q, D) ==
    /\ q \in [1 .. Len(q) -> D] /\ D = {q[i] : i \in 1 .. Len(q)} /\ D = ToSet(q)
    /\ \A i, j \in 1 .. Len(q) :
           i < j => q[i] # q[j] /\ tc.timers0[q[i]].timeout <= tc.timers0[q[j]].timeout

\* A list stays sound when inthandler20 has taken the due timers off.
LEMMA TakeOffKeeps ==
    ASSUME NEW tc, NEW S, Holds(tc, S), tc.count < Wide - 1,
           NEW D, D = ToSet(DueTimers(tc)), NEW r, r = TakeOff(tc)
    PROVE  /\ D = {t \in S : tc.timers0[t].timeout <= tc.count} /\ Sentinel \in S \ D
           /\ Holds(r, S \ D) /\ r.count = tc.count
           /\ \A x \in Timers :
                  /\ r.timers0[x].flags = IF x \in D THEN TIMER_FLAGS_ALLOC ELSE tc.timers0[x].flags
                  /\ r.timers0[x].timeout = tc.timers0[x].timeout
           /\ InOrder(tc, DueTimers(tc), D)
<1>1. PICK k, w : Sound(tc, w, k) /\ S = {w[i] : i \in 1 .. k}
  BY DEF Holds, On
<1>2. tc \in TimerCtl /\ List(tc, w, k) /\ Ordered(tc, w, k)
  BY <1>1 DEF Sound
<1>3. /\ k \in Nat \ {0} /\ w \in [1 .. k -> Timers]
      /\ \A i, j \in 1 .. k : w[i] = w[j] => i = j
      /\ \A i \in 1 .. k : tc.timers0[w[i]].next = IF i = k THEN NULL ELSE w[i + 1]
  BY <1>2 DEF List
<1>4. /\ tc.timers0 \in [Timers -> TimerRecord] /\ tc.count \in Nat
      /\ \A x \in Timers : tc.timers0[x].timeout \in Nat
  <2>1. tc.timers0 \in [Timers -> TimerRecord] /\ tc.count \in 0 .. Wide - 1
    BY <1>2 DEF TimerCtl
  <2>2. QED
    BY <2>1, FieldTypes
<1>5. PICK m \in 0 .. k - 1 :
          /\ DueTimers(tc) = [i \in 1 .. m |-> w[i]]
          /\ \A i \in 1 .. m : tc.timers0[w[i]].timeout <= tc.count
          /\ \A i \in m + 1 .. k : tc.timers0[w[i]].timeout > tc.count
  BY <1>2, <1>4, DueIs
<1>6. \A i \in 1 .. k : i \in 1 .. m \/ i \in m + 1 .. k
  BY <1>3, <1>5
<1>7. m \in Nat /\ k - m \in Nat \ {0} /\ \A i \in 1 .. m : i \in 1 .. k
  BY <1>3, <1>5
<1>8. D = {w[i] : i \in 1 .. m}
  BY <1>5 DEF ToSet
<1>9. D = {t \in S : tc.timers0[t].timeout <= tc.count}
  <2>1. ASSUME NEW i \in m + 1 .. k PROVE ~ (tc.timers0[w[i]].timeout <= tc.count)
    <3>1. w[i] \in Timers
      BY <1>3, <1>7
    <3>2. QED
      BY <1>4, <1>5, <3>1
  <2>2. QED
    BY <1>1, <1>5, <1>6, <1>7, <1>8, <2>1
<1>10. S \ D = {w[i] : i \in m + 1 .. k}
  <2>1. ASSUME NEW i \in m + 1 .. k PROVE i \in 1 .. k /\ w[i] \notin D
    <3>1. i \in 1 .. k /\ \A j \in 1 .. m : j # i
      BY <1>3, <1>7
    <3>2. QED
      BY <1>3, <1>7, <1>8, <3>1
  <2>2. QED
    BY <1>1, <1>6, <1>8, <2>1
<1>11. Chain(tc)[Len(DueTimers(tc))] = w[m + 1]
  <2>1. Len(DueTimers(tc)) = m
    BY <1>5, <1>7
  <2>2. QED
    BY <1>2, <1>5, <2>1, Nodes
<1>12. PICK g : g = Ringing(tc.timers0, D)
  OBVIOUS
<1>13. /\ g \in [Timers -> TimerRecord]
       /\ \A x \in Timers : /\ g[x].flags = IF x \in D THEN TIMER_FLAGS_ALLOC ELSE tc.timers0[x].flags
                            /\ g[x].timeout = tc.timers0[x].timeout
                            /\ g[x].next = tc.timers0[x].next
  BY <1>4, <1>12, RingingIs
<1>14. w[m + 1] \in Timers /\ w[m + 1] # NULL
  <2>1. m + 1 \in 1 .. k
    BY <1>3, <1>5
  <2>2. QED
    BY <1>3, <2>1, TimerNumbers
<1>15. r = [tc EXCEPT !.timers0 = g, !.t0 = w[m + 1], !.next = tc.timers0[w[m + 1]].timeout]
  <2>1. PICK first : first = w[m + 1]
    OBVIOUS
  <2>2. r = [tc EXCEPT !.timers0 = Ringing(tc.timers0, D), !.t0 = first,
                       !.next = IF first = NULL THEN 0 ELSE tc.timers0[first].timeout]
    <3>1. PICK due : due = DueTimers(tc)
      OBVIOUS
    <3>2. ToSet(due) = D /\ Chain(tc)[Len(due)] = first
      BY <1>11, <2>1, <3>1
    <3>3. QED
      BY <3>1, <3>2 DEF TakeOff, Ringing
  <2>3. first # NULL
    BY <1>14, <2>1
  <2>4. QED
    BY <1>12, <2>1, <2>2, <2>3
<1>16. /\ r \in TimerCtl /\ r.count = tc.count /\ r.timers0 = g /\ r.t0 = w[m + 1]
       /\ r.next = tc.timers0[w[m + 1]].timeout
  <2>1. tc.timers0[w[m + 1]].timeout \in 0 .. Wide - 1
    BY <1>4, <1>14, FieldTypes
  <2>2. QED
    BY <1>2, <1>13, <1>14, <1>15, <2>1 DEF TimerCtl
<1>17. PICK v : v = Rest(w, k, m)
  OBVIOUS
<1>18. \A i \in 1 .. k - m : m + i \in 1 .. k /\ m + i \in m + 1 .. k /\ v[i] = w[m + i]
  BY <1>3, <1>7, <1>17 DEF Rest
<1>19. v \in [1 .. k - m -> Timers]
  <2>1. v = [i \in 1 .. k - m |-> v[i]]
    BY <1>17 DEF Rest
  <2>2. QED
    BY <1>3, <1>18, <2>1
<1>20. List(r, v, k - m)
  <2>1. ASSUME NEW i \in 1 .. k - m, NEW j \in 1 .. k - m, v[i] = v[j] PROVE i = j
    <3>1. m + i = m + j
      BY <1>3, <1>18, <2>1
    <3>2. QED
      BY <1>7, <3>1
  <2>2. r.t0 = v[1]
    <3>1. 1 \in 1 .. k - m
      BY <1>7
    <3>2. QED
      BY <1>16, <1>18, <3>1
  <2>3. ASSUME NEW i \in 1 .. k - m
        PROVE  r.timers0[v[i]].next = IF i = k - m THEN NULL ELSE v[i + 1]
    <3>1. v[i] = w[m + i] /\ m + i \in 1 .. k /\ w[m + i] \in Timers
      BY <1>3, <1>18
    <3>2. r.timers0[v[i]].next = IF m + i = k THEN NULL ELSE w[m + i + 1]
      BY <1>3, <1>13, <1>16, <3>1
    <3>3. CASE i = k - m
      <4>1. m + i = k
        BY <1>3, <1>7, <3>3
      <4>2. QED
        BY <3>2, <3>3, <4>1
    <3>4. CASE i # k - m
      <4>1. m + i # k /\ i + 1 \in 1 .. k - m
        BY <1>3, <1>7, <3>4
      <4>2. m + (i + 1) = m + i + 1
        BY <1>7
      <4>3. v[i + 1] = w[m + i + 1]
        BY <1>18, <4>1, <4>2
      <4>4. QED
        BY <3>2, <3>4, <4>1, <4>3
    <3>5. QED
      BY <3>3, <3>4
  <2>4. QED
    BY <1>7, <1>19, <2>1, <2>2, <2>3 DEF List
<1>21. Ordered(r, v, k - m)
  <2>1. w[k] = Sentinel /\ tc.timers0[Sentinel].timeout = Wide - 1
    BY <1>2 DEF Ordered
  <2>2. v[k - m] = w[k]
    <3>1. k - m \in 1 .. k - m /\ m + (k - m) = k
      BY <1>3, <1>7
    <3>2. QED
      BY <1>18, <3>1
  <2>3. ASSUME NEW i \in 1 .. k - m, NEW j \in 1 .. k - m, i <= j
        PROVE  r.timers0[v[i]].timeout <= r.timers0[v[j]].timeout
    <3>1. m + i \in 1 .. k /\ m + j \in 1 .. k /\ m + i <= m + j
      BY <1>7, <1>18, <2>3
    <3>2. tc.timers0[w[m + i]].timeout <= tc.timers0[w[m + j]].timeout
      BY <1>2, <3>1 DEF Ordered
    <3>3. w[m + i] \in Timers /\ w[m + j] \in Timers
      BY <1>3, <3>1
    <3>4. QED
      BY <1>13, <1>16, <1>18, <3>2, <3>3
  <2>4. QED
    BY <1>13, <1>16, <2>1, <2>2, <2>3, TimerNumbers DEF Ordered
<1>22. Holds(r, S \ D)
  <2>1. r.next = r.timers0[r.t0].timeout
    BY <1>13, <1>14, <1>16
  <2>2. S \ D = {v[i] : i \in 1 .. k - m}
    <3>1. ASSUME NEW i \in m + 1 .. k PROVE \E j \in 1 .. k - m : v[j] = w[i]
      <4>1. i - m \in 1 .. k - m /\ m + (i - m) = i
        BY <1>3, <1>7
      <4>2. QED
        BY <1>18, <4>1
    <3>2. QED
      BY <1>10, <1>18, <3>1
  <2>3. Sound(r, v, k - m)
    BY <1>16, <1>20, <1>21, <2>1 DEF Sound
  <2>4. PICK q : q = k - m
    OBVIOUS
  <2>5. Sound(r, v, q) /\ S \ D = On(v, q)
    BY <2>2, <2>3, <2>4 DEF On
  <2>6. QED
    BY <2>5, Zenon DEF Holds
<1>23. Sentinel \in S \ D
  <2>1. k \in m + 1 .. k /\ w[k] = Sentinel
    BY <1>2, <1>3, <1>5 DEF Ordered
  <2>2. QED
    BY <1>10, <2>1
<1>24. InOrder(tc, DueTimers(tc), D)
  <2>1. PICK q : q = DueTimers(tc)
    OBVIOUS
  <2>2. Len(q) = m /\ q = [i \in 1 .. m |-> w[i]]
    BY <1>5, <1>7, <2>1
  <2>3. q \in [1 .. Len(q) -> D] /\ D = {q[i] : i \in 1 .. Len(q)}
    BY <1>8, <2>2
  <2>4. ASSUME NEW i \in 1 .. m, NEW j \in 1 .. m, i < j
        PROVE  w[i] # w[j] /\ tc.timers0[w[i]].timeout <= tc.timers0[w[j]].timeout
    <3>1. i \in 1 .. k /\ j \in 1 .. k /\ i <= j /\ i # j
      BY <1>7, <2>4
    <3>2. QED
      BY <1>2, <1>3, <3>1 DEF Ordered
  <2>5. \A i, j \in 1 .. Len(q) :
            i < j => q[i] # q[j] /\ tc.timers0[q[i]].timeout <= tc.timers0[q[j]].timeout
    BY <2>2, <2>4
  <2>6. InOrder(tc, q, D)
    BY <2>1, <2>3, <2>5 DEF InOrder
  <2>7. QED
    BY <2>1, <2>6
<1>25. QED
  BY <1>9, <1>13, <1>16, <1>22, <1>23, <1>24

-----------------------------------------------------------------------------
(* The invariant of the timers.                                             *)

Using(tc) == {t \in Timers : tc.timers0[t].flags = TIMER_FLAGS_USING}

\* LinkKeeps, for the set of the timers on the list.
LEMMA LinkHolds ==
    ASSUME NEW tc, NEW S, Holds(tc, S), NEW t \in Timers \ S, NEW r, r = Link(tc, t)
    PROVE  /\ Holds(r, S \cup {t}) /\ r \in TimerCtl /\ r.count = tc.count
           /\ SameTimes(tc.timers0, r.timers0)
<1>1. PICK k, w : Sound(tc, w, k) /\ S = On(w, k)
  BY DEF Holds
<1>2. /\ r.count = tc.count /\ SameTimes(tc.timers0, r.timers0)
      /\ \E v : Sound(r, v, k + 1) /\ On(v, k + 1) = On(w, k) \cup {t}
  BY <1>1, LinkKeeps
<1>3. PICK v : Sound(r, v, k + 1) /\ On(v, k + 1) = On(w, k) \cup {t}
  BY <1>2
<1>4. PICK q : q = k + 1
  OBVIOUS
<1>5. Sound(r, v, q) /\ S \cup {t} = On(v, q)
  BY <1>1, <1>3, <1>4
<1>6. Holds(r, S \cup {t}) /\ r \in TimerCtl
  BY <1>5, Zenon DEF Holds, Sound
<1>7. QED
  BY <1>2, <1>6

\* The list is the same when only timers that are not on it have changed.
LEMMA StillHolds ==
    ASSUME NEW tc, NEW S, Holds(tc, S), NEW r \in TimerCtl, r.t0 = tc.t0, r.next = tc.next,
           \A x \in S : /\ r.timers0[x].timeout = tc.timers0[x].timeout
                        /\ r.timers0[x].next = tc.timers0[x].next
    PROVE  Holds(r, S) /\ Sentinel \in S
<1>1. PICK k, w : Sound(tc, w, k) /\ S = On(w, k)
  BY DEF Holds
<1>2. List(tc, w, k) /\ Ordered(tc, w, k) /\ tc.next = tc.timers0[tc.t0].timeout
  BY <1>1 DEF Sound
<1>3. /\ k \in Nat \ {0} /\ w \in [1 .. k -> Timers]
      /\ \A i, j \in 1 .. k : w[i] = w[j] => i = j
      /\ tc.t0 = w[1]
      /\ \A i \in 1 .. k : tc.timers0[w[i]].next = IF i = k THEN NULL ELSE w[i + 1]
  BY <1>2 DEF List
<1>4. \A i \in 1 .. k : /\ r.timers0[w[i]].timeout = tc.timers0[w[i]].timeout
                        /\ r.timers0[w[i]].next = tc.timers0[w[i]].next
  BY <1>1 DEF On
<1>5. 1 \in 1 .. k /\ k \in 1 .. k
  BY <1>3
<1>6. List(r, w, k)
  BY <1>3, <1>4 DEF List
<1>7. /\ w[k] = Sentinel /\ tc.timers0[Sentinel].timeout = Wide - 1
      /\ \A i, j \in 1 .. k : i <= j => tc.timers0[w[i]].timeout <= tc.timers0[w[j]].timeout
  BY <1>2 DEF Ordered
<1>8. Ordered(r, w, k)
  BY <1>4, <1>5, <1>7 DEF Ordered
<1>9. Sound(r, w, k)
  BY <1>2, <1>3, <1>4, <1>5, <1>6, <1>8 DEF Sound
<1>10. Holds(r, S)
  BY <1>1, <1>9, Zenon DEF Holds
<1>11. QED
  BY <1>1, <1>5, <1>7, <1>10 DEF On

\* What the operations keep.  The running timers whose setting is complete are
\* the list; the timers that are being set are running and not the scheduler's.
Good(tc, slice, set) ==
    /\ tc \in TimerCtl /\ tc.count <= MaxCount
    /\ slice \in Timers \cup {NULL} /\ slice \notin set /\ slice # Sentinel
    /\ set \subseteq Using(tc)
    /\ Holds(tc, Using(tc) \ set)
    /\ Sentinel \in Using(tc) \ set

TimerInv == Good(timerctl, task_timer, setting) /\ ToSet(fired) \subseteq Timers

\* init_pit leaves a list of the sentinel alone.
LEMMA TimerInvInit == TimerInit => TimerInv
<1> SUFFICES ASSUME TimerInit PROVE TimerInv
  OBVIOUS
<1>1. PICK f : f = [t \in Timers |->
                       IF t = Sentinel
                       THEN [flags |-> TIMER_FLAGS_USING, timeout |-> Wide - 1, next |-> NULL]
                       ELSE [flags |-> 0, timeout |-> 0, next |-> NULL]]
  OBVIOUS
<1>2. timerctl = [count |-> 0, next |-> Wide - 1, t0 |-> Sentinel, timers0 |-> f]
  BY <1>1 DEF TimerInit
<1>3. task_timer = NULL /\ setting = {} /\ fired = << >>
  BY DEF TimerInit
<1>4. f \in [Timers -> TimerRecord]
  <2>1. [flags |-> TIMER_FLAGS_USING, timeout |-> Wide - 1, next |-> NULL] \in TimerRecord
    BY TimerNumbers DEF TimerRecord
  <2>2. [flags |-> 0, timeout |-> 0, next |-> NULL] \in TimerRecord
    BY TimerNumbers DEF TimerRecord
  <2>3. QED
    BY <1>1, <2>1, <2>2
<1>5. timerctl \in TimerCtl
  BY <1>2, <1>4, TimerNumbers DEF TimerCtl
<1>6. ToSet(fired) = {}
  BY <1>3 DEF ToSet
<1>7. /\ \A t \in Timers : f[t].flags = IF t = Sentinel THEN TIMER_FLAGS_USING ELSE 0
      /\ f[Sentinel].timeout = Wide - 1 /\ f[Sentinel].next = NULL
  BY <1>1, TimerNumbers
<1>8. Using(timerctl) = {Sentinel}
  BY <1>2, <1>7, TimerNumbers DEF Using, TIMER_FLAGS_USING
<1>9. PICK w : w = [i \in 1 .. 1 |-> Sentinel]
  OBVIOUS
<1>10. Sound(timerctl, w, 1) /\ {Sentinel} = On(w, 1)
  <2>1. List(timerctl, w, 1)
    BY <1>2, <1>7, <1>9, TimerNumbers DEF List
  <2>2. Ordered(timerctl, w, 1)
    BY <1>2, <1>7, <1>9, TimerNumbers DEF Ordered
  <2>3. QED
    BY <1>2, <1>5, <1>7, <1>9, <2>1, <2>2 DEF Sound, On
<1>11. Holds(timerctl, {Sentinel})
  BY <1>10, Zenon DEF Holds
<1>12. timerctl.count <= MaxCount
  BY <1>2, TimerNumbers
<1>13. QED
  BY <1>3, <1>5, <1>6, <1>8, <1>11, <1>12, TimerNumbers DEF TimerInv, Good

\* What Good says of the timers' fields.
LEMMA GoodFields ==
    ASSUME NEW tc, NEW slice, NEW set, Good(tc, slice, set)
    PROVE  /\ tc \in TimerCtl /\ tc.timers0 \in [Timers -> TimerRecord]
           /\ tc.count \in Nat /\ tc.count <= MaxCount
           /\ set \subseteq Timers /\ Using(tc) \subseteq Timers
           /\ \A x \in Timers : /\ tc.timers0[x].flags \in {0, TIMER_FLAGS_ALLOC, TIMER_FLAGS_USING}
                                /\ tc.timers0[x].timeout \in 0 .. Wide - 1
                                /\ tc.timers0[x].timeout \in Nat
<1>1. tc \in TimerCtl /\ tc.count <= MaxCount /\ set \subseteq Using(tc)
  BY DEF Good
<1>2. tc.timers0 \in [Timers -> TimerRecord] /\ tc.count \in Nat
  BY <1>1 DEF TimerCtl
<1>3. Using(tc) \subseteq Timers
  BY DEF Using
<1>4. QED
  BY <1>1, <1>2, <1>3, FieldTypes

\* The timers f with t's flags set to a, and its timeout to b.
Flagging(f, t, a) == [f EXCEPT ![t].flags = a]
Timing(f, t, a, b) == [f EXCEPT ![t].flags = a, ![t].timeout = b]

\* timer_alloc and timer_free do not touch the list.
LEMMA FlagsGood ==
    ASSUME NEW tc, NEW slice, NEW set, Good(tc, slice, set),
           NEW t \in Timers \ Using(tc), NEW a \in {0, TIMER_FLAGS_ALLOC},
           NEW r, r = [tc EXCEPT !.timers0[t].flags = a]
    PROVE  /\ Good(r, slice, set) /\ Using(r) = Using(tc) /\ r.count = tc.count
           /\ \A x \in Timers : r.timers0[x].timeout = tc.timers0[x].timeout
<1>1. tc \in TimerCtl /\ tc.timers0 \in [Timers -> TimerRecord]
  BY GoodFields
<1>2. PICK f : f = tc.timers0
  OBVIOUS
<1>3. PICK g : g = Flagging(f, t, a)
  OBVIOUS
<1>4. ASSUME NEW x \in Timers
      PROVE  /\ g[x] \in TimerRecord
             /\ g[x].flags = IF x = t THEN a ELSE f[x].flags
             /\ g[x].timeout = f[x].timeout /\ g[x].next = f[x].next
  <2>1. f[x] \in TimerRecord
    BY <1>1, <1>2
  <2>2. g[x] = IF x = t THEN [f[x] EXCEPT !.flags = a] ELSE f[x]
    BY <1>1, <1>2, <1>3 DEF Flagging
  <2>3. QED
    BY <2>1, <2>2 DEF TimerRecord
<1>5. g \in [Timers -> TimerRecord]
  <2>1. g = [x \in Timers |-> g[x]]
    BY <1>1, <1>2, <1>3 DEF Flagging
  <2>2. QED
    BY <1>4, <2>1
<1>6. r = [tc EXCEPT !.timers0 = g]
  BY <1>1, <1>2, <1>3 DEF Flagging, TimerCtl
<1>7. /\ r \in TimerCtl /\ r.timers0 = g /\ r.count = tc.count /\ r.t0 = tc.t0
      /\ r.next = tc.next
  BY <1>1, <1>5, <1>6 DEF TimerCtl
<1>8. Using(r) = Using(tc)
  <2>1. tc.timers0[t].flags # TIMER_FLAGS_USING /\ a # TIMER_FLAGS_USING
    BY DEF Using, TIMER_FLAGS_ALLOC, TIMER_FLAGS_USING
  <2>2. QED
    BY <1>2, <1>4, <1>7, <2>1 DEF Using
<1>9. Holds(tc, Using(tc) \ set)
  BY DEF Good
<1>10. Holds(r, Using(tc) \ set)
  <2>1. PICK S : S = Using(tc) \ set
    OBVIOUS
  <2>2. \A x \in S : /\ r.timers0[x].timeout = tc.timers0[x].timeout
                     /\ r.timers0[x].next = tc.timers0[x].next
    BY <1>2, <1>4, <1>7, <2>1 DEF Using
  <2>3. Holds(tc, S) /\ r \in TimerCtl /\ r.t0 = tc.t0 /\ r.next = tc.next
    BY <1>7, <1>9, <2>1
  <2>4. Holds(r, S)
    BY <2>2, <2>3, StillHolds, ZenonT(30)
  <2>5. QED
    BY <2>1, <2>4
<1>11. Good(r, slice, set)
  BY <1>7, <1>8, <1>10 DEF Good
<1>12. QED
  BY <1>2, <1>4, <1>7, <1>8, <1>11

\* From tc to r, t's time is set to d ticks from now and no other time changes.
SetsTime(tc, r, t, d) ==
    \A x \in Timers : r.timers0[x].timeout =
        IF x = t THEN (d + tc.count) % Wide ELSE tc.timers0[x].timeout

\* The first half of timer_settime does not touch the list.
LEMMA FieldsGood ==
    ASSUME NEW tc, NEW slice, NEW set, Good(tc, slice, set),
           NEW t \in Timers, t \notin Using(tc), t # slice, NEW d \in Nat, NEW r, r = Fields(tc, t, d)
    PROVE  /\ Good(r, slice, set \cup {t}) /\ Using(r) = Using(tc) \cup {t}
           /\ r.count = tc.count /\ SetsTime(tc, r, t, d)
<1>1. tc \in TimerCtl /\ tc.timers0 \in [Timers -> TimerRecord] /\ tc.count \in Nat
  BY GoodFields
<1>2. PICK f : f = tc.timers0
  OBVIOUS
<1>3. PICK b : b = (d + tc.count) % Wide
  OBVIOUS
<1>4. b \in 0 .. Wide - 1
  BY <1>1, <1>3, TimerNumbers
<1>5. PICK g : g = Timing(f, t, TIMER_FLAGS_USING, b)
  OBVIOUS
<1>6. ASSUME NEW x \in Timers
      PROVE  /\ g[x] \in TimerRecord
             /\ g[x].flags = IF x = t THEN TIMER_FLAGS_USING ELSE f[x].flags
             /\ g[x].timeout = IF x = t THEN b ELSE f[x].timeout
             /\ g[x].next = f[x].next
  <2>1. f[x] \in TimerRecord
    BY <1>1, <1>2
  <2>2. g[x] = IF x = t THEN [f[x] EXCEPT !.flags = TIMER_FLAGS_USING, !.timeout = b] ELSE f[x]
    BY <1>1, <1>2, <1>5, <2>1 DEF Timing, TimerRecord
  <2>3. QED
    BY <1>4, <2>1, <2>2 DEF TimerRecord
<1>7. g \in [Timers -> TimerRecord]
  <2>1. g = [x \in Timers |-> g[x]]
    BY <1>1, <1>2, <1>5 DEF Timing
  <2>2. QED
    BY <1>6, <2>1
<1>8. r = [tc EXCEPT !.timers0 = g]
  BY <1>1, <1>2, <1>3, <1>5 DEF Fields, Timing, TimerCtl, TimerRecord
<1>9. /\ r \in TimerCtl /\ r.timers0 = g /\ r.count = tc.count /\ r.t0 = tc.t0
      /\ r.next = tc.next
  BY <1>1, <1>7, <1>8 DEF TimerCtl
<1>10. Using(r) = Using(tc) \cup {t}
  BY <1>2, <1>6, <1>9 DEF Using
<1>11. Holds(tc, Using(tc) \ set) /\ set \subseteq Using(tc)
  BY DEF Good
<1>12. Using(r) \ (set \cup {t}) = Using(tc) \ set
  BY <1>10
<1>13. Holds(r, Using(tc) \ set)
  <2>1. PICK S : S = Using(tc) \ set
    OBVIOUS
  <2>2. \A x \in S : /\ r.timers0[x].timeout = tc.timers0[x].timeout
                     /\ r.timers0[x].next = tc.timers0[x].next
    BY <1>2, <1>6, <1>9, <2>1 DEF Using
  <2>3. Holds(tc, S) /\ r \in TimerCtl /\ r.t0 = tc.t0 /\ r.next = tc.next
    BY <1>9, <1>11, <2>1
  <2>4. Holds(r, S)
    BY <2>2, <2>3, StillHolds, ZenonT(30)
  <2>5. QED
    BY <2>1, <2>4
<1>14. Good(r, slice, set \cup {t})
  BY <1>9, <1>10, <1>12, <1>13 DEF Good
<1>15. QED
  BY <1>2, <1>3, <1>6, <1>9, <1>10, <1>14 DEF SetsTime

\* The second half puts the timer on the list.
LEMMA LinkGood ==
    ASSUME NEW tc, NEW slice, NEW set, Good(tc, slice, set),
           NEW t \in set, NEW r, r = Link(tc, t)
    PROVE  /\ Good(r, slice, set \ {t}) /\ Using(r) = Using(tc) /\ r.count = tc.count
           /\ \A x \in Timers : r.timers0[x].timeout = tc.timers0[x].timeout
<1>1. Holds(tc, Using(tc) \ set) /\ set \subseteq Using(tc) /\ t \in Timers
  BY GoodFields DEF Good
<1>2. PICK S : S = Using(tc) \ set
  OBVIOUS
<1>3. Holds(tc, S) /\ t \in Timers \ S
  BY <1>1, <1>2
<1>4. /\ Holds(r, S \cup {t}) /\ r \in TimerCtl /\ r.count = tc.count
      /\ SameTimes(tc.timers0, r.timers0)
  BY <1>3, LinkHolds
<1>5. \A x \in Timers : /\ r.timers0[x].flags = tc.timers0[x].flags
                        /\ r.timers0[x].timeout = tc.timers0[x].timeout
  BY <1>4 DEF SameTimes
<1>6. Using(r) = Using(tc)
  BY <1>5 DEF Using
<1>7. Using(r) \ (set \ {t}) = S \cup {t}
  BY <1>1, <1>2, <1>6
<1>8. Good(r, slice, set \ {t})
  BY <1>1, <1>4, <1>6, <1>7 DEF Good
<1>9. QED
  BY <1>4, <1>5, <1>6, <1>8

\* Both halves at once, for the scheduler's timer.
LEMMA SettimeGood ==
    ASSUME NEW tc, NEW set, NEW slice, Good(tc, slice, set),
           NEW t \in Timers \ Using(tc), slice \in {NULL, t}, NEW d \in Nat,
           NEW r, r = timer_settime(tc, t, d)
    PROVE  /\ Good(r, t, set) /\ Using(r) = Using(tc) \cup {t} /\ r.count = tc.count
           /\ SetsTime(tc, r, t, d)
<1>1. Good(tc, NULL, set)
  <2>1. NULL \notin set
    BY GoodFields, TimerNumbers
  <2>2. QED
    BY <2>1, TimerNumbers DEF Good
<1>2. t # NULL /\ t \notin set /\ t # Sentinel
  BY TimerNumbers DEF Good
<1>3. PICK q : q = Fields(tc, t, d)
  OBVIOUS
<1>4. /\ Good(q, NULL, set \cup {t}) /\ Using(q) = Using(tc) \cup {t}
      /\ q.count = tc.count
      /\ SetsTime(tc, q, t, d)
  <2>1. Good(tc, NULL, set) /\ t \in Timers \ Using(tc) /\ t # NULL
    BY <1>1, <1>2
  <2>2. t \in Timers /\ t \notin Using(tc)
    BY <2>1
  <2>3. QED
    BY <1>3, <2>1, <2>2, FieldsGood
<1>5. r = Link(q, t)
  BY <1>3 DEF timer_settime
<1>6. PICK s : s = set \cup {t}
  OBVIOUS
<1>7. /\ Good(r, NULL, set) /\ Using(r) = Using(q) /\ r.count = q.count
      /\ \A x \in Timers : r.timers0[x].timeout = q.timers0[x].timeout
  <2>1. Good(q, NULL, s) /\ t \in s /\ s \ {t} = set
    BY <1>2, <1>4, <1>6
  <2>2. /\ Good(r, NULL, s \ {t}) /\ Using(r) = Using(q) /\ r.count = q.count
        /\ \A x \in Timers : r.timers0[x].timeout = q.timers0[x].timeout
    BY <1>5, <2>1, LinkGood
  <2>3. QED
    BY <2>1, <2>2
<1>8. Good(r, t, set)
  BY <1>2, <1>7 DEF Good
<1>9. SetsTime(tc, r, t, d)
  BY <1>4, <1>7 DEF SetsTime
<1>10. QED
  BY <1>4, <1>7, <1>8, <1>9

\* The due timers go off the list and are allocated still.
LEMMA TakeOffGood ==
    ASSUME NEW tc, NEW slice, NEW set, Good(tc, slice, set), tc.count < Wide - 1,
           NEW D, D = ToSet(DueTimers(tc)), NEW r, r = TakeOff(tc)
    PROVE  /\ Good(r, slice, set) /\ Using(r) = Using(tc) \ D /\ r.count = tc.count
           /\ D = {t \in Using(tc) \ set : tc.timers0[t].timeout <= tc.count}
           /\ InOrder(tc, DueTimers(tc), D)
           /\ \A x \in Timers : r.timers0[x].timeout = tc.timers0[x].timeout
<1>1. /\ Holds(tc, Using(tc) \ set) /\ set \subseteq Using(tc)
      /\ tc \in TimerCtl /\ tc.timers0 \in [Timers -> TimerRecord]
  BY GoodFields DEF Good
<1>2. PICK S : S = Using(tc) \ set
  OBVIOUS
<1>3. /\ D = {t \in S : tc.timers0[t].timeout <= tc.count} /\ Sentinel \in S \ D
      /\ Holds(r, S \ D) /\ r.count = tc.count
      /\ \A x \in Timers :
             /\ r.timers0[x].flags =
                    IF x \in D THEN TIMER_FLAGS_ALLOC ELSE tc.timers0[x].flags
             /\ r.timers0[x].timeout = tc.timers0[x].timeout
      /\ InOrder(tc, DueTimers(tc), D)
  BY <1>1, <1>2, TakeOffKeeps
<1>4. Using(r) = Using(tc) \ D
  BY <1>3 DEF Using, TIMER_FLAGS_ALLOC, TIMER_FLAGS_USING
<1>5. Using(r) \ set = S \ D /\ set \subseteq Using(r)
  BY <1>1, <1>2, <1>3, <1>4
<1>6. r \in TimerCtl
  BY <1>3 DEF Holds, Sound
<1>7. Good(r, slice, set)
  BY <1>3, <1>5, <1>6 DEF Good
<1>8. QED
  BY <1>2, <1>3, <1>4, <1>7

\* The count after a tick, before the model's clock stops.
Ticked(tc) == [tc EXCEPT !.count = (@ + 1) % Wide]

\* Counting a tick does not touch the list.
LEMMA TickedGood ==
    ASSUME NEW tc, NEW slice, NEW set, Good(tc, slice, set), tc.count < MaxCount,
           NEW r, r = Ticked(tc)
    PROVE  /\ Good(r, slice, set) /\ Using(r) = Using(tc) /\ r.count = tc.count + 1
           /\ r.timers0 = tc.timers0 /\ r.next = tc.next
<1>1. tc \in TimerCtl /\ tc.count \in Nat /\ Holds(tc, Using(tc) \ set)
  BY GoodFields DEF Good
<1>2. (tc.count + 1) % Wide = tc.count + 1 /\ tc.count + 1 \in 0 .. Wide - 1 /\ tc.count + 1 <= MaxCount
  BY <1>1, TimerNumbers
<1>3. r = [tc EXCEPT !.count = tc.count + 1]
  BY <1>1, <1>2 DEF Ticked, TimerCtl
<1>4. /\ r \in TimerCtl /\ r.count = tc.count + 1 /\ r.timers0 = tc.timers0 /\ r.t0 = tc.t0
      /\ r.next = tc.next
  BY <1>1, <1>2, <1>3 DEF TimerCtl
<1>5. Using(r) = Using(tc)
  BY <1>4 DEF Using
<1>6. Holds(r, Using(tc) \ set)
  <2>1. PICK S : S = Using(tc) \ set
    OBVIOUS
  <2>2. Holds(tc, S)
    BY <1>1, <2>1
  <2>3. Holds(r, S)
    BY <1>4, <2>2, StillHolds
  <2>4. QED
    BY <2>1, <2>3
<1>7. Good(r, slice, set)
  BY <1>2, <1>4, <1>5, <1>6 DEF Good
<1>8. QED
  BY <1>4, <1>5, <1>7

\* timerctl.next is no later than any timer on the list.
LEMMA NextIsEarliest ==
    ASSUME NEW tc, NEW slice, NEW set, Good(tc, slice, set), NEW x \in Using(tc) \ set
    PROVE  tc.next <= tc.timers0[x].timeout
<1>1. PICK k, w : Sound(tc, w, k) /\ Using(tc) \ set = On(w, k)
  BY DEF Good, Holds
<1>2. List(tc, w, k) /\ Ordered(tc, w, k) /\ tc.next = tc.timers0[tc.t0].timeout
  BY <1>1 DEF Sound
<1>3. PICK i \in 1 .. k : x = w[i]
  BY <1>1 DEF On
<1>4. k \in Nat \ {0} /\ tc.t0 = w[1]
  BY <1>2 DEF List
<1>5. 1 \in 1 .. k /\ 1 <= i
  BY <1>4
<1>6. tc.timers0[w[1]].timeout <= tc.timers0[w[i]].timeout
  BY <1>2, <1>5 DEF Ordered
<1>7. QED
  BY <1>2, <1>3, <1>4, <1>6

\* The timers that inthandler20 makes of tc.
AfterTick(tc, slice, d) ==
    IF tc.next > tc.count THEN tc
    ELSE IF slice \in ToSet(DueTimers(tc)) THEN timer_settime(TakeOff(tc), slice, d)
    ELSE TakeOff(tc)

\* inthandler20, from a sound list: the timers that have come ring, and of them
\* only the scheduler's is running again.
LEMMA TickGood ==
    ASSUME NEW tc, NEW slice, NEW set, Good(tc, slice, set), tc.count < Wide - 1,
           NEW d \in Nat, NEW r, r = AfterTick(tc, slice, d),
           NEW q, q = IF tc.next > tc.count THEN << >> ELSE DueTimers(tc)
    PROVE  \E D : /\ D = {t \in Using(tc) \ set : tc.timers0[t].timeout <= tc.count}
                  /\ InOrder(tc, q, D)
                  /\ Good(r, slice, set) /\ r.count = tc.count
                  /\ Using(r) = Using(tc) \ (D \ {slice})
                  /\ \A x \in Timers : r.timers0[x].timeout =
                         IF x \in D /\ x = slice THEN (d + tc.count) % Wide
                         ELSE tc.timers0[x].timeout
<1>1. PICK D : D = {t \in Using(tc) \ set : tc.timers0[t].timeout <= tc.count}
  OBVIOUS
<1>2. tc \in TimerCtl /\ tc.count \in Nat /\ Using(tc) \subseteq Timers
  BY GoodFields
<1>3. CASE tc.next > tc.count
  <2>1. D = {}
    <3>1. tc.next \in Nat
      BY <1>2 DEF TimerCtl
    <3>2. ASSUME NEW x \in Using(tc) \ set PROVE ~ (tc.timers0[x].timeout <= tc.count)
      <4>1. tc.timers0[x].timeout \in Nat /\ tc.next <= tc.timers0[x].timeout
        BY NextIsEarliest, GoodFields
      <4>2. QED
        BY <1>2, <1>3, <3>1, <4>1
    <3>3. QED
      BY <1>1, <3>2
  <2>2. q = << >> /\ r = tc
    BY <1>3 DEF AfterTick
  <2>3. InOrder(tc, q, D)
    <3>1. Len(q) = 0 /\ 1 .. 0 = {} /\ DOMAIN q = {}
      BY <2>2
    <3>2. ToSet(q) = {}
      BY <3>1 DEF ToSet
    <3>3. q \in [1 .. Len(q) -> D]
      <4>1. q \in Seq(D)
        BY <2>2, EmptySeq
      <4>2. QED
        BY <4>1
    <3>4. QED
      BY <2>1, <3>1, <3>2, <3>3 DEF InOrder
  <2>4. Using(r) = Using(tc) \ (D \ {slice})
    BY <2>1, <2>2
  <2>5. \A x \in Timers : r.timers0[x].timeout =
            IF x \in D /\ x = slice THEN (d + tc.count) % Wide ELSE tc.timers0[x].timeout
    BY <2>1, <2>2
  <2>6. QED
    BY <1>1, <2>2, <2>3, <2>4, <2>5, Zenon
<1>4. CASE ~ (tc.next > tc.count)
  <2>1. PICK D2 : D2 = ToSet(DueTimers(tc))
    OBVIOUS
  <2>2. PICK p : p = TakeOff(tc)
    OBVIOUS
  <2>3. /\ Good(p, slice, set) /\ Using(p) = Using(tc) \ D2 /\ p.count = tc.count
        /\ D2 = {t \in Using(tc) \ set : tc.timers0[t].timeout <= tc.count}
        /\ InOrder(tc, DueTimers(tc), D2)
        /\ \A x \in Timers : p.timers0[x].timeout = tc.timers0[x].timeout
    BY <2>1, <2>2, TakeOffGood
  <2>4. D2 = D /\ q = DueTimers(tc)
    BY <1>1, <1>4, <2>3
  <2>5. CASE slice \in D
    <3>1. r = timer_settime(p, slice, d)
      BY <1>4, <2>1, <2>2, <2>4, <2>5, Zenon DEF AfterTick
    <3>2. slice \in Timers \ Using(p)
      BY <1>1, <1>2, <2>3, <2>4, <2>5
    <3>3. /\ Good(r, slice, set) /\ Using(r) = Using(p) \cup {slice} /\ r.count = p.count
          /\ SetsTime(p, r, slice, d)
      BY <2>3, <3>1, <3>2, SettimeGood
    <3>4. Using(r) = Using(tc) \ (D \ {slice})
      BY <1>1, <2>3, <2>4, <2>5, <3>3
    <3>5. \A x \in Timers : r.timers0[x].timeout =
              IF x \in D /\ x = slice THEN (d + tc.count) % Wide ELSE tc.timers0[x].timeout
      BY <2>3, <2>5, <3>3 DEF SetsTime
    <3>6. InOrder(tc, q, D) /\ r.count = tc.count
      BY <2>3, <2>4, <3>3
    <3>7. QED
      BY <1>1, <3>3, <3>4, <3>5, <3>6, Zenon
  <2>6. CASE slice \notin D
    <3>1. r = p
      BY <1>4, <2>1, <2>2, <2>4, <2>6, Zenon DEF AfterTick
    <3>2. Using(r) = Using(tc) \ (D \ {slice})
      BY <2>3, <2>4, <2>6, <3>1
    <3>3. \A x \in Timers : r.timers0[x].timeout =
              IF x \in D /\ x = slice THEN (d + tc.count) % Wide ELSE tc.timers0[x].timeout
      BY <2>3, <2>6, <3>1
    <3>4. InOrder(tc, q, D) /\ r.count = tc.count /\ Good(r, slice, set)
      BY <2>3, <2>4, <3>1
    <3>5. QED
      BY <1>1, <3>2, <3>3, <3>4, Zenon
  <2>7. QED
    BY <2>5, <2>6
<1>5. QED
  BY <1>3, <1>4

-----------------------------------------------------------------------------
(* What each action does.                                                   *)

\* No timer's time or running state has changed, and no time has passed.
Quiet == /\ Using(timerctl') = Using(timerctl) /\ timerctl'.count = timerctl.count
         /\ \A x \in Timers : timerctl'.timers0[x].timeout = timerctl.timers0[x].timeout

GoodNow == Good(timerctl, task_timer, setting)
GoodNext == Good(timerctl', task_timer', setting')

\* timer_alloc finds a timer whose flags are 0, if it finds one.
LEMMA AllocIs ==
    ASSUME NEW tc, NEW t, t = timer_alloc(tc), t # NULL
    PROVE  t \in Timers /\ tc.timers0[t].flags = 0 /\ t \notin Using(tc)
<1>1. PICK unused : unused = {x \in Timers : tc.timers0[x].flags = 0}
  OBVIOUS
<1>2. timer_alloc(tc) = IF unused = {} THEN NULL ELSE Min(unused)
  BY <1>1, Zenon DEF timer_alloc
<1>3. unused # {} /\ t = Min(unused)
  BY <1>2
<1>4. unused \subseteq Nat /\ unused \in SUBSET Int
  BY <1>1, TimerNumbers
<1>5. PICK m \in unused : \A x \in unused : m <= x
  BY <1>3, <1>4, HasLeast
<1>6. Min(unused) = m
  BY <1>4, <1>5, SmallestIs
<1>7. t \in unused
  BY <1>3, <1>5, <1>6
<1>8. t \in Timers /\ tc.timers0[t].flags = 0
  BY <1>1, <1>7
<1>9. QED
  BY <1>8 DEF Using, TIMER_FLAGS_USING

\* timer_alloc is quiet.
LEMMA AllocDoes ==
    ASSUME GoodNow, Alloc
    PROVE  GoodNext /\ Quiet /\ UNCHANGED <<task_timer, setting, fired>>
<1>1. PICK t : t = timer_alloc(timerctl)
  OBVIOUS
<1>2. t # NULL /\ timerctl' = [timerctl EXCEPT !.timers0[t].flags = TIMER_FLAGS_ALLOC]
  BY <1>1 DEF Alloc
<1>3. UNCHANGED <<task_timer, setting, fired>>
  BY DEF Alloc
<1>4. t \in Timers \ Using(timerctl) /\ TIMER_FLAGS_ALLOC \in {0, TIMER_FLAGS_ALLOC}
  BY <1>1, <1>2, AllocIs
<1>5. PICK r : r = [timerctl EXCEPT !.timers0[t].flags = TIMER_FLAGS_ALLOC]
  OBVIOUS
<1>6. /\ Good(r, task_timer, setting) /\ Using(r) = Using(timerctl)
      /\ r.count = timerctl.count
      /\ \A x \in Timers : r.timers0[x].timeout = timerctl.timers0[x].timeout
  BY <1>4, <1>5, FlagsGood DEF GoodNow
<1>7. r = timerctl'
  BY <1>2, <1>5
<1>8. QED
  BY <1>3, <1>6, <1>7 DEF GoodNext, Quiet

\* So is timer_free.
LEMMA FreeDoes ==
    ASSUME GoodNow, NEW t \in Timers, Free(t)
    PROVE  GoodNext /\ Quiet /\ UNCHANGED <<task_timer, setting, fired>>
<1>1. /\ timerctl.timers0[t].flags = TIMER_FLAGS_ALLOC
      /\ timerctl' = [timerctl EXCEPT !.timers0[t].flags = 0]
      /\ UNCHANGED <<task_timer, setting, fired>>
  BY DEF Free
<1>2. t \in Timers \ Using(timerctl)
  BY <1>1 DEF Using, TIMER_FLAGS_ALLOC, TIMER_FLAGS_USING
<1>3. PICK a \in {0, TIMER_FLAGS_ALLOC} : a = 0
  OBVIOUS
<1>4. PICK r : r = [timerctl EXCEPT !.timers0[t].flags = a]
  OBVIOUS
<1>5. /\ Good(r, task_timer, setting) /\ Using(r) = Using(timerctl)
      /\ r.count = timerctl.count
      /\ \A x \in Timers : r.timers0[x].timeout = timerctl.timers0[x].timeout
  BY <1>2, <1>3, <1>4, FlagsGood DEF GoodNow
<1>6. r = timerctl'
  BY <1>1, <1>3, <1>4
<1>7. QED
  BY <1>1, <1>5, <1>6 DEF GoodNext, Quiet

\* The first half of timer_settime gives the timer its time and sets it running.
LEMMA SetFieldsDoes ==
    ASSUME GoodNow, NEW t \in Timers, NEW d \in Delays, SetFields(t, d)
    PROVE  /\ GoodNext /\ t # task_timer /\ t \notin Using(timerctl)
           /\ Using(timerctl') = Using(timerctl) \cup {t}
           /\ timerctl'.count = timerctl.count /\ SetsTime(timerctl, timerctl', t, d)
           /\ setting' = setting \cup {t} /\ UNCHANGED <<task_timer, fired>>
<1>1. /\ timerctl.timers0[t].flags = TIMER_FLAGS_ALLOC /\ t # task_timer
      /\ timerctl' = Fields(timerctl, t, d)
      /\ setting' = setting \cup {t} /\ UNCHANGED <<task_timer, fired>>
  BY DEF SetFields
<1>2. t \notin Using(timerctl)
  BY <1>1 DEF Using, TIMER_FLAGS_ALLOC, TIMER_FLAGS_USING
<1>3. d \in Nat
  BY TimerNumbers
<1>4. PICK r : r = Fields(timerctl, t, d)
  OBVIOUS
<1>5. /\ Good(r, task_timer, setting \cup {t}) /\ Using(r) = Using(timerctl) \cup {t}
      /\ r.count = timerctl.count /\ SetsTime(timerctl, r, t, d)
  BY <1>1, <1>2, <1>3, <1>4, FieldsGood DEF GoodNow
<1>6. QED
  BY <1>1, <1>2, <1>4, <1>5 DEF GoodNext

\* The second half is quiet, and the timer is no longer being set.
LEMMA LinkInDoes ==
    ASSUME GoodNow, NEW t \in Timers, LinkIn(t)
    PROVE  /\ GoodNext /\ Quiet /\ t \in setting /\ setting' = setting \ {t}
           /\ UNCHANGED <<task_timer, fired>>
<1>1. /\ t \in setting /\ timerctl' = Link(timerctl, t) /\ setting' = setting \ {t}
      /\ UNCHANGED <<task_timer, fired>>
  BY DEF LinkIn
<1>2. PICK r : r = Link(timerctl, t)
  OBVIOUS
<1>3. /\ Good(r, task_timer, setting \ {t}) /\ Using(r) = Using(timerctl)
      /\ r.count = timerctl.count
      /\ \A x \in Timers : r.timers0[x].timeout = timerctl.timers0[x].timeout
  BY <1>1, <1>2, LinkGood DEF GoodNow
<1>4. QED
  BY <1>1, <1>2, <1>3 DEF GoodNext, Quiet

\* task_init's timer is new, and runs.
LEMMA StartSlicesDoes ==
    ASSUME GoodNow, NEW d \in Delays, StartSlices(d)
    PROVE  /\ GoodNext /\ task_timer = NULL /\ task_timer' \in Timers \ Using(timerctl)
           /\ Using(timerctl') = Using(timerctl) \cup {task_timer'}
           /\ timerctl'.count = timerctl.count
           /\ SetsTime(timerctl, timerctl', task_timer', d)
           /\ UNCHANGED <<setting, fired>>
<1>1. PICK t : t = timer_alloc(timerctl)
  OBVIOUS
<1>2. /\ task_timer = NULL /\ t # NULL /\ task_timer' = t
      /\ timerctl' = timer_settime(timerctl, t, d) /\ UNCHANGED <<setting, fired>>
  BY <1>1 DEF StartSlices
<1>3. t \in Timers \ Using(timerctl) /\ d \in Nat
  BY <1>1, <1>2, AllocIs, TimerNumbers
<1>4. PICK r : r = timer_settime(timerctl, t, d)
  OBVIOUS
<1>5. /\ Good(r, t, setting) /\ Using(r) = Using(timerctl) \cup {t}
      /\ r.count = timerctl.count /\ SetsTime(timerctl, r, t, d)
  <2>1. Good(timerctl, task_timer, setting) /\ task_timer \in {NULL, t}
    BY <1>2 DEF GoodNow
  <2>2. QED
    BY <1>3, <1>4, <2>1, SettimeGood
<1>6. QED
  BY <1>2, <1>3, <1>4, <1>5 DEF GoodNext

\* The timers that have come by the next tick.
Come == {t \in Using(timerctl) \ setting : timerctl.timers0[t].timeout <= timerctl.count + 1}

\* The clock stays below the sentinel's time, as it does for the first 2^32 - 2
\* ticks: 497 days.
BelowSentinel == MaxCount < Wide - 1

\* The timers that have come ring; only the scheduler's is running again.
LEMMA TickDoes ==
    ASSUME GoodNow, NEW d \in Delays, Tick(d), BelowSentinel
    PROVE  /\ GoodNext /\ InOrder(timerctl, fired', Come)
           /\ Using(timerctl') = Using(timerctl) \ (Come \ {task_timer})
           /\ timerctl.count < MaxCount /\ timerctl'.count = timerctl.count + 1
           /\ \A x \in Timers : timerctl'.timers0[x].timeout =
                  IF x \in Come /\ x = task_timer THEN (d + timerctl'.count) % Wide
                  ELSE timerctl.timers0[x].timeout
           /\ UNCHANGED <<task_timer, setting>>
<1>1. PICK tc : tc = Ticked(timerctl)
  OBVIOUS
<1>2. PICK r : r = AfterTick(tc, task_timer, d)
  OBVIOUS
<1>3. PICK q : q = IF tc.next > tc.count THEN << >> ELSE DueTimers(tc)
  OBVIOUS
<1>4. /\ timerctl.count < MaxCount /\ UNCHANGED <<task_timer, setting>>
      /\ timerctl' = r /\ fired' = q
  BY <1>1, <1>2, <1>3, Zenon DEF Tick, Ticked, AfterTick
<1>5. /\ Good(tc, task_timer, setting) /\ Using(tc) = Using(timerctl)
      /\ tc.count = timerctl.count + 1 /\ tc.timers0 = timerctl.timers0
  BY <1>1, <1>4, TickedGood DEF GoodNow
<1>6. tc.count < Wide - 1 /\ d \in Nat
  <2>1. tc.count <= MaxCount /\ tc.count \in Nat
    BY <1>5, GoodFields
  <2>2. QED
    BY <2>1, TimerNumbers DEF BelowSentinel
<1>7. PICK D : /\ D = {t \in Using(tc) \ setting : tc.timers0[t].timeout <= tc.count}
               /\ InOrder(tc, q, D)
               /\ Good(r, task_timer, setting) /\ r.count = tc.count
               /\ Using(r) = Using(tc) \ (D \ {task_timer})
               /\ \A x \in Timers : r.timers0[x].timeout =
                      IF x \in D /\ x = task_timer THEN (d + tc.count) % Wide
                      ELSE tc.timers0[x].timeout
  BY <1>2, <1>3, <1>5, <1>6, TickGood
<1>8. D = Come
  BY <1>5, <1>7 DEF Come
<1>9. InOrder(timerctl, q, D)
  BY <1>5, <1>7 DEF InOrder
<1>10. GoodNext
  BY <1>4, <1>7 DEF GoodNext
<1>11. timerctl'.count = tc.count /\ Using(timerctl') = Using(tc) \ (D \ {task_timer})
  BY <1>4, <1>7
<1>12. \A x \in Timers : timerctl'.timers0[x].timeout =
           IF x \in D /\ x = task_timer THEN (d + timerctl'.count) % Wide
           ELSE timerctl.timers0[x].timeout
  BY <1>4, <1>5, <1>7
<1>13. QED
  BY <1>4, <1>5, <1>8, <1>9, <1>10, <1>11, <1>12

\* The invariant is inductive.
LEMMA TimerInvNext == BelowSentinel /\ TimerInv /\ [TimerNext]_timer_vars => TimerInv'
<1> SUFFICES ASSUME BelowSentinel, TimerInv, [TimerNext]_timer_vars
             PROVE  GoodNext /\ ToSet(fired') \subseteq Timers
  BY DEF TimerInv, GoodNext
<1>1. GoodNow /\ ToSet(fired) \subseteq Timers
  BY DEF TimerInv, GoodNow
<1>2. CASE Alloc
  BY <1>1, <1>2, AllocDoes
<1>3. ASSUME NEW t \in Timers, Free(t) PROVE GoodNext /\ ToSet(fired') \subseteq Timers
  BY <1>1, <1>3, FreeDoes
<1>4. ASSUME NEW t \in Timers, LinkIn(t) PROVE GoodNext /\ ToSet(fired') \subseteq Timers
  BY <1>1, <1>4, LinkInDoes
<1>5. ASSUME NEW t \in Timers, NEW d \in Delays, SetFields(t, d)
      PROVE  GoodNext /\ ToSet(fired') \subseteq Timers
  BY <1>1, <1>5, SetFieldsDoes
<1>6. ASSUME NEW d \in Delays, StartSlices(d) PROVE GoodNext /\ ToSet(fired') \subseteq Timers
  BY <1>1, <1>6, StartSlicesDoes
<1>7. ASSUME NEW d \in Delays, Tick(d) PROVE GoodNext /\ ToSet(fired') \subseteq Timers
  <2>1. GoodNext /\ InOrder(timerctl, fired', Come)
    BY <1>1, <1>7, TickDoes
  <2>2. ToSet(fired') = Come
    BY <2>1 DEF InOrder
  <2>3. QED
    BY <2>1, <2>2 DEF Come, Using
<1>8. CASE UNCHANGED timer_vars
  BY <1>1, <1>8 DEF GoodNow, GoodNext, timer_vars
<1>9. QED
  BY <1>2, <1>3, <1>4, <1>5, <1>6, <1>7, <1>8 DEF TimerNext

\* In every state of the timers' specification the invariant holds.
LEMMA TimerInvHolds == ASSUME BelowSentinel PROVE TimerSpec => []TimerInv
<1>1. TimerInv /\ [TimerNext]_timer_vars => TimerInv'
  BY TimerInvNext
<1>2. QED
  BY <1>1, TimerInvInit, PTL DEF TimerSpec

\* The list, when the invariant holds.
LEMMA LinkedIs == TimerInv => Linked = Using(timerctl) \ setting
<1> SUFFICES ASSUME TimerInv PROVE Linked = Using(timerctl) \ setting
  OBVIOUS
<1>1. PICK k, w : Sound(timerctl, w, k) /\ Using(timerctl) \ setting = On(w, k)
  BY DEF TimerInv, Good, Holds
<1>2. List(timerctl, w, k)
  BY <1>1 DEF Sound
<1>3. Linked = {w[i] : i \in 1 .. k}
  BY <1>2, WalkMeets
<1>4. QED
  BY <1>1, <1>3 DEF On

\* The invariant is strong enough for the property.
LEMMA ListIsSound == TimerInv => ListSound
<1> SUFFICES ASSUME TimerInv PROVE ListSound
  OBVIOUS
<1>1. PICK k, w : Sound(timerctl, w, k) /\ Using(timerctl) \ setting = On(w, k)
  BY DEF TimerInv, Good, Holds
<1>2. /\ List(timerctl, w, k) /\ Ordered(timerctl, w, k)
      /\ timerctl.next = timerctl.timers0[timerctl.t0].timeout
  BY <1>1 DEF Sound
<1>3. PICK node : node = Chain(timerctl)
  OBVIOUS
<1>4. PICK length : length = Cardinality(Linked)
  OBVIOUS
<1>5. Linked = On(w, k) /\ length = k
  <2>1. Linked = {w[i] : i \in 1 .. k} /\ Cardinality({w[i] : i \in 1 .. k}) = k
    BY <1>2, WalkMeets, ListLength
  <2>2. QED
    BY <1>4, <2>1 DEF On
<1>6. /\ k \in 1 .. MAX_TIMER /\ MAX_TIMER \in Nat
      /\ \A n \in 0 .. k - 1 : n \in 0 .. MAX_TIMER /\ node[n] = w[n + 1] /\ node[n] # NULL
      /\ \A n \in k .. MAX_TIMER : node[n] = NULL
  BY <1>2, <1>3, Nodes, TimerNumbers
<1>7. Linked = {t \in Timers : timerctl.timers0[t].flags = TIMER_FLAGS_USING} \ setting
  BY <1>1, <1>5 DEF Using
<1>8. node[length - 1] = Sentinel /\ node[length] = NULL
  <2>1. k - 1 \in 0 .. k - 1 /\ k - 1 + 1 = k /\ k \in k .. MAX_TIMER
    BY <1>6
  <2>2. node[k - 1] = w[k] /\ node[k] = NULL
    BY <1>6, <2>1
  <2>3. QED
    BY <1>2, <1>5, <2>2 DEF Ordered
<1>9. ASSUME NEW n \in 1 .. length - 1
      PROVE  timerctl.timers0[node[n - 1]].timeout <= timerctl.timers0[node[n]].timeout
  <2>1. /\ n \in 0 .. k - 1 /\ n - 1 \in 0 .. k - 1 /\ n - 1 + 1 = n
        /\ n \in 1 .. k /\ n + 1 \in 1 .. k /\ n <= n + 1
    BY <1>5, <1>6, <1>9
  <2>2. node[n - 1] = w[n] /\ node[n] = w[n + 1]
    BY <1>6, <2>1
  <2>3. timerctl.timers0[w[n]].timeout <= timerctl.timers0[w[n + 1]].timeout
    BY <1>2, <2>1 DEF Ordered
  <2>4. QED
    BY <2>2, <2>3
<1>10. QED
  BY <1>2, <1>3, <1>4, <1>7, <1>8, <1>9, Zenon DEF ListSound

\* The timers keep their types while the clock stays below the sentinel's time
\* (timer.c:81-119: the handler never takes the sentinel itself off).
THEOREM TimerTypesHold == ASSUME BelowSentinel PROVE TimerSpec => []TimerTypeOK
<1>1. TimerInv => TimerTypeOK
  BY DEF TimerInv, Good, TimerTypeOK, TimerCtl, TimerRecord, Using
<1>2. QED
  BY <1>1, TimerInvHolds, PTL

\* For any number of timers and any delays, while the clock stays below the
\* sentinel's time: the running timers whose setting is complete are on the list,
\* each once and in order of time, the sentinel ends it, and timerctl.next is the
\* time of the first (timer.c:49-119).
THEOREM ListStaysSound == ASSUME BelowSentinel PROVE TimerSpec => []ListSound
BY ListIsSound, TimerInvHolds, PTL

-----------------------------------------------------------------------------
(* The refinement of TimerService.                                          *)

\* No time that a caller can ask for is beyond the clock's 32 bits.
NoWrap == \A d \in Delays : MaxCount + d < Wide

TasksTimers == Timers \ {Sentinel}
AskedAt(tc, set) == [t \in TasksTimers |-> IF t \in set THEN tc.timers0[t].timeout ELSE Off]
DueAt(tc, on) == [t \in TasksTimers |-> IF t \in on THEN tc.timers0[t].timeout ELSE Off]

\* The first state is one of TimerService.
LEMMA ServiceInit == TimerInit => Service!Init
<1> SUFFICES ASSUME TimerInit PROVE Service!Init
  OBVIOUS
<1>1. TimerInv
  BY TimerInvInit
<1>2. timerctl.count = 0 /\ task_timer = 0 /\ setting = {} /\ fired = << >>
  BY DEF TimerInit, NULL
<1>3. Linked \subseteq {Sentinel}
  <2>1. \A t \in Timers : t # Sentinel => timerctl.timers0[t].flags = 0
    BY DEF TimerInit
  <2>2. Using(timerctl) \subseteq {Sentinel}
    BY <2>1 DEF Using, TIMER_FLAGS_USING
  <2>3. QED
    BY <1>1, <2>2, LinkedIs
<1>4. QED
  BY <1>2, <1>3 DEF Service!Init

\* The times that are asked for and those in force, in this state and the next.
AskedNow == AskedAt(timerctl, setting)
AskedNext == AskedAt(timerctl', setting')
DueNow == DueAt(timerctl, Using(timerctl) \ setting)
DueNext == DueAt(timerctl', Using(timerctl') \ setting')

\* Steps of TimerService, in terms of these.
LEMMA ServiceSteps ==
    ASSUME Linked = Using(timerctl) \ setting, Linked' = Using(timerctl') \ setting'
    PROVE  /\ UNCHANGED <<task_timer, fired>> /\ timerctl'.count = timerctl.count
              /\ AskedNext = AskedNow /\ DueNext = DueNow
                  => UNCHANGED Service!vars
           /\ \A t \in TasksTimers, d \in Delays :
                  /\ AskedNow[t] = Off /\ DueNow[t] = Off /\ t # task_timer
                  /\ AskedNext = [AskedNow EXCEPT ![t] = timerctl.count + d]
                  /\ DueNext = DueNow /\ timerctl'.count = timerctl.count
                  /\ UNCHANGED <<task_timer, fired>>
                  => Service!Ask(t, d)
           /\ \A t \in TasksTimers :
                  /\ AskedNow[t] # Off /\ DueNext = [DueNow EXCEPT ![t] = AskedNow[t]]
                  /\ AskedNext = [AskedNow EXCEPT ![t] = Off]
                  /\ timerctl'.count = timerctl.count /\ UNCHANGED <<task_timer, fired>>
                  => Service!PutInForce(t)
           /\ \A t \in TasksTimers, d \in Delays :
                  /\ task_timer = 0 /\ AskedNow[t] = Off /\ DueNow[t] = Off /\ task_timer' = t
                  /\ DueNext = [DueNow EXCEPT ![t] = timerctl.count + d]
                  /\ AskedNext = AskedNow /\ timerctl'.count = timerctl.count
                  /\ fired' = fired
                  => Service!StartSlices(t, d)
<1>1. /\ AskedNow = [t \in Timers \ {Sentinel} |->
                        IF t \in setting THEN timerctl.timers0[t].timeout ELSE Off]
      /\ AskedNext = [t \in Timers \ {Sentinel} |->
                         IF t \in setting' THEN timerctl'.timers0[t].timeout ELSE Off]
  BY DEF AskedNow, AskedNext, AskedAt, TasksTimers
<1>2. /\ DueNow = [t \in Timers \ {Sentinel} |->
                      IF t \in Linked THEN timerctl.timers0[t].timeout ELSE Off]
      /\ DueNext = [t \in Timers \ {Sentinel} |->
                       IF t \in Linked' THEN timerctl'.timers0[t].timeout ELSE Off]
  BY DEF DueNow, DueNext, DueAt, TasksTimers
<1>3. QED
  BY <1>1, <1>2 DEF Service!vars, Service!Ask, Service!PutInForce, Service!StartSlices, TasksTimers

\* A tick of TimerService.
LEMMA ServiceTick ==
    ASSUME Linked = Using(timerctl) \ setting, Linked' = Using(timerctl') \ setting',
           NEW d \in Delays, timerctl'.count = timerctl.count + 1,
           Come \subseteq TasksTimers,
           \A t \in TasksTimers : t \in Come <=> DueNow[t] # Off /\ DueNow[t] <= timerctl.count + 1,
           InOrder(timerctl, fired', Come),
           \A t \in Come : DueNow[t] = timerctl.timers0[t].timeout,
           DueNext = [t \in TasksTimers |->
                         IF t \notin Come THEN DueNow[t]
                         ELSE IF t = task_timer THEN timerctl'.count + d ELSE Off],
           AskedNext = AskedNow, UNCHANGED task_timer
    PROVE  Service!Tick(d)
<1>1. /\ AskedNow = [t \in Timers \ {Sentinel} |->
                        IF t \in setting THEN timerctl.timers0[t].timeout ELSE Off]
      /\ AskedNext = [t \in Timers \ {Sentinel} |->
                         IF t \in setting' THEN timerctl'.timers0[t].timeout ELSE Off]
  BY DEF AskedNow, AskedNext, AskedAt, TasksTimers
<1>2. /\ DueNow = [t \in Timers \ {Sentinel} |->
                      IF t \in Linked THEN timerctl.timers0[t].timeout ELSE Off]
      /\ DueNext = [t \in Timers \ {Sentinel} |->
                       IF t \in Linked' THEN timerctl'.timers0[t].timeout ELSE Off]
  BY DEF DueNow, DueNext, DueAt, TasksTimers
<1>3. Service!Come = Come
  <2>1. Service!Come = {t \in TasksTimers : DueNow[t] # Off /\ DueNow[t] <= timerctl.count + 1}
    BY <1>2 DEF Service!Come, TasksTimers
  <2>2. QED
    BY <2>1
<1>4. /\ fired' \in [1 .. Len(fired') -> Come] /\ {fired'[i] : i \in 1 .. Len(fired')} = Come
      /\ \A i, j \in 1 .. Len(fired') :
             i < j => fired'[i] # fired'[j] /\ DueNow[fired'[i]] <= DueNow[fired'[j]]
  BY DEF InOrder
<1>5. DueNext = [t \in Timers \ {Sentinel} |->
                     IF t \notin Service!Come THEN DueNow[t]
                     ELSE IF t = task_timer THEN timerctl'.count + d ELSE Off]
  BY <1>3 DEF TasksTimers
<1>6. DueNext = [t \in Timers \ {Sentinel} |->
                     IF t \notin Service!Come
                     THEN [u \in Timers \ {Sentinel} |->
                              IF u \in Linked THEN timerctl.timers0[u].timeout ELSE Off][t]
                     ELSE IF t = task_timer THEN timerctl'.count + d ELSE Off]
  BY <1>2, <1>5
<1>7. \A i, j \in 1 .. Len(fired') :
          i < j =>
              /\ fired'[i] # fired'[j]
              /\ [t \in Timers \ {Sentinel} |->
                     IF t \in Linked THEN timerctl.timers0[t].timeout ELSE Off][fired'[i]]
                 <= [t \in Timers \ {Sentinel} |->
                       IF t \in Linked THEN timerctl.timers0[t].timeout ELSE Off][fired'[j]]
  BY <1>2, <1>4
<1>8. /\ fired' \in [1 .. Len(fired') -> Service!Come]
      /\ {fired'[i] : i \in 1 .. Len(fired')} = Service!Come
  BY <1>3, <1>4
<1>9. QED
  BY <1>1, <1>2, <1>6, <1>7, <1>8 DEF Service!Tick

\* What AskedNow and the others are for a timer of the tasks.
LEMMA TimesAre ==
    /\ \A t \in TasksTimers :
           /\ AskedNow[t] = IF t \in setting THEN timerctl.timers0[t].timeout ELSE Off
           /\ AskedNext[t] = IF t \in setting' THEN timerctl'.timers0[t].timeout ELSE Off
           /\ DueNow[t] = IF t \in Using(timerctl) \ setting
                          THEN timerctl.timers0[t].timeout ELSE Off
           /\ DueNext[t] = IF t \in Using(timerctl') \ setting'
                           THEN timerctl'.timers0[t].timeout ELSE Off
    /\ AskedNow = [t \in TasksTimers |-> AskedNow[t]]
    /\ AskedNext = [t \in TasksTimers |-> AskedNext[t]]
    /\ DueNow = [t \in TasksTimers |-> DueNow[t]]
    /\ DueNext = [t \in TasksTimers |-> DueNext[t]]
BY DEF AskedNow, AskedNext, DueNow, DueNext, AskedAt, DueAt

\* Every step is one of TimerService or changes nothing of it.
LEMMA ServiceStep ==
    ASSUME BelowSentinel, NoWrap, TimerInv, [TimerNext]_timer_vars,
           Linked = Using(timerctl) \ setting, Linked' = Using(timerctl') \ setting'
    PROVE  [Service!Next]_(Service!vars)
<1>1. GoodNow /\ Good(timerctl, task_timer, setting)
  BY DEF TimerInv, GoodNow
<1>2. /\ timerctl.count \in Nat /\ timerctl.count <= MaxCount
      /\ setting \subseteq Using(timerctl) /\ Using(timerctl) \subseteq Timers
      /\ \A x \in Timers : timerctl.timers0[x].timeout \in Nat
      /\ Sentinel \in Using(timerctl) \ setting
      /\ task_timer \notin setting /\ task_timer # Sentinel
  BY <1>1, GoodFields DEF Good
<1>3. \A x \in Timers : timerctl.timers0[x].timeout # Off
  BY <1>2 DEF Off
<1>4. ASSUME NEW d \in Delays, NEW c \in Nat, c <= MaxCount PROVE (d + c) % Wide = c + d
  <2>1. d \in Nat /\ d + c \in 0 .. Wide - 1 /\ d + c = c + d
    BY <1>4, TimerNumbers DEF NoWrap
  <2>2. QED
    BY <2>1, TimerNumbers
<1>5. Quiet /\ UNCHANGED <<task_timer, setting, fired>> => UNCHANGED Service!vars
  <2>1. SUFFICES ASSUME Quiet, UNCHANGED <<task_timer, setting, fired>>
                 PROVE  AskedNext = AskedNow /\ DueNext = DueNow
    BY ServiceSteps DEF Quiet
  <2>2. ASSUME NEW t \in TasksTimers PROVE AskedNext[t] = AskedNow[t] /\ DueNext[t] = DueNow[t]
    BY <2>1, TimesAre DEF Quiet, TasksTimers
  <2>3. QED
    BY <2>2, TimesAre
<1>6. CASE Alloc
  BY <1>1, <1>5, <1>6, AllocDoes
<1>7. ASSUME NEW t \in Timers, Free(t) PROVE UNCHANGED Service!vars
  BY <1>1, <1>5, <1>7, FreeDoes
<1>8. ASSUME NEW t \in Timers, LinkIn(t) PROVE Service!Next
  <2>1. /\ Quiet /\ t \in setting /\ setting' = setting \ {t} /\ UNCHANGED <<task_timer, fired>>
    BY <1>1, <1>8, LinkInDoes
  <2>2. t \in TasksTimers
    BY <1>2, <2>1 DEF TasksTimers
  <2>3. AskedNow[t] # Off
    BY <1>2, <1>3, <2>1, <2>2, TimesAre
  <2>4. ASSUME NEW x \in TasksTimers
        PROVE  /\ DueNext[x] = IF x = t THEN AskedNow[t] ELSE DueNow[x]
               /\ AskedNext[x] = IF x = t THEN Off ELSE AskedNow[x]
    BY <1>2, <2>1, <2>2, TimesAre DEF Quiet, TasksTimers
  <2>5. DueNext = [DueNow EXCEPT ![t] = AskedNow[t]] /\ AskedNext = [AskedNow EXCEPT ![t] = Off]
    BY <2>2, <2>4, TimesAre
  <2>6. Service!PutInForce(t)
    BY <2>1, <2>2, <2>3, <2>5, ServiceSteps DEF Quiet
  <2>7. QED
    BY <2>2, <2>6 DEF Service!Next, TasksTimers
<1>9. ASSUME NEW t \in Timers, NEW d \in Delays, SetFields(t, d) PROVE Service!Next
  <2>1. /\ t # task_timer /\ t \notin Using(timerctl)
        /\ Using(timerctl') = Using(timerctl) \cup {t}
        /\ timerctl'.count = timerctl.count /\ SetsTime(timerctl, timerctl', t, d)
        /\ setting' = setting \cup {t} /\ UNCHANGED <<task_timer, fired>>
    BY <1>1, <1>9, SetFieldsDoes
  <2>2. t \in TasksTimers
    BY <1>2, <2>1 DEF TasksTimers
  <2>3. AskedNow[t] = Off /\ DueNow[t] = Off
    BY <1>2, <2>1, <2>2, TimesAre
  <2>4. timerctl'.timers0[t].timeout = timerctl.count + d
    BY <1>2, <1>4, <2>1 DEF SetsTime
  <2>5. ASSUME NEW x \in TasksTimers
        PROVE  /\ DueNext[x] = DueNow[x]
               /\ AskedNext[x] = IF x = t THEN timerctl.count + d ELSE AskedNow[x]
    <3>1. x \in Timers /\ (x # t => timerctl'.timers0[x].timeout = timerctl.timers0[x].timeout)
      BY <2>1 DEF SetsTime, TasksTimers
    <3>2. QED
      BY <1>2, <2>1, <2>4, <3>1, TimesAre
  <2>6. DueNext = DueNow /\ AskedNext = [AskedNow EXCEPT ![t] = timerctl.count + d]
    BY <2>2, <2>5, TimesAre
  <2>7. Service!Ask(t, d)
    BY <2>1, <2>2, <2>3, <2>6, ServiceSteps
  <2>8. QED
    BY <2>2, <2>7 DEF Service!Next, TasksTimers
<1>10. ASSUME NEW d \in Delays, StartSlices(d) PROVE Service!Next
  <2>1. PICK t : t = task_timer'
    OBVIOUS
  <2>2. /\ task_timer = NULL /\ t \in Timers \ Using(timerctl)
        /\ Using(timerctl') = Using(timerctl) \cup {t}
        /\ timerctl'.count = timerctl.count /\ SetsTime(timerctl, timerctl', t, d)
        /\ UNCHANGED <<setting, fired>>
    BY <1>1, <1>10, <2>1, StartSlicesDoes
  <2>3. t \in TasksTimers
    BY <1>2, <2>2 DEF TasksTimers
  <2>4. AskedNow[t] = Off /\ DueNow[t] = Off
    BY <1>2, <2>2, <2>3, TimesAre
  <2>5. timerctl'.timers0[t].timeout = timerctl.count + d
    BY <1>2, <1>4, <2>2 DEF SetsTime
  <2>6. ASSUME NEW x \in TasksTimers
        PROVE  /\ AskedNext[x] = AskedNow[x]
               /\ DueNext[x] = IF x = t THEN timerctl.count + d ELSE DueNow[x]
    <3>1. x \in Timers /\ (x # t => timerctl'.timers0[x].timeout = timerctl.timers0[x].timeout)
      BY <2>2 DEF SetsTime, TasksTimers
    <3>2. t \notin setting
      BY <1>2, <2>2
    <3>3. QED
      BY <1>2, <2>2, <2>5, <3>1, <3>2, TimesAre
  <2>7. AskedNext = AskedNow /\ DueNext = [DueNow EXCEPT ![t] = timerctl.count + d]
    BY <2>3, <2>6, TimesAre
  <2>8. Service!StartSlices(t, d)
    BY <2>1, <2>2, <2>3, <2>4, <2>7, ServiceSteps DEF NULL
  <2>9. QED
    BY <2>3, <2>8 DEF Service!Next, TasksTimers
<1>11. ASSUME NEW d \in Delays, Tick(d) PROVE Service!Next
  <2>1. /\ InOrder(timerctl, fired', Come)
        /\ Using(timerctl') = Using(timerctl) \ (Come \ {task_timer})
        /\ timerctl.count < MaxCount /\ timerctl'.count = timerctl.count + 1
        /\ \A x \in Timers : timerctl'.timers0[x].timeout =
               IF x \in Come /\ x = task_timer THEN (d + timerctl'.count) % Wide
               ELSE timerctl.timers0[x].timeout
        /\ UNCHANGED <<task_timer, setting>>
    BY <1>1, <1>11, TickDoes
  <2>2. Come = {t \in Using(timerctl) \ setting :
                    timerctl.timers0[t].timeout <= timerctl.count + 1}
    BY DEF Come
  <2>3. Sentinel \notin Come
    <3>1. timerctl.timers0[Sentinel].timeout = Wide - 1
      <4>1. PICK k, w : Sound(timerctl, w, k)
        BY <1>1 DEF Good, Holds
      <4>2. QED
        BY <4>1 DEF Sound, Ordered
    <3>2. QED
      BY <1>2, <2>1, <2>2, <3>1, TimerNumbers DEF BelowSentinel
  <2>4. Come \subseteq TasksTimers
    BY <1>2, <2>2, <2>3 DEF TasksTimers
  <2>5. \A t \in TasksTimers :
            t \in Come <=> DueNow[t] # Off /\ DueNow[t] <= timerctl.count + 1
    BY <1>2, <1>3, <2>2, TimesAre DEF TasksTimers
  <2>6. \A t \in Come : DueNow[t] = timerctl.timers0[t].timeout
    BY <2>2, <2>4, TimesAre
  <2>7. (d + timerctl'.count) % Wide = timerctl'.count + d
    <3>1. PICK c : c = timerctl'.count
      OBVIOUS
    <3>2. c \in Nat /\ c <= MaxCount
      BY <1>2, <2>1, <3>1, TimerNumbers
    <3>3. QED
      BY <1>4, <3>1, <3>2
  <2>8. ASSUME NEW x \in TasksTimers
        PROVE  /\ AskedNext[x] = AskedNow[x]
               /\ DueNext[x] = IF x \notin Come THEN DueNow[x]
                               ELSE IF x = task_timer THEN timerctl'.count + d ELSE Off
    <3>1. x \in Timers /\ (x \in Come => x \in Using(timerctl) \ setting)
      BY <2>2 DEF TasksTimers
    <3>2. CASE x \notin Come
      <4>1. timerctl'.timers0[x].timeout = timerctl.timers0[x].timeout
        BY <2>1, <3>1, <3>2
      <4>2. x \in Using(timerctl') <=> x \in Using(timerctl)
        BY <2>1, <3>2
      <4>3. QED
        BY <2>1, <3>2, <4>1, <4>2, TimesAre
    <3>3. CASE x \in Come /\ x = task_timer
      <4>1. timerctl'.timers0[x].timeout = timerctl'.count + d
        BY <2>1, <2>7, <3>1, <3>3
      <4>2. x \in Using(timerctl') \ setting' /\ x \notin setting
        BY <2>1, <3>1, <3>3
      <4>3. QED
        BY <2>1, <3>3, <4>1, <4>2, TimesAre
    <3>4. CASE x \in Come /\ x # task_timer
      <4>1. x \notin Using(timerctl') /\ x \notin setting
        BY <2>1, <3>1, <3>4
      <4>2. QED
        BY <2>1, <3>4, <4>1, TimesAre
    <3>5. QED
      BY <3>2, <3>3, <3>4
  <2>9. /\ AskedNext = AskedNow
        /\ DueNext = [x \in TasksTimers |->
                         IF x \notin Come THEN DueNow[x]
                         ELSE IF x = task_timer THEN timerctl'.count + d ELSE Off]
    BY <2>8, TimesAre
  <2>10. Service!Tick(d)
    BY <2>1, <2>4, <2>5, <2>6, <2>9, ServiceTick
  <2>11. QED
    BY <2>10 DEF Service!Next
<1>12. CASE UNCHANGED timer_vars
  <2>1. Quiet /\ UNCHANGED <<task_timer, setting, fired>>
    BY <1>12 DEF timer_vars, Quiet
  <2>2. QED
    BY <1>5, <2>1
<1>13. QED
  BY <1>6, <1>7, <1>8, <1>9, <1>10, <1>11, <1>12 DEF TimerNext

\* timer.c is a timer service, for any number of timers and any delays that fit in
\* its 32 bits: each timer that was set rings once, on the first tick at which its
\* time has come, and those that ring together ring in the order of their times
\* (timer.c:63-119).
THEOREM TimersImplementService ==
    ASSUME BelowSentinel, NoWrap PROVE TimerSpec => Implements
<1>1. TimerInit => Service!Init
  BY ServiceInit
<1>2. TimerInv => Linked = Using(timerctl) \ setting
  BY LinkedIs
<1>3. TimerInv' => Linked' = Using(timerctl') \ setting'
  <2>1. TimerInv' => (Linked = Using(timerctl) \ setting)'
    BY <1>2, PTL
  <2>2. QED
    BY <2>1
<1>4. TimerInv /\ TimerInv' /\ [TimerNext]_timer_vars => [Service!Next]_(Service!vars)
  BY <1>2, <1>3, ServiceStep
<1>5. QED
  BY <1>1, <1>4, TimerInvHolds, PTL DEF TimerSpec, Implements, Service!Spec
=============================================================================
