---------------------------- MODULE KernelProofs ----------------------------
(***************************************************************************)
(* Proofs about Kernel.tla, for FIFOs of any size, any number of tasks and *)
(* levels that hold the three, and any users.                              *)
(*                                                                         *)
(* The inductive invariant IInv has three parts: types, which hold even    *)
(* after a fault; what the scheduler, the wake-ups and task_a's cursor     *)
(* timer keep as long as the machine runs, whatever interrupts task_a's    *)
(* puts; and what more a user keeps who never moves the focus.             *)
(***************************************************************************)
EXTENDS Kernel, SequenceTheorems, FiniteSetTheorems, TLAPS

-----------------------------------------------------------------------------
\* The lemmas about a ring are those of FifoProofs.tla, which are about a ring
\* of any size with any values, whatever that module's parameters are.
F == INSTANCE FifoProofs WITH Size <- 1, Data <- {0}, Owner <- 0,
                              fifo <- fifoC, flags <- 2, got <- -1

\* The indices of a ring agree: its write index is behind the waiting values.
Ring(f) == f.write_buf = Slot(f, fifo32_status(f))

\* FifoProofs.tla's assumptions hold for these parameters.
LEMMA FParameters == 1 \in Nat \ {0} /\ ({0} \subseteq Nat /\ {0} # {}) /\ 0 \in {0, 1}
OBVIOUS

\* FifoProofs.tla means the same functions of fifo.c.
LEMMA SameFifo ==
    /\ \A f, d : F!fifo32_put(f, d) = fifo32_put(f, d)
    /\ \A f : /\ F!fifo32_get(f) = fifo32_get(f)
              /\ F!GetReturns(f) = GetReturns(f)
              /\ F!fifo32_status(f) = fifo32_status(f)
              /\ F!Contents(f) = Contents(f)
              /\ F!Ring(f) <=> Ring(f)
    /\ \A f, i : F!Slot(f, i) = Slot(f, i)
    /\ \A N, D, T : F!FifoType(N, D, T) = FifoType(N, D, T)
    /\ F!FLAGS_OVERRUN = FLAGS_OVERRUN
<1>1. /\ \A i, n : F!Advance(i, n) = Advance(i, n)
      /\ F!FLAGS_OVERRUN = FLAGS_OVERRUN
      /\ \A f : F!fifo32_status(f) = fifo32_status(f)
      /\ \A f, i : F!Slot(f, i) = Slot(f, i)
  BY DEF F!Advance, Advance, F!FLAGS_OVERRUN, FLAGS_OVERRUN,
         F!fifo32_status, fifo32_status, F!Slot, Slot
<1>2. \A f, d : F!fifo32_put(f, d) = fifo32_put(f, d)
  BY <1>1 DEF F!fifo32_put, fifo32_put
<1>3. \A f : F!fifo32_get(f) = fifo32_get(f) /\ F!GetReturns(f) = GetReturns(f)
  BY <1>1 DEF F!fifo32_get, fifo32_get, F!GetReturns, GetReturns
<1>4. \A f : F!Contents(f) = Contents(f)
  BY <1>1 DEF F!Contents, Contents
<1>5. \A f : F!Ring(f) <=> Ring(f)
  BY <1>1 DEF F!Ring, Ring
<1>6. \A N, D, T : F!FifoType(N, D, T) = FifoType(N, D, T)
  BY <1>1 DEF F!FifoType, FifoType
<1>7. QED
  BY <1>1, <1>2, <1>3, <1>4, <1>5, <1>6

\* The waiting values of a well-formed ring are a sequence of values.
LEMMA ContentsType ==
    ASSUME NEW N \in Nat \ {0}, NEW D, NEW T, NEW f \in FifoType(N, D, T)
    PROVE  /\ fifo32_status(f) \in 0 .. N
           /\ Contents(f) \in Seq(D)
           /\ Len(Contents(f)) = fifo32_status(f)
<1>1. f \in F!FifoType(N, D, T)
  BY SameFifo
<1>2. /\ F!fifo32_status(f) \in 0 .. N
      /\ F!Contents(f) \in Seq(D)
      /\ Len(F!Contents(f)) = F!fifo32_status(f)
  BY <1>1, FParameters, F!ContentsType
<1>3. F!fifo32_status(f) = fifo32_status(f) /\ F!Contents(f) = Contents(f)
  BY SameFifo
<1>4. QED
  BY <1>2, <1>3

\* A put: unless the overrun flag is set after it, its value is the last one.
LEMMA PutRing ==
    ASSUME NEW N \in Nat \ {0}, NEW D, NEW T, NEW f \in FifoType(N, D, T), Ring(f), NEW d \in D
    PROVE  LET g == fifo32_put(f, d)
           IN  /\ g \in FifoType(N, D, T) /\ Ring(g)
               /\ f.free = 0 => Contents(g) = Contents(f) /\ g.flags = FLAGS_OVERRUN
               /\ f.free # 0 => Contents(g) = Append(Contents(f), d) /\ g.flags = f.flags
               /\ Contents(g) \in {Contents(f), Append(Contents(f), d)}
               /\ g.flags # FLAGS_OVERRUN =>
                      f.flags # FLAGS_OVERRUN /\ Contents(g) = Append(Contents(f), d)
<1>1. f \in F!FifoType(N, D, T) /\ F!Ring(f)
  BY SameFifo
<1> DEFINE g == F!fifo32_put(f, d)
<1>2. /\ g \in F!FifoType(N, D, T) /\ F!Ring(g)
      /\ f.free = 0 => F!Contents(g) = F!Contents(f) /\ g.flags = F!FLAGS_OVERRUN
      /\ f.free # 0 => F!Contents(g) = Append(F!Contents(f), d) /\ g.flags = f.flags
      /\ F!Contents(g) \in {F!Contents(f), Append(F!Contents(f), d)}
      /\ g.flags # F!FLAGS_OVERRUN =>
             f.flags # F!FLAGS_OVERRUN /\ F!Contents(g) = Append(F!Contents(f), d)
  BY <1>1, FParameters, F!PutRing
<1>3. /\ g = fifo32_put(f, d) /\ F!FLAGS_OVERRUN = FLAGS_OVERRUN
      /\ F!Contents(f) = Contents(f) /\ F!Contents(g) = Contents(g)
      /\ F!Ring(g) <=> Ring(g)
      /\ F!FifoType(N, D, T) = FifoType(N, D, T)
  BY SameFifo
<1> HIDE DEF g
<1>4. QED
  BY <1>2, <1>3

\* A get from a FIFO with values.
LEMMA GetRing ==
    ASSUME NEW N \in Nat \ {0}, NEW D, NEW T, NEW f \in FifoType(N, D, T), Ring(f),
           fifo32_status(f) > 0
    PROVE  LET g == fifo32_get(f)
           IN  /\ g \in FifoType(N, D, T) /\ Ring(g) /\ g.flags = f.flags
               /\ Contents(f) # << >> /\ GetReturns(f) = Head(Contents(f))
               /\ Contents(g) = Tail(Contents(f)) /\ GetReturns(f) \in D
<1>1. f \in F!FifoType(N, D, T) /\ F!Ring(f) /\ F!fifo32_status(f) > 0
  BY SameFifo
<1> DEFINE g == F!fifo32_get(f)
<1>2. /\ g \in F!FifoType(N, D, T) /\ F!Ring(g) /\ g.flags = f.flags
      /\ F!Contents(f) # << >> /\ F!GetReturns(f) = Head(F!Contents(f))
      /\ F!Contents(g) = Tail(F!Contents(f)) /\ F!GetReturns(f) \in D
  BY <1>1, FParameters, F!GetRing
<1>3. /\ g = fifo32_get(f) /\ F!GetReturns(f) = GetReturns(f)
      /\ F!Contents(f) = Contents(f) /\ F!Contents(g) = Contents(g)
      /\ F!Ring(g) <=> Ring(g)
      /\ F!FifoType(N, D, T) = FifoType(N, D, T)
  BY SameFifo
<1> HIDE DEF g
<1>4. QED
  BY <1>2, <1>3
-----------------------------------------------------------------------------

USE KernelSizes, TaskLimits

Last == MAX_TASKLEVELS - 1

-----------------------------------------------------------------------------
(* The scheduler's structure, as the three tasks leave it.                  *)

\* The tasks and the levels they are on.
Tasks(k) ==
    /\ k.tasks0[A].level = LevelA /\ k.tasks0[A].flags \in {1, 2}
    /\ k.tasks0[C].level = LevelC /\ k.tasks0[C].flags \in {1, 2}
    /\ k.tasks0[Idle].level = Last /\ k.tasks0[Idle].flags = 2
    /\ \A t \in Task \ {A, C, Idle} : k.tasks0[t].flags = 0

\* The lists of the levels.  A put of task_a's that a timer interrupt got
\* between may have listed the console more than once.
Lists(k) ==
    /\ \A l \in Level \ {LevelA, LevelC, Last} : k.level[l].running = 0
    /\ k.level[LevelA].running = (IF k.tasks0[A].flags = 2 THEN 1 ELSE 0)
    /\ k.level[LevelA].now = 0 /\ k.level[LevelA].tasks[0] = A
    /\ k.level[Last].running = 1
    /\ k.level[Last].now = 0 /\ k.level[Last].tasks[0] = Idle
    /\ k.level[LevelC].tasks[0] = C
    /\ \A i \in 0 .. k.level[LevelC].running - 1 : k.level[LevelC].tasks[i] = C
    /\ k.level[LevelC].now = 0 \/ k.level[LevelC].now < k.level[LevelC].running
    /\ k.tasks0[C].flags = 2 => k.level[LevelC].running > 0

\* The level that has the processor is the most urgent one with a task, unless
\* a level change has been asked for.
Chosen(k) ==
    /\ k.now_level \in {LevelA, LevelC, Last}
    /\ k.now_level = LevelA => k.tasks0[A].flags = 2
    /\ k.now_level = LevelC => k.level[LevelC].running > 0
    /\ k.level_change = 0 => /\ k.now_level # LevelA => k.tasks0[A].flags = 1
                             /\ k.now_level = Last => k.tasks0[C].flags = 1

Sched(k) == k \in TaskctlType /\ Tasks(k) /\ Lists(k) /\ Chosen(k)

\* The console is listed once if it is to run.
ListedOnce(k) ==
    k.level[LevelC].running = IF k.tasks0[C].flags = 2 THEN 1 ELSE 0

-----------------------------------------------------------------------------
(* The cursor timers.                                                       *)

Absent(s, m) == \A i \in DOMAIN s : s[i] # m
Single(s, m) == \E i \in DOMAIN s : s[i] = m /\ \A j \in DOMAIN s \ {i} : s[j] # m

\* The timer is set, its message waits, or the task has it in hand; if the
\* message has been lost, none of these.
Chain(set, held, f) ==
    \/ set /\ Absent(Contents(f), "cursor") /\ ~held
    \/ ~set /\ Single(Contents(f), "cursor") /\ ~held
    \/ ~set /\ Absent(Contents(f), "cursor") /\ held
    \/ f.flags = FLAGS_OVERRUN /\ ~set /\ Absent(Contents(f), "cursor") /\ ~held

InHand(t) == pc[t] = "handle" /\ hand[t] = "cursor"
Once(t, f) == Chain(t \in armed, InHand(t), f)

-----------------------------------------------------------------------------
(* The inductive invariant.                                                 *)

Places == {"loop", "slept", "handle"}
PutPlaces == {"put_test", "put_load", "put_store", "put_next", "put_index", "put_wrap",
              "put_free", "put_wake", "run_test", "add_load", "add_store", "add_flags",
              "run_change"}
Waking == {"put_wake", "run_test", "add_load", "add_store", "add_flags"}

\* The console's FIFO with the indices where an interrupted put may leave them.
ConsoleFifo == [size : {SizeC}, buf : [0 .. SizeC - 1 -> Messages],
                free : {i \in Int : i <= SizeC}, flags : {0, FLAGS_OVERRUN},
                read_buf : 0 .. SizeC - 1, write_buf : 0 .. SizeC, task : {C}]

Typed ==
    /\ TypeOK
    /\ fifoC \in ConsoleFifo
    /\ fifoC.write_buf = SizeC => pc[A] = "put_wrap" \/ fault # "none"
    /\ pc \in [{A, C} -> Places \cup PutPlaces] /\ pc[C] \in Places
    /\ reg \in [eax : Nat, ecx : 0 .. SizeC - 1]
    /\ pc[A] = "put_index" => reg.eax \in 1 .. SizeC
    /\ key_to \in {0, 1}

\* The count that task_a has loaded is out of date only if a timer interrupt
\* has listed the console since.
BetweenLoadAndStore(k, eax) ==
    \/ k.level[LevelC].running = eax
    \/ k.tasks0[C].flags = 2 /\ k.level[LevelC].running = eax + 1

\* Task_a keeps the processor until it sleeps.
Dispatched ==
    /\ Sched(taskctl)
    /\ task_now(taskctl) = cpu
    /\ pc[A] # "slept" => cpu = A
    /\ pc[A] = "add_store" => BetweenLoadAndStore(taskctl, reg.eax)
    /\ pc[A] = "add_flags" => taskctl.level[LevelC].running > 0

\* Nobody sleeps over a message; only task_a may be about to wake the console.
Rested ==
    /\ taskctl.tasks0[A].flags = 1 => fifo32_status(fifoA) = 0
    /\ taskctl.tasks0[C].flags = 1 => fifo32_status(fifoC) = 0 \/ pc[A] \in Waking

Going == Dispatched /\ Rested /\ Ring(fifoA) /\ Once(A, fifoA)

\* With a user who types into task_a's window task_a passes nothing on.
Typing ==
    /\ fault = "none"
    /\ key_to = 0
    /\ pc[A] \in Places
    /\ pc[A] = "handle" => hand[A] \in {"cursor", "char"}
    /\ \A i \in DOMAIN Contents(fifoA) : Contents(fifoA)[i] \in {"cursor", "char"}
    /\ fifoC \in FifoType(SizeC, Messages, {C}) /\ Ring(fifoC)
    /\ Once(C, fifoC)
    /\ ListedOnce(taskctl)

IInv == Typed /\ (fault = "none" => Going) /\ (TypingOnly => Typing)

-----------------------------------------------------------------------------
(* The operations of mtask.c on that structure.                             *)

\* The numbers of the levels and of the tasks.
LEMMA Numbers ==
    /\ A \in Task /\ C \in Task /\ Idle \in Task /\ A # C /\ A # Idle /\ C # Idle
    /\ LevelA \in Level /\ LevelC \in Level /\ Last \in Level
    /\ LevelA # LevelC /\ LevelA # Last /\ LevelC # Last
    /\ 0 \in 0 .. MAX_TASKS_LV - 1
BY DEF A, C, Idle, LevelA, LevelC, Last, Task, Level

\* The fields of the structure.
LEMMA Fields ==
    ASSUME NEW k \in TaskctlType
    PROVE  /\ k = [now_level |-> k.now_level, level_change |-> k.level_change,
                   level |-> k.level, tasks0 |-> k.tasks0]
           /\ k.now_level \in Level /\ k.level_change \in {0, 1}
           /\ k.level \in [Level -> [running : 0 .. MAX_TASKS_LV, now : 0 .. MAX_TASKS_LV,
                                     tasks : [0 .. MAX_TASKS_LV - 1 -> Task \cup {Garbage}]]]
           /\ k.tasks0 \in [Task -> [flags : {0, 1, 2}, level : Level, priority : Nat]]
BY DEF TaskctlType

\* The smallest of some numbers.
LEMMA SmallestIs ==
    ASSUME NEW S \in SUBSET Int, NEW m \in S, \A x \in S : m <= x
    PROVE  Min(S) = m
<1>1. Min(S) = CHOOSE x \in S : \A y \in S : x <= y
  BY DEF Min
<1>2. \A x \in S : (\A y \in S : x <= y) => x = m
  OBVIOUS
<1>3. QED
  BY <1>1, <1>2

\* task_switchsub takes level 1 if task_a is to run, else level 2 if the
\* console is listed, else idle's.
LEMMA BusiestLevel ==
    ASSUME NEW k \in TaskctlType, Tasks(k), Lists(k)
    PROVE  Busiest(k) = IF k.tasks0[A].flags = 2 THEN LevelA
                        ELSE IF k.level[LevelC].running > 0 THEN LevelC
                        ELSE Last
<1> DEFINE S == {l \in Level : k.level[l].running > 0} \cup {MAX_TASKLEVELS}
<1>0. /\ S \subseteq Int
      /\ \A l \in Level \ {LevelA, LevelC, Last} : ~(k.level[l].running > 0)
      /\ k.level[LevelA].running = (IF k.tasks0[A].flags = 2 THEN 1 ELSE 0)
      /\ k.level[Last].running = 1
      /\ Busiest(k) = Min(S)
  BY DEF Level, Lists, Busiest
<1>1. CASE k.tasks0[A].flags = 2
  <2>1. LevelA \in S
    BY <1>0, <1>1, Numbers
  <2>2. \A x \in S : LevelA <= x
    BY <1>0, Numbers DEF Level, LevelA, LevelC, Last
  <2> HIDE DEF S
  <2>3. QED
    BY <1>0, <1>1, <2>1, <2>2, SmallestIs
<1>2. CASE k.tasks0[A].flags # 2 /\ k.level[LevelC].running > 0
  <2>1. LevelC \in S
    BY <1>0, <1>2, Numbers
  <2>2. \A x \in S : LevelC <= x
    BY <1>0, <1>2, Numbers DEF Level, LevelA, LevelC, Last
  <2> HIDE DEF S
  <2>3. QED
    BY <1>0, <1>2, <2>1, <2>2, SmallestIs
<1>3. CASE k.tasks0[A].flags # 2 /\ ~(k.level[LevelC].running > 0)
  <2>1. Last \in S
    BY <1>0, <1>3, Numbers
  <2>2. \A x \in S : Last <= x
    BY <1>0, <1>3, Numbers DEF Level, LevelA, LevelC, Last
  <2> HIDE DEF S
  <2>3. QED
    BY <1>0, <1>3, <2>1, <2>2, SmallestIs
<1>4. QED
  BY <1>1, <1>2, <1>3

\* So it leaves the structure in order, with no level change to come.
LEMMA SwitchsubProperties ==
    ASSUME NEW k \in TaskctlType, Tasks(k), Lists(k),
           NEW g, g = task_switchsub(k)
    PROVE  /\ Sched(g)
           /\ g.level = k.level /\ g.tasks0 = k.tasks0 /\ g.level_change = 0
           /\ g.now_level = IF k.tasks0[A].flags = 2 THEN LevelA
                            ELSE IF k.level[LevelC].running > 0 THEN LevelC
                            ELSE Last
<1> PICK b : b = Busiest(k)
  OBVIOUS
<1>1. b = IF k.tasks0[A].flags = 2 THEN LevelA
          ELSE IF k.level[LevelC].running > 0 THEN LevelC
          ELSE Last
  BY BusiestLevel
<1>2. g = [k EXCEPT !.now_level = b, !.level_change = 0]
  BY DEF task_switchsub
<1>3. /\ g.level = k.level /\ g.tasks0 = k.tasks0 /\ g.level_change = 0 /\ g.now_level = b
      /\ g \in TaskctlType
  <2>1. b \in Level
    BY <1>1, Numbers
  <2>2. k \in TaskctlType
    OBVIOUS
  <2>3. QED
    BY ONLY <1>2, <2>1, <2>2 DEF TaskctlType
<1>4. Tasks(g) /\ Lists(g)
  BY <1>3 DEF Tasks, Lists
<1>5. Chosen(g)
  BY <1>1, <1>3, Numbers DEF Chosen, Tasks, Lists
<1>6. QED
  BY <1>1, <1>3, <1>4, <1>5 DEF Sched

\* The task at the head of the processor's level.
LEMMA NowIs ==
    ASSUME NEW k, Sched(k)
    PROVE  task_now(k) = IF k.now_level = LevelA THEN A
                         ELSE IF k.now_level = LevelC THEN C ELSE Idle
<1>1. task_now(k) = k.level[k.now_level].tasks[k.level[k.now_level].now]
  BY DEF task_now
<1>2. k.now_level \in {LevelA, LevelC, Last}
  BY DEF Sched, Chosen
<1>3. k.level[LevelC].running \in Nat /\ k.level[LevelC].now \in Nat
  BY Fields, Numbers DEF Sched
<1>4. k.level[LevelC].tasks[k.level[LevelC].now] = C
  BY <1>3 DEF Sched, Lists
<1>5. QED
  BY <1>1, <1>2, <1>4, Numbers DEF Sched, Lists

\* The structure with one level's record and one task's record replaced.
Replace(k, l, h, t, e) == [k EXCEPT !.level = [k.level EXCEPT ![l] = h],
                                    !.tasks0 = [k.tasks0 EXCEPT ![t] = e]]

\* It keeps its type, and all but these two.
LEMMA Replaced ==
    ASSUME NEW k \in TaskctlType, NEW l \in Level, NEW t \in Task,
           NEW h \in [running : 0 .. MAX_TASKS_LV, now : 0 .. MAX_TASKS_LV,
                      tasks : [0 .. MAX_TASKS_LV - 1 -> Task \cup {Garbage}]],
           NEW e \in [flags : {0, 1, 2}, level : Level, priority : Nat],
           NEW g, g = Replace(k, l, h, t, e)
    PROVE  /\ g \in TaskctlType
           /\ g.now_level = k.now_level /\ g.level_change = k.level_change
           /\ g.level[l] = h /\ \A m \in Level \ {l} : g.level[m] = k.level[m]
           /\ g.tasks0[t] = e /\ \A u \in Task \ {t} : g.tasks0[u] = k.tasks0[u]
<1>1. /\ [k.level EXCEPT ![l] = h]
            \in [Level -> [running : 0 .. MAX_TASKS_LV, now : 0 .. MAX_TASKS_LV,
                           tasks : [0 .. MAX_TASKS_LV - 1 -> Task \cup {Garbage}]]]
      /\ [k.tasks0 EXCEPT ![t] = e]
            \in [Task -> [flags : {0, 1, 2}, level : Level, priority : Nat]]
  BY Fields
<1>2. /\ g.level = [k.level EXCEPT ![l] = h] /\ g.tasks0 = [k.tasks0 EXCEPT ![t] = e]
      /\ g.now_level = k.now_level /\ g.level_change = k.level_change
      /\ g \in TaskctlType
  BY <1>1 DEF TaskctlType, Replace
<1>3. DOMAIN k.level = Level /\ DOMAIN k.tasks0 = Task
  BY Fields
<1>4. QED
  BY <1>2, <1>3

\* task_remove of a task that is to run.
LEMMA RemoveProperties ==
    ASSUME NEW k \in TaskctlType, Tasks(k), Lists(k),
           NEW t \in {A, C}, k.tasks0[t].flags = 2,
           NEW g, g = task_remove(k, t)
    PROVE  /\ g \in TaskctlType /\ Tasks(g) /\ Lists(g)
           /\ g.tasks0[t].flags = 1
           /\ \A u \in Task \ {t} : g.tasks0[u] = k.tasks0[u]
           /\ g.level[LevelC].running = IF t = C THEN k.level[LevelC].running - 1
                                        ELSE k.level[LevelC].running
<1> PICK l : l = k.tasks0[t].level
  OBVIOUS
<1>1. /\ l = (IF t = A THEN LevelA ELSE LevelC) /\ l \in Level /\ t \in Task
  BY Numbers DEF Tasks
<1> PICK tl : tl = k.level[l]
  OBVIOUS
<1>2. /\ tl \in [running : 0 .. MAX_TASKS_LV, now : 0 .. MAX_TASKS_LV,
                 tasks : [0 .. MAX_TASKS_LV - 1 -> Task \cup {Garbage}]]
  BY <1>1, Fields
<1>3. /\ tl.running \in 1 .. MAX_TASKS_LV /\ tl.now \in Nat /\ tl.tasks[0] = t
      /\ tl.now = 0 \/ tl.now < tl.running
  BY <1>1, <1>2, Numbers DEF Lists
<1>4. Index(tl, t) = 0
  <2> DEFINE S == {i \in 0 .. tl.running - 1 : tl.tasks[i] = t} \cup {tl.running}
  <2>1. S \subseteq Int /\ 0 \in S /\ \A x \in S : 0 <= x
    BY <1>3
  <2>2. Index(tl, t) = Min(S)
    BY DEF Index
  <2> HIDE DEF S
  <2>3. QED
    BY <2>1, <2>2, SmallestIs
<1> PICK n : n = InRange(Before(0, tl.now), tl.running - 1)
  OBVIOUS
<1>5. /\ n \in 0 .. MAX_TASKS_LV
      /\ n = 0 \/ n < tl.running - 1
      /\ tl.now = 0 => n = 0
  BY ONLY <1>3, n = InRange(Before(0, tl.now), tl.running - 1), TaskLimits DEF InRange, Before
<1> PICK h : h = [running |-> tl.running - 1, now |-> n, tasks |-> tl.tasks]
  OBVIOUS
<1>6. Without(tl, t) = h
  <2>1. Without(tl, t) = [tl EXCEPT !.running = tl.running - 1, !.now = n]
    BY <1>4 DEF Without
  <2>2. tl = [running |-> tl.running, now |-> tl.now, tasks |-> tl.tasks]
    BY <1>2
  <2>3. QED
    BY <2>1, <2>2
<1>7. /\ h.running = tl.running - 1 /\ h.now = n /\ h.tasks = tl.tasks
      /\ h \in [running : 0 .. MAX_TASKS_LV, now : 0 .. MAX_TASKS_LV,
                tasks : [0 .. MAX_TASKS_LV - 1 -> Task \cup {Garbage}]]
  <2>1. /\ tl.tasks \in [0 .. MAX_TASKS_LV - 1 -> Task \cup {Garbage}]
        /\ tl.running - 1 \in 0 .. MAX_TASKS_LV
    BY ONLY <1>2, <1>3, TaskLimits
  <2>2. QED
    BY <1>5, <2>1
<1> PICK s : s = k.tasks0[t]
  OBVIOUS
<1> PICK e : e = [flags |-> 1, level |-> s.level, priority |-> s.priority]
  OBVIOUS
<1>8. /\ e \in [flags : {0, 1, 2}, level : Level, priority : Nat]
      /\ e.flags = 1 /\ e.level = k.tasks0[t].level
      /\ e = [s EXCEPT !.flags = 1]
  <2>1. s \in [flags : {0, 1, 2}, level : Level, priority : Nat]
    BY <1>1, Fields
  <2>2. QED
    BY <2>1
<1>9. g = Replace(k, l, h, t, e)
  <2>1. g = [k EXCEPT !.level[l] = Without(tl, t), !.tasks0[t].flags = 1]
    BY DEF task_remove
  <2>2. g = [k EXCEPT !.level = [k.level EXCEPT ![l] = h],
                      !.tasks0 = [k.tasks0 EXCEPT ![t] = [s EXCEPT !.flags = 1]]]
    BY <1>6, <2>1
  <2>3. QED
    BY <1>8, <2>2 DEF Replace
<1>11. /\ g \in TaskctlType
       /\ g.now_level = k.now_level /\ g.level_change = k.level_change
       /\ g.level[l] = h /\ \A m \in Level \ {l} : g.level[m] = k.level[m]
       /\ g.tasks0[t] = e /\ \A u \in Task \ {t} : g.tasks0[u] = k.tasks0[u]
  <2>1. /\ h \in [running : 0 .. MAX_TASKS_LV, now : 0 .. MAX_TASKS_LV,
                  tasks : [0 .. MAX_TASKS_LV - 1 -> Task \cup {Garbage}]]
        /\ e \in [flags : {0, 1, 2}, level : Level, priority : Nat]
        /\ k \in TaskctlType /\ l \in Level /\ t \in Task
    BY <1>1, <1>7, <1>8
  <2>2. QED
    BY ONLY <1>9, <2>1, Replaced
<1>12. Tasks(g)
  BY <1>1, <1>8, <1>11, Numbers DEF Tasks
<1>13. Lists(g)
  <2>1. \A i \in 0 .. h.running - 1 : h.tasks[i] = k.level[l].tasks[i] /\ i \in 0 .. tl.running - 1
    BY ONLY <1>3, <1>7, tl = k.level[l], TaskLimits
  <2>5. \A m \in Level \ {LevelA, LevelC, Last} : g.level[m].running = 0
    BY <1>1, <1>11, Numbers DEF Lists
  <2>6. g.level[Last] = k.level[Last]
    BY <1>1, <1>11, Numbers
  <2>2. CASE t = A
    <3>1. l = LevelA /\ h.running = 0 /\ h.now = 0 /\ h.tasks[0] = A
      BY <1>1, <1>3, <1>5, <1>7, <2>2, Numbers DEF Lists
    <3>2. g.level[LevelC] = k.level[LevelC] /\ g.tasks0[C] = k.tasks0[C]
      BY <1>11, <2>2, <3>1, Numbers
    <3>4. /\ g.level[LevelA] = h /\ g.tasks0[A].flags = 1
      BY <1>8, <1>11, <2>2, <3>1
    <3>3. QED
      BY ONLY Lists(k), <2>5, <2>6, <3>1, <3>2, <3>4 DEF Lists
  <2>3. CASE t = C
    <3>1. /\ l = LevelC /\ h.tasks[0] = C
          /\ h.now = 0 \/ h.now < h.running
      BY <1>1, <1>3, <1>5, <1>7, <2>3, Numbers
    <3>2. \A i \in 0 .. h.running - 1 : h.tasks[i] = C
      BY <1>1, <2>1, <2>3, Numbers DEF Lists
    <3>3. g.level[LevelA] = k.level[LevelA] /\ g.tasks0[A] = k.tasks0[A]
      BY <1>1, <1>11, <2>3, Numbers
    <3>4. /\ g.level[LevelC] = h /\ g.tasks0[C].flags = 1
      BY <1>8, <1>11, <2>3, <3>1
    <3>5. QED
      BY ONLY Lists(k), <2>5, <2>6, <3>1, <3>2, <3>3, <3>4 DEF Lists
  <2>4. QED
    BY <2>2, <2>3
<1>14. QED
  BY <1>1, <1>7, <1>8, <1>11, <1>12, <1>13, Numbers

\* task_add of a task that sleeps, if the list of its level has an entry left.
LEMMA AddProperties ==
    ASSUME NEW k, Sched(k), NEW t \in {A, C}, k.tasks0[t].flags # 2, ~ListFull(k, t),
           NEW g, g = task_add(k, t)
    PROVE  /\ g \in TaskctlType /\ Tasks(g) /\ Lists(g)
           /\ g.tasks0[t].flags = 2
           /\ \A u \in Task \ {t} : g.tasks0[u] = k.tasks0[u]
           /\ g.now_level = k.now_level
           /\ g.level[LevelC].running = IF t = C THEN k.level[LevelC].running + 1
                                        ELSE k.level[LevelC].running
<1>0. k \in TaskctlType /\ Tasks(k) /\ Lists(k)
  BY DEF Sched
<1> PICK l : l = k.tasks0[t].level
  OBVIOUS
<1>1. /\ l = (IF t = A THEN LevelA ELSE LevelC) /\ l \in Level /\ t \in Task
  BY <1>0, Numbers DEF Tasks
<1> PICK tl : tl = k.level[l]
  OBVIOUS
<1> PICK r : r = tl.running
  OBVIOUS
<1>2. /\ tl \in [running : 0 .. MAX_TASKS_LV, now : 0 .. MAX_TASKS_LV,
                 tasks : [0 .. MAX_TASKS_LV - 1 -> Task \cup {Garbage}]]
  BY <1>0, <1>1, Fields
<1>3. /\ r \in 0 .. MAX_TASKS_LV - 1 /\ tl.tasks[0] = t
      /\ \A i \in 0 .. r - 1 : tl.tasks[i] = t
      /\ tl.now = 0 \/ tl.now < r
  <2>1. r # MAX_TASKS_LV /\ r \in 0 .. MAX_TASKS_LV
    BY <1>2 DEF ListFull
  <2>2. t = A => r = 0
    BY <1>0, <1>1 DEF Lists
  <2>3. QED
    BY <1>0, <1>1, <2>1, <2>2, Numbers DEF Lists
<1> PICK b : b = [tl.tasks EXCEPT ![r] = t]
  OBVIOUS
<1>4. /\ b \in [0 .. MAX_TASKS_LV - 1 -> Task \cup {Garbage}]
      /\ b[0] = t /\ \A i \in 0 .. r : b[i] = t
  <2>1. tl.tasks \in [0 .. MAX_TASKS_LV - 1 -> Task \cup {Garbage}]
    BY <1>2
  <2>2. b \in [0 .. MAX_TASKS_LV - 1 -> Task \cup {Garbage}]
    BY ONLY <1>1, <1>3, <2>1, b = [tl.tasks EXCEPT ![r] = t]
  <2>3. ASSUME NEW i \in 0 .. r PROVE b[i] = t
    <3>1. i \in 0 .. MAX_TASKS_LV - 1 /\ (i # r => i \in 0 .. r - 1)
      BY ONLY <1>3, <2>3, TaskLimits
    <3>2. b[i] = IF i = r THEN t ELSE tl.tasks[i]
      BY ONLY <2>1, <3>1, b = [tl.tasks EXCEPT ![r] = t]
    <3>3. QED
      BY ONLY <1>3, <3>1, <3>2
  <2>4. 0 \in 0 .. r
    BY ONLY <1>3
  <2>5. QED
    BY ONLY <2>2, <2>3, <2>4
<1> PICK h : h = [running |-> r + 1, now |-> tl.now, tasks |-> b]
  OBVIOUS
<1>5. /\ h \in [running : 0 .. MAX_TASKS_LV, now : 0 .. MAX_TASKS_LV,
                tasks : [0 .. MAX_TASKS_LV - 1 -> Task \cup {Garbage}]]
      /\ h.running = r + 1 /\ h.now = tl.now /\ h.tasks = b
      /\ With(tl, t) = h
  <2>1. tl.now \in 0 .. MAX_TASKS_LV
    BY <1>2
  <2>2. r + 1 \in 0 .. MAX_TASKS_LV
    BY ONLY <1>3, TaskLimits
  <2>3. tl = [running |-> tl.running, now |-> tl.now, tasks |-> tl.tasks]
    BY <1>2
  <2>4. With(tl, t) = [tl EXCEPT !.tasks = b, !.running = r + 1]
    BY <2>3 DEF With
  <2>5. QED
    BY ONLY <1>4, <2>1, <2>2, <2>3, <2>4, h = [running |-> r + 1, now |-> tl.now, tasks |-> b]
<1> PICK s : s = k.tasks0[t]
  OBVIOUS
<1> PICK e : e = [flags |-> 2, level |-> s.level, priority |-> s.priority]
  OBVIOUS
<1>6. /\ e \in [flags : {0, 1, 2}, level : Level, priority : Nat]
      /\ e.flags = 2 /\ e.level = k.tasks0[t].level
      /\ e = [s EXCEPT !.flags = 2]
  <2>1. s \in [flags : {0, 1, 2}, level : Level, priority : Nat]
    BY <1>0, <1>1, Fields
  <2>2. QED
    BY ONLY <2>1, s = k.tasks0[t], e = [flags |-> 2, level |-> s.level, priority |-> s.priority]
<1>7. g = Replace(k, l, h, t, e)
  <2>1. g = [k EXCEPT !.level[l] = With(tl, t), !.tasks0[t].flags = 2]
    BY DEF task_add
  <2>2. g = [k EXCEPT !.level = [k.level EXCEPT ![l] = h],
                      !.tasks0 = [k.tasks0 EXCEPT ![t] = [s EXCEPT !.flags = 2]]]
    BY <1>5, <2>1
  <2>3. QED
    BY <1>6, <2>2 DEF Replace
<1>8. /\ g \in TaskctlType
      /\ g.now_level = k.now_level
      /\ g.level[l] = h /\ \A m \in Level \ {l} : g.level[m] = k.level[m]
      /\ g.tasks0[t] = e /\ \A u \in Task \ {t} : g.tasks0[u] = k.tasks0[u]
  <2>1. /\ h \in [running : 0 .. MAX_TASKS_LV, now : 0 .. MAX_TASKS_LV,
                  tasks : [0 .. MAX_TASKS_LV - 1 -> Task \cup {Garbage}]]
        /\ e \in [flags : {0, 1, 2}, level : Level, priority : Nat]
        /\ k \in TaskctlType /\ l \in Level /\ t \in Task
    BY <1>0, <1>1, <1>5, <1>6
  <2>2. QED
    BY ONLY <1>7, <2>1, Replaced
<1>9. Tasks(g)
  BY <1>0, <1>1, <1>6, <1>8, Numbers DEF Tasks
<1>10. Lists(g)
  <2>1. \A m \in Level \ {LevelA, LevelC, Last} : g.level[m].running = 0
    BY <1>0, <1>1, <1>8, Numbers DEF Lists
  <2>2. g.level[Last] = k.level[Last]
    BY <1>1, <1>8, Numbers
  <2>3. CASE t = A
    <3>1. l = LevelA /\ h.running = 1 /\ h.now = 0 /\ h.tasks[0] = A
      BY <1>0, <1>1, <1>3, <1>4, <1>5, <2>3, Numbers DEF Lists
    <3>2. g.level[LevelC] = k.level[LevelC] /\ g.tasks0[C] = k.tasks0[C]
      BY <1>8, <2>3, <3>1, Numbers
    <3>3. g.level[LevelA] = h /\ g.tasks0[A].flags = 2
      BY <1>6, <1>8, <2>3, <3>1
    <3>4. QED
      BY ONLY <1>0, <2>1, <2>2, <3>1, <3>2, <3>3 DEF Lists
  <2>4. CASE t = C
    <3>1. /\ l = LevelC /\ h.tasks[0] = C
          /\ h.now = 0 \/ h.now < h.running
          /\ h.running > 0
          /\ \A i \in 0 .. h.running - 1 : h.tasks[i] = C
      BY <1>1, <1>2, <1>3, <1>4, <1>5, <2>4, Numbers
    <3>2. g.level[LevelA] = k.level[LevelA] /\ g.tasks0[A] = k.tasks0[A]
      BY <1>1, <1>8, <2>4, Numbers
    <3>3. g.level[LevelC] = h /\ g.tasks0[C].flags = 2
      BY <1>6, <1>8, <2>4, <3>1
    <3>4. QED
      BY ONLY <1>0, <2>1, <2>2, <3>1, <3>2, <3>3 DEF Lists
  <2>5. QED
    BY <2>3, <2>4
<1>11. QED
  BY <1>1, <1>5, <1>6, <1>8, <1>9, <1>10, Numbers

\* task_run(t, -1, 0), a wake-up: t is to run, on its level, and a level change
\* is asked for.  The processor keeps its task.
LEMMA RunProperties ==
    ASSUME NEW k, Sched(k), NEW t \in {A, C}, k.tasks0[t].flags = 2 \/ ~ListFull(k, t),
           NEW g, g = task_run(k, t, -1, 0)
    PROVE  /\ Sched(g) /\ task_now(g) = task_now(k)
           /\ g.level_change = 1 /\ g.now_level = k.now_level
           /\ g.tasks0[t].flags = 2
           /\ \A u \in Task \ {t} : g.tasks0[u] = k.tasks0[u]
           /\ g.level[LevelC].running =
                  IF t = C /\ k.tasks0[C].flags # 2 THEN k.level[LevelC].running + 1
                  ELSE k.level[LevelC].running
<1>0. k \in TaskctlType /\ Tasks(k) /\ Lists(k) /\ Chosen(k) /\ t \in Task
  BY Numbers DEF Sched
<1> PICK l : l = k.tasks0[t].level
  OBVIOUS
<1> DEFINE k2 == [k EXCEPT !.tasks0[t].level = l]
           k3 == IF k.tasks0[t].flags # 2 THEN task_add(k2, t) ELSE k
<1>1. g = [k3 EXCEPT !.level_change = 1]
  BY DEF task_run
<1>2. k2 = k
  <2> PICK s : s = k.tasks0[t]
    OBVIOUS
  <2>1. s \in [flags : {0, 1, 2}, level : Level, priority : Nat]
    BY <1>0, Fields
  <2>2. [s EXCEPT !.level = l] = s
    BY <2>1
  <2>3. [k.tasks0 EXCEPT ![t] = s] = k.tasks0
    BY <1>0, Fields
  <2>4. k2 = [k EXCEPT !.tasks0 = [k.tasks0 EXCEPT ![t] = [s EXCEPT !.level = l]]]
    OBVIOUS
  <2>5. QED
    BY <1>0, <2>2, <2>3, <2>4, Fields
<1> PICK n : n = IF k.tasks0[t].flags # 2 THEN task_add(k, t) ELSE k
  OBVIOUS
<1>3. k3 = n
  BY <1>2
<1>4. /\ n \in TaskctlType /\ Tasks(n) /\ Lists(n)
      /\ n.tasks0[t].flags = 2
      /\ \A u \in Task \ {t} : n.tasks0[u] = k.tasks0[u]
      /\ n.now_level = k.now_level
      /\ n.level[LevelC].running =
             IF t = C /\ k.tasks0[C].flags # 2 THEN k.level[LevelC].running + 1
             ELSE k.level[LevelC].running
  <2>1. CASE k.tasks0[t].flags = 2
    BY <1>0, <2>1, Numbers
  <2>2. CASE k.tasks0[t].flags # 2
    BY <2>2, AddProperties
  <2>3. QED
    BY <2>1, <2>2
<1> HIDE DEF k2, k3
<1>5. /\ g.level = n.level /\ g.tasks0 = n.tasks0
      /\ g.now_level = n.now_level /\ g.level_change = 1
      /\ g \in TaskctlType
  BY <1>1, <1>3, <1>4 DEF TaskctlType
<1>6. Tasks(g) /\ Lists(g)
  BY <1>4, <1>5 DEF Tasks, Lists
<1>7. Chosen(g)
  <2>1. k.level[LevelC].running \in Nat
    BY <1>0, Numbers, Fields
  <2>2. \A u \in {A, C} : k.tasks0[u].flags = 2 => g.tasks0[u].flags = 2
    BY <1>4, <1>5, Numbers
  <2>3. k.level[LevelC].running > 0 => g.level[LevelC].running > 0
    BY <1>4, <1>5, <2>1
  <2>4. QED
    BY <1>0, <1>4, <1>5, <2>2, <2>3 DEF Chosen
<1>8. Sched(g)
  BY <1>5, <1>6, <1>7 DEF Sched
<1>9. task_now(g) = task_now(k)
  BY <1>4, <1>5, <1>8, NowIs
<1>10. QED
  BY <1>4, <1>5, <1>8, <1>9

\* The list of a wake-up has an entry left if it is task_a's.
LEMMA RoomForA ==
    ASSUME NEW k, Sched(k), k.tasks0[A].flags # 2
    PROVE  ~ListFull(k, A)
<1>1. k.tasks0[A].level = LevelA /\ k.level[LevelA].running = 0
  BY DEF Sched, Tasks, Lists
<1>2. QED
  BY <1>1 DEF ListFull

\* task_switch takes turns on the level; task_a, alone on its own, stays.
LEMMA SwitchProperties ==
    ASSUME NEW k, Sched(k), NEW g, g = task_switch(k)
    PROVE  /\ Sched(g)
           /\ g.tasks0 = k.tasks0
           /\ g.level[LevelC].running = k.level[LevelC].running
           /\ task_now(k) = A => task_now(g) = A
<1>0. k \in TaskctlType /\ Tasks(k) /\ Lists(k) /\ Chosen(k)
  BY DEF Sched
<1> PICK l : l = k.now_level
  OBVIOUS
<1>1. l \in {LevelA, LevelC, Last} /\ l \in Level
  BY <1>0, Numbers DEF Chosen
<1> PICK tl : tl = k.level[l]
  OBVIOUS
<1>2. /\ tl \in [running : 0 .. MAX_TASKS_LV, now : 0 .. MAX_TASKS_LV,
                 tasks : [0 .. MAX_TASKS_LV - 1 -> Task \cup {Garbage}]]
  BY <1>0, <1>1, Fields
<1>3. tl.running \in Nat /\ tl.running > 0 /\ tl.now \in Nat /\ tl.now < tl.running
      /\ tl.running <= MAX_TASKS_LV
  <2>1. tl.running \in 0 .. MAX_TASKS_LV /\ tl.now \in Nat
    BY <1>2
  <2>2. l = LevelA => tl.running = 1 /\ tl.now = 0
    BY <1>0 DEF Lists, Chosen
  <2>3. l = Last => tl.running = 1 /\ tl.now = 0
    BY <1>0 DEF Lists
  <2>4. l = LevelC => tl.running > 0 /\ (tl.now = 0 \/ tl.now < tl.running)
    BY <1>0 DEF Lists, Chosen
  <2>5. QED
    BY <1>1, <2>1, <2>2, <2>3, <2>4
<1> PICK n : n = IF tl.now + 1 = tl.running THEN 0 ELSE tl.now + 1
  OBVIOUS
<1>4. n \in 0 .. MAX_TASKS_LV /\ n < tl.running
  BY <1>3
<1> PICK h : h = [running |-> tl.running, now |-> n, tasks |-> tl.tasks]
  OBVIOUS
<1>5. /\ h \in [running : 0 .. MAX_TASKS_LV, now : 0 .. MAX_TASKS_LV,
                tasks : [0 .. MAX_TASKS_LV - 1 -> Task \cup {Garbage}]]
      /\ h.running = tl.running /\ h.now = n /\ h.tasks = tl.tasks
      /\ Rotate(tl) = h
  <2>1. /\ tl = [running |-> tl.running, now |-> tl.now, tasks |-> tl.tasks]
        /\ tl.running \in 0 .. MAX_TASKS_LV
        /\ tl.tasks \in [0 .. MAX_TASKS_LV - 1 -> Task \cup {Garbage}]
    BY <1>2
  <2>2. Rotate(tl) = [tl EXCEPT !.now = n]
    BY DEF Rotate
  <2>3. QED
    BY ONLY <1>4, <2>1, <2>2, h = [running |-> tl.running, now |-> n, tasks |-> tl.tasks]
<1> PICK k1 : k1 = [k EXCEPT !.level[l] = h]
  OBVIOUS
<1>6. /\ k1 \in TaskctlType
      /\ k1.now_level = l /\ k1.level_change = k.level_change
      /\ k1.level[l] = h /\ \A m \in Level \ {l} : k1.level[m] = k.level[m]
      /\ k1.tasks0 = k.tasks0
  <2>1. [k.level EXCEPT ![l] = h]
            \in [Level -> [running : 0 .. MAX_TASKS_LV, now : 0 .. MAX_TASKS_LV,
                           tasks : [0 .. MAX_TASKS_LV - 1 -> Task \cup {Garbage}]]]
    BY <1>0, <1>1, <1>5, Fields
  <2>2. /\ k1.level = [k.level EXCEPT ![l] = h] /\ k1.tasks0 = k.tasks0
        /\ k1.now_level = l /\ k1.level_change = k.level_change
        /\ k1 \in TaskctlType
    BY <1>0, <2>1 DEF TaskctlType
  <2>3. DOMAIN k.level = Level
    BY <1>0, Fields
  <2>4. QED
    BY <1>1, <2>2, <2>3
<1>7. \A m \in Level : /\ k1.level[m].running = k.level[m].running
                       /\ k1.level[m].tasks = k.level[m].tasks
                       /\ m # l => k1.level[m] = k.level[m]
  BY <1>1, <1>5, <1>6
<1>8. Tasks(k1)
  BY <1>0, <1>6 DEF Tasks
<1>9. Lists(k1)
  <2>1. \A m \in Level \ {LevelA, LevelC, Last} : k1.level[m].running = 0
    BY <1>0, <1>7 DEF Lists
  <2>2. ASSUME NEW m \in {LevelA, Last} PROVE k1.level[m].now = 0
    <3>1. CASE m = l
      <4>1. tl.running = 1
        BY <1>0, <2>2, <3>1, Numbers DEF Lists, Chosen
      <4>2. n = 0
        BY ONLY <1>4, <4>1, TaskLimits
      <4>3. QED
        BY ONLY <1>5, <1>6, <3>1, <4>2
    <3>2. CASE m # l
      BY ONLY <1>0, <1>7, <2>2, <3>2, Numbers DEF Lists
    <3>3. QED
      BY <3>1, <3>2
  <2>3. k1.level[LevelC].now = 0 \/ k1.level[LevelC].now < k1.level[LevelC].running
    <3>1. CASE LevelC = l
      BY ONLY <1>4, <1>5, <1>6, <3>1
    <3>2. CASE LevelC # l
      BY ONLY <1>0, <1>7, <3>2, Numbers DEF Lists
    <3>3. QED
      BY <3>1, <3>2
  <2>4. QED
    BY ONLY <1>0, <1>6, <1>7, <2>1, <2>2, <2>3, Numbers DEF Lists
<1>10. Chosen(k1)
  BY <1>0, <1>6, <1>7, Numbers DEF Chosen
<1>11. Sched(k1)
  BY <1>6, <1>8, <1>9, <1>10 DEF Sched
<1>12. g = IF k1.level_change # 0 THEN task_switchsub(k1) ELSE k1
  BY <1>5 DEF task_switch, ChangeLevel
<1>13. task_now(k) = A => k.now_level = LevelA /\ k.tasks0[A].flags = 2
  BY <1>0, NowIs, Numbers DEF Chosen
<1>14. CASE k1.level_change # 0
  <2>1. /\ Sched(g) /\ g.level = k1.level /\ g.tasks0 = k1.tasks0
        /\ k1.tasks0[A].flags = 2 => g.now_level = LevelA
    <3>1. g = task_switchsub(k1)
      BY <1>12, <1>14
    <3>2. QED
      BY ONLY <1>6, <1>8, <1>9, <3>1, SwitchsubProperties
  <2>2. task_now(k) = A => task_now(g) = A
    BY <1>6, <1>13, <2>1, NowIs
  <2>3. QED
    BY <1>6, <1>7, <2>1, <2>2, Numbers
<1>15. CASE k1.level_change = 0
  <2>1. g = k1
    BY <1>12, <1>15
  <2>2. task_now(k) = A => task_now(g) = A
    BY <1>6, <1>11, <1>13, <2>1, NowIs
  <2>3. QED
    BY <1>6, <1>7, <1>11, <2>1, <2>2, Numbers
<1>16. QED
  BY <1>14, <1>15

\* task_sleep by the task that has the processor: it is off its list, and the
\* processor goes to the most urgent list left.
LEMMA SleepProperties ==
    ASSUME NEW k, Sched(k), NEW t \in {A, C}, k.tasks0[t].flags = 2, task_now(k) = t,
           NEW g, g = task_sleep(k, t)
    PROVE  /\ Sched(g)
           /\ g.tasks0[t].flags = 1
           /\ \A u \in Task \ {t} : g.tasks0[u] = k.tasks0[u]
           /\ g.level[LevelC].running = IF t = C THEN k.level[LevelC].running - 1
                                        ELSE k.level[LevelC].running
           /\ g.level[LevelC].running = 0 => task_now(g) # C
           /\ g.tasks0[A].flags = 1 => task_now(g) # A
<1> PICK k1 : k1 = task_remove(k, t)
  OBVIOUS
<1>1. g = task_switchsub(k1)
  BY DEF task_sleep
<1>2. /\ k1 \in TaskctlType /\ Tasks(k1) /\ Lists(k1)
      /\ k1.tasks0[t].flags = 1
      /\ \A u \in Task \ {t} : k1.tasks0[u] = k.tasks0[u]
      /\ k1.level[LevelC].running = IF t = C THEN k.level[LevelC].running - 1
                                    ELSE k.level[LevelC].running
  BY RemoveProperties DEF Sched
<1>3. /\ Sched(g) /\ g.level = k1.level /\ g.tasks0 = k1.tasks0
      /\ g.now_level = IF k1.tasks0[A].flags = 2 THEN LevelA
                       ELSE IF k1.level[LevelC].running > 0 THEN LevelC
                       ELSE Last
  BY <1>1, <1>2, SwitchsubProperties
<1>4. QED
  BY <1>2, <1>3, NowIs, Numbers

-----------------------------------------------------------------------------
(* The steps of task_a's own wake-up of the console, one access at a time.  *)

\* The console is put on the list of its level, at the place and with the count
\* that task_a has loaded.
Stored(k, eax) ==
    [k EXCEPT !.level[LevelC] = [@ EXCEPT !.tasks[eax] = C, !.running = eax + 1]]
LEMMA StoreProperties ==
    ASSUME NEW k, Sched(k), k.now_level = LevelA,
           NEW eax \in Nat, eax < MAX_TASKS_LV, BetweenLoadAndStore(k, eax),
           NEW g, g = Stored(k, eax)
    PROVE  /\ Sched(g) /\ task_now(g) = task_now(k)
           /\ g.tasks0 = k.tasks0 /\ g.now_level = LevelA
           /\ g.level[LevelC].running = eax + 1
<1>0. k \in TaskctlType /\ Tasks(k) /\ Lists(k) /\ Chosen(k)
  BY DEF Sched
<1> PICK tl : tl = k.level[LevelC]
  OBVIOUS
<1>1. /\ tl \in [running : 0 .. MAX_TASKS_LV, now : 0 .. MAX_TASKS_LV,
                 tasks : [0 .. MAX_TASKS_LV - 1 -> Task \cup {Garbage}]]
  BY <1>0, Numbers, Fields
<1>2. /\ tl.now \in 0 .. MAX_TASKS_LV
      /\ tl.tasks \in [0 .. MAX_TASKS_LV - 1 -> Task \cup {Garbage}]
      /\ tl.running \in {eax, eax + 1}
      /\ tl.tasks[0] = C
      /\ tl.now = 0 \/ tl.now < eax + 1
  BY <1>0, <1>1 DEF Lists, BetweenLoadAndStore
<1>3. \A i \in 0 .. eax - 1 : tl.tasks[i] = C
  BY <1>0, <1>2 DEF Lists
<1> PICK b : b = [tl.tasks EXCEPT ![eax] = C]
  OBVIOUS
<1>4. /\ b \in [0 .. MAX_TASKS_LV - 1 -> Task \cup {Garbage}]
      /\ b[0] = C /\ \A i \in 0 .. eax : b[i] = C
  <2>1. b \in [0 .. MAX_TASKS_LV - 1 -> Task \cup {Garbage}]
    BY <1>2, Numbers
  <2>2. ASSUME NEW i \in 0 .. eax PROVE b[i] = C
    BY <1>2, <1>3
  <2>3. 0 \in 0 .. eax
    OBVIOUS
  <2>4. QED
    BY ONLY <2>1, <2>2, <2>3
<1> PICK h : h = [running |-> eax + 1, now |-> tl.now, tasks |-> b]
  OBVIOUS
<1>5. /\ h \in [running : 0 .. MAX_TASKS_LV, now : 0 .. MAX_TASKS_LV,
                tasks : [0 .. MAX_TASKS_LV - 1 -> Task \cup {Garbage}]]
      /\ h.running = eax + 1 /\ h.now = tl.now /\ h.tasks = b
      /\ [tl EXCEPT !.tasks[eax] = C, !.running = eax + 1] = h
  <2>1. eax + 1 \in 0 .. MAX_TASKS_LV
    OBVIOUS
  <2>2. tl = [running |-> tl.running, now |-> tl.now, tasks |-> tl.tasks]
    BY <1>1
  <2>3. [tl EXCEPT !.tasks[eax] = C, !.running = eax + 1]
            = [tl EXCEPT !.tasks = b, !.running = eax + 1]
    OBVIOUS
  <2>4. [tl EXCEPT !.tasks = b, !.running = eax + 1] = h
    <3>1. PICK m : m = eax + 1
      OBVIOUS
    <3>2. PICK x : x = [tl EXCEPT !.tasks = b]
      OBVIOUS
    <3>3. x = [running |-> tl.running, now |-> tl.now, tasks |-> b]
      BY ONLY <2>2, <3>2
    <3>4. [x EXCEPT !.running = m] = h
      BY ONLY <3>1, <3>3, h = [running |-> eax + 1, now |-> tl.now, tasks |-> b]
    <3>5. [tl EXCEPT !.tasks = b, !.running = m] = [x EXCEPT !.running = m]
      BY <3>2
    <3>6. QED
      BY ONLY <3>1, <3>4, <3>5
  <2>5. QED
    <3>1. [tl EXCEPT !.tasks[eax] = C, !.running = eax + 1] = h
      BY ONLY <2>3, <2>4
    <3>2. QED
      BY ONLY <1>2, <1>4, <2>1, <3>1, h = [running |-> eax + 1, now |-> tl.now, tasks |-> b]
<1> PICK e : e = k.tasks0[A]
  OBVIOUS
<1>6. g = Replace(k, LevelC, h, A, e)
  <2>1. g = [k EXCEPT !.level[LevelC] = [tl EXCEPT !.tasks[eax] = C, !.running = eax + 1]]
    BY DEF Stored
  <2>2. g = [k EXCEPT !.level[LevelC] = h]
    BY <1>5, <2>1
  <2>3. [k.tasks0 EXCEPT ![A] = e] = k.tasks0
    BY <1>0, Fields, Numbers
  <2>4. [k EXCEPT !.level = [k.level EXCEPT ![LevelC] = h], !.tasks0 = k.tasks0]
            = [k EXCEPT !.level = [k.level EXCEPT ![LevelC] = h]]
    BY <1>0, Fields
  <2>5. QED
    BY <2>2, <2>3, <2>4 DEF Replace
<1>7. /\ g \in TaskctlType
      /\ g.now_level = k.now_level /\ g.level_change = k.level_change
      /\ g.level[LevelC] = h /\ \A m \in Level \ {LevelC} : g.level[m] = k.level[m]
      /\ g.tasks0 = k.tasks0
  <2>1. e \in [flags : {0, 1, 2}, level : Level, priority : Nat]
    BY <1>0, Fields, Numbers
  <2>2. /\ g \in TaskctlType
        /\ g.now_level = k.now_level /\ g.level_change = k.level_change
        /\ g.level[LevelC] = h /\ \A m \in Level \ {LevelC} : g.level[m] = k.level[m]
    <3>1. h \in [running : 0 .. MAX_TASKS_LV, now : 0 .. MAX_TASKS_LV,
                 tasks : [0 .. MAX_TASKS_LV - 1 -> Task \cup {Garbage}]]
      BY <1>5
    <3>2. k \in TaskctlType /\ LevelC \in Level /\ A \in Task
      BY <1>0, Numbers
    <3>3. QED
      BY ONLY <1>6, <2>1, <3>1, <3>2, Replaced
  <2>3. g.tasks0 = k.tasks0
    BY DEF Stored
  <2>4. QED
    BY <2>2, <2>3
<1>8. Tasks(g)
  BY <1>0, <1>7 DEF Tasks
<1>9. Lists(g)
  <2>1. /\ \A m \in Level \ {LevelA, LevelC, Last} : g.level[m].running = 0
        /\ g.level[LevelA] = k.level[LevelA] /\ g.level[Last] = k.level[Last]
    BY <1>0, <1>7, Numbers DEF Lists
  <2>2. /\ h.tasks[0] = C
        /\ h.now = 0 \/ h.now < h.running
        /\ h.running > 0
        /\ \A i \in 0 .. h.running - 1 : h.tasks[i] = C
    BY <1>2, <1>4, <1>5
  <2>3. QED
    BY ONLY <1>0, <1>7, <2>1, <2>2 DEF Lists
<1>10. Chosen(g)
  BY <1>0, <1>7, Numbers DEF Chosen
<1>11. Sched(g)
  BY <1>7, <1>8, <1>9, <1>10 DEF Sched
<1>12. QED
  BY <1>5, <1>7, <1>11, NowIs

\* The console's flags are set.
LEMMA FlagsProperties ==
    ASSUME NEW k, Sched(k), k.now_level = LevelA, k.level[LevelC].running > 0,
           NEW g, g = [k EXCEPT !.tasks0[C].flags = 2]
    PROVE  /\ Sched(g) /\ task_now(g) = task_now(k)
           /\ g.tasks0[C].flags = 2 /\ g.tasks0[A] = k.tasks0[A] /\ g.level = k.level
           /\ g.now_level = LevelA
<1>0. k \in TaskctlType /\ Tasks(k) /\ Lists(k) /\ Chosen(k)
  BY DEF Sched
<1> PICK s : s = k.tasks0[C]
  OBVIOUS
<1> PICK e : e = [flags |-> 2, level |-> s.level, priority |-> s.priority]
  OBVIOUS
<1>1. /\ e \in [flags : {0, 1, 2}, level : Level, priority : Nat]
      /\ e.flags = 2 /\ e.level = k.tasks0[C].level
      /\ e = [s EXCEPT !.flags = 2]
  <2>1. s \in [flags : {0, 1, 2}, level : Level, priority : Nat]
    BY <1>0, Fields, Numbers
  <2>2. QED
    BY <2>1
<1>2. g = [k EXCEPT !.tasks0 = [k.tasks0 EXCEPT ![C] = e]]
  BY <1>1
<1>3. [k.tasks0 EXCEPT ![C] = e]
          \in [Task -> [flags : {0, 1, 2}, level : Level, priority : Nat]]
  BY <1>0, <1>1, Fields
<1>4. /\ g.tasks0 = [k.tasks0 EXCEPT ![C] = e] /\ g.level = k.level
      /\ g.now_level = k.now_level /\ g.level_change = k.level_change
      /\ g \in TaskctlType
  BY <1>0, <1>2, <1>3 DEF TaskctlType
<1>5. g.tasks0[C] = e /\ \A u \in Task \ {C} : g.tasks0[u] = k.tasks0[u]
  <2>1. DOMAIN k.tasks0 = Task
    BY <1>0, Fields
  <2>2. QED
    BY <1>4, <2>1, Numbers
<1>6. Tasks(g)
  BY <1>0, <1>1, <1>5, Numbers DEF Tasks
<1>7. Lists(g)
  BY <1>0, <1>1, <1>4, <1>5, Numbers DEF Lists
<1>8. Chosen(g)
  BY <1>0, <1>4, <1>5, Numbers DEF Chosen
<1>9. Sched(g)
  BY <1>4, <1>6, <1>7, <1>8 DEF Sched
<1>10. QED
  BY <1>1, <1>4, <1>5, <1>9, NowIs, Numbers

\* A level change is asked for.
LEMMA ChangeProperties ==
    ASSUME NEW k, Sched(k), NEW g, g = [k EXCEPT !.level_change = 1]
    PROVE  /\ Sched(g) /\ task_now(g) = task_now(k)
           /\ g.level = k.level /\ g.tasks0 = k.tasks0 /\ g.level_change = 1
           /\ g.now_level = k.now_level
<1>1. /\ g.level = k.level /\ g.tasks0 = k.tasks0 /\ g.level_change = 1
      /\ g.now_level = k.now_level /\ g \in TaskctlType
  BY DEF TaskctlType, Sched
<1>2. Sched(g)
  BY <1>1 DEF Sched, Tasks, Lists, Chosen
<1>3. QED
  BY <1>1, <1>2, NowIs

-----------------------------------------------------------------------------
(* The FIFOs and the cursor timers' messages in them.                       *)

\* A message put behind the others.
LEMMA TimerAppend ==
    ASSUME NEW s \in Seq(Messages), NEW d \in Messages
    PROVE  /\ Append(s, d) \in Seq(Messages)
           /\ \A i \in DOMAIN Append(s, d) : Append(s, d)[i] = d \/ (i \in DOMAIN s /\ Append(s, d)[i] = s[i])
           /\ Absent(s, "cursor") /\ d # "cursor" => Absent(Append(s, d), "cursor")
           /\ Absent(s, "cursor") /\ d = "cursor" => Single(Append(s, d), "cursor")
           /\ Single(s, "cursor") /\ d # "cursor" => Single(Append(s, d), "cursor")
<1> DEFINE t == Append(s, d)
<1>1. /\ DOMAIN t = DOMAIN s \cup {Len(s) + 1} /\ Len(s) + 1 \notin DOMAIN s
      /\ t[Len(s) + 1] = d /\ \A i \in DOMAIN s : t[i] = s[i]
      /\ t \in Seq(Messages)
  OBVIOUS
<1> HIDE DEF t
<1> PICK n : n = Len(s) + 1
  OBVIOUS
<1>2. /\ DOMAIN t = DOMAIN s \cup {n} /\ n \notin DOMAIN s
      /\ t[n] = d /\ \A i \in DOMAIN s : t[i] = s[i]
  BY <1>1
<1>3. Absent(s, "cursor") /\ d # "cursor" => Absent(t, "cursor")
  BY ONLY <1>2 DEF Absent
<1>4. Absent(s, "cursor") /\ d = "cursor" => Single(t, "cursor")
  BY ONLY <1>2 DEF Absent, Single
<1>5. Single(s, "cursor") /\ d # "cursor" => Single(t, "cursor")
  BY ONLY <1>2 DEF Single
<1>6. \A i \in DOMAIN t : t[i] = d \/ (i \in DOMAIN s /\ t[i] = s[i])
  BY ONLY <1>2
<1>7. QED
  BY <1>1, <1>3, <1>4, <1>5, <1>6 DEF t

\* The first message taken.
LEMMA TimerTail ==
    ASSUME NEW s \in Seq(Messages), s # << >>
    PROVE  /\ Tail(s) \in Seq(Messages) /\ Head(s) \in Messages
           /\ Head(s) = s[1] /\ 1 \in DOMAIN s
           /\ \A i \in DOMAIN Tail(s) : i + 1 \in DOMAIN s /\ Tail(s)[i] = s[i + 1]
           /\ Absent(s, "cursor") => Head(s) # "cursor" /\ Absent(Tail(s), "cursor")
           /\ Single(s, "cursor") =>
                  IF Head(s) = "cursor" THEN Absent(Tail(s), "cursor")
                  ELSE Single(Tail(s), "cursor")
<1>1. /\ Tail(s) \in Seq(Messages) /\ Head(s) \in Messages
      /\ Head(s) = s[1] /\ 1 \in DOMAIN s
      /\ \A i \in DOMAIN Tail(s) : i \in Nat /\ i + 1 \in DOMAIN s /\ Tail(s)[i] = s[i + 1]
      /\ \A i \in DOMAIN s : i = 1 \/ (i - 1 \in DOMAIN Tail(s) /\ Tail(s)[i - 1] = s[i])
      /\ DOMAIN s \subseteq Nat /\ 0 \notin DOMAIN s
  OBVIOUS
<1>2. Absent(s, "cursor") => Head(s) # "cursor" /\ Absent(Tail(s), "cursor")
  BY <1>1 DEF Absent
<1>3. ASSUME Single(s, "cursor"), Head(s) = "cursor"
      PROVE  Absent(Tail(s), "cursor")
  <2>1. PICK i \in DOMAIN s : s[i] = "cursor" /\ \A j \in DOMAIN s \ {i} : s[j] # "cursor"
    BY <1>3 DEF Single
  <2>2. i = 1
    BY <1>1, <1>3, <2>1
  <2>3. \A j \in DOMAIN Tail(s) : j + 1 # 1
    BY <1>1
  <2>4. QED
    BY <1>1, <2>1, <2>2, <2>3 DEF Absent
<1>4. ASSUME Single(s, "cursor"), Head(s) # "cursor"
      PROVE  Single(Tail(s), "cursor")
  <2>1. PICK i \in DOMAIN s : s[i] = "cursor" /\ \A j \in DOMAIN s \ {i} : s[j] # "cursor"
    BY <1>4 DEF Single
  <2>2. i # 1 /\ i - 1 \in DOMAIN Tail(s) /\ Tail(s)[i - 1] = "cursor"
    BY <1>1, <1>4, <2>1
  <2>3. ASSUME NEW j \in DOMAIN Tail(s) \ {i - 1} PROVE Tail(s)[j] # "cursor"
    <3>1. j + 1 \in DOMAIN s /\ j + 1 # i /\ Tail(s)[j] = s[j + 1]
      BY <1>1
    <3>2. QED
      BY <2>1, <3>1
  <2>4. QED
    BY <2>2, <2>3 DEF Single
<1>5. QED
  BY <1>1, <1>2, <1>3, <1>4

\* A timer's interrupt puts into the console's FIFO, whatever state an
\* interrupted put has left it in; the index is one of the array.
LEMMA ConsolePut ==
    ASSUME NEW f \in ConsoleFifo, NEW d \in Messages,
           f.free = 0 \/ f.write_buf \in DOMAIN f.buf,
           NEW g, g = fifo32_put(f, d)
    PROVE  /\ g \in ConsoleFifo
           /\ g.write_buf = SizeC => f.write_buf = SizeC
<1>1. CASE f.free = 0
  BY <1>1 DEF fifo32_put, ConsoleFifo, FLAGS_OVERRUN
<1>2. CASE f.free # 0
  <2>1. /\ f.write_buf \in 0 .. SizeC - 1 /\ f.size = SizeC
        /\ f = [size |-> f.size, buf |-> f.buf, free |-> f.free, flags |-> f.flags,
                read_buf |-> f.read_buf, write_buf |-> f.write_buf, task |-> f.task]
    BY <1>2 DEF ConsoleFifo
  <2>2. PICK w : w = Advance(f.write_buf, SizeC)
    OBVIOUS
  <2>3. w \in 0 .. SizeC - 1
    BY <2>1, <2>2 DEF Advance
  <2>4. [f.buf EXCEPT ![f.write_buf] = d] \in [0 .. SizeC - 1 -> Messages]
    BY <2>1 DEF ConsoleFifo
  <2>5. PICK b : b = [f.buf EXCEPT ![f.write_buf] = d]
    OBVIOUS
  <2>6. f.free - 1 \in {i \in Int : i <= SizeC}
    BY DEF ConsoleFifo
  <2>7. g = [f EXCEPT !.buf = b, !.write_buf = w, !.free = f.free - 1]
    BY <1>2, <2>1, <2>2, <2>5 DEF fifo32_put
  <2>8. g \in ConsoleFifo /\ g.write_buf = w
    <3>1. PICK x : x = [f EXCEPT !.buf = b]
      OBVIOUS
    <3>2. x \in ConsoleFifo /\ x.free = f.free
      BY <2>4, <2>5, <3>1 DEF ConsoleFifo
    <3>3. PICK y : y = [x EXCEPT !.write_buf = w]
      OBVIOUS
    <3>4. y \in ConsoleFifo /\ y.write_buf = w
      <4>1. w \in 0 .. SizeC
        BY <2>3
      <4>2. QED
        BY ONLY <3>2, <3>3, <4>1 DEF ConsoleFifo
    <3>5. g = [y EXCEPT !.free = f.free - 1]
      BY <2>7, <3>1, <3>3
    <3>6. QED
      BY <2>6, <3>4, <3>5 DEF ConsoleFifo
  <2>9. QED
    BY <2>3, <2>8
<1>3. QED
  BY <1>1, <1>2

\* The console takes a message.
LEMMA ConsoleGet ==
    ASSUME NEW f \in ConsoleFifo, fifo32_status(f) # 0,
           NEW g, g = fifo32_get(f)
    PROVE  /\ g \in ConsoleFifo /\ g.write_buf = f.write_buf
           /\ GetReturns(f) \in Messages
<1>1. /\ f.size = SizeC /\ f.free # SizeC /\ f.free \in Int /\ f.free <= SizeC
      /\ f.read_buf \in 0 .. SizeC - 1
  BY DEF ConsoleFifo, fifo32_status
<1>2. PICK r : r = Advance(f.read_buf, SizeC)
  OBVIOUS
<1>3. r \in 0 .. SizeC - 1
  BY <1>1, <1>2 DEF Advance
<1>4. g = [f EXCEPT !.read_buf = r, !.free = f.free + 1]
  BY <1>1, <1>2 DEF fifo32_get
<1>5. g \in ConsoleFifo /\ g.write_buf = f.write_buf
  <2>1. PICK x : x = [f EXCEPT !.read_buf = r]
    OBVIOUS
  <2>2. x \in ConsoleFifo /\ x.write_buf = f.write_buf
    BY <1>3, <2>1 DEF ConsoleFifo
  <2>3. g = [x EXCEPT !.free = f.free + 1]
    BY <1>4, <2>1
  <2>4. f.free + 1 \in {i \in Int : i <= SizeC}
    BY <1>1
  <2>5. QED
    BY <2>2, <2>3, <2>4 DEF ConsoleFifo
<1>6. GetReturns(f) \in Messages
  BY <1>1 DEF GetReturns, ConsoleFifo
<1>7. QED
  BY <1>5, <1>6

\* A FIFO in order is one that an interrupted put may leave.
LEMMA ConsoleInOrder ==
    ASSUME NEW f \in FifoType(SizeC, Messages, {C})
    PROVE  f \in ConsoleFifo /\ f.write_buf # SizeC /\ f.write_buf \in DOMAIN f.buf
BY DEF FifoType, ConsoleFifo

\* The wake-up that a put of a handler's makes.
LEMMA WakeProperties ==
    ASSUME NEW k, Sched(k), NEW f, NEW t \in {A, C}, f.task = t,
           ~(Wakes(f, k.tasks0[t].flags) /\ ListFull(k, t)),
           NEW g, g = WakeFor(k, f)
    PROVE  /\ Sched(g) /\ task_now(g) = task_now(k) /\ g.now_level = k.now_level
           /\ \A u \in Task \ {t} : g.tasks0[u] = k.tasks0[u]
           /\ g.tasks0[t].flags \in {k.tasks0[t].flags, 2}
           /\ f.free # 0 => g.tasks0[t].flags = 2
           /\ g.level[LevelC].running =
                  IF t = C /\ k.tasks0[C].flags # 2 /\ f.free # 0
                  THEN k.level[LevelC].running + 1
                  ELSE k.level[LevelC].running
<1>1. t # 0 /\ t \in Task
  BY Numbers DEF A, C
<1>2. CASE Wakes(f, k.tasks0[t].flags)
  <2>1. g = task_run(k, t, -1, 0) /\ ~ListFull(k, t)
    BY <1>2 DEF WakeFor
  <2>2. QED
    BY <1>2, <2>1, RunProperties DEF Wakes
<1>3. CASE ~Wakes(f, k.tasks0[t].flags)
  <2>1. g = k
    BY <1>3 DEF WakeFor
  <2>2. f.free # 0 => k.tasks0[t].flags = 2
    BY <1>1, <1>3 DEF Wakes
  <2>3. QED
    BY <2>1, <2>2
<1>4. QED
  BY <1>2, <1>3

\* Another message behind the others leaves the chain as it is.
LEMMA ChainPut ==
    ASSUME NEW N \in Nat \ {0}, NEW T, NEW f \in FifoType(N, Messages, T), Ring(f),
           NEW set \in BOOLEAN, NEW held \in BOOLEAN, Chain(set, held, f),
           NEW d \in Messages, d # "cursor"
    PROVE  Chain(set, held, fifo32_put(f, d))
<1> PICK g : g = fifo32_put(f, d)
  OBVIOUS
<1>1. /\ f.free = 0 => Contents(g) = Contents(f) /\ g.flags = FLAGS_OVERRUN
      /\ f.free # 0 => Contents(g) = Append(Contents(f), d) /\ g.flags = f.flags
      /\ Contents(f) \in Seq(Messages)
  <2>1. Contents(f) \in Seq(Messages)
    BY ContentsType
  <2>2. QED
    BY <2>1, PutRing
<1> PICK s : s = Contents(f)
  OBVIOUS
<1>2. /\ Absent(s, "cursor") => Absent(Append(s, d), "cursor")
      /\ Single(s, "cursor") => Single(Append(s, d), "cursor")
  BY <1>1, TimerAppend
<1>3. CASE f.free = 0
  BY <1>1, <1>3 DEF Chain
<1>4. CASE f.free # 0
  BY <1>1, <1>2, <1>4 DEF Chain
<1>5. QED
  BY <1>3, <1>4

\* The timer rings: its message waits or is lost.
LEMMA ChainRings ==
    ASSUME NEW N \in Nat \ {0}, NEW T, NEW f \in FifoType(N, Messages, T), Ring(f),
           NEW held \in BOOLEAN, Chain(TRUE, held, f)
    PROVE  ~held /\ Chain(FALSE, held, fifo32_put(f, "cursor"))
<1> PICK g : g = fifo32_put(f, "cursor")
  OBVIOUS
<1>1. /\ f.free = 0 => Contents(g) = Contents(f) /\ g.flags = FLAGS_OVERRUN
      /\ f.free # 0 => Contents(g) = Append(Contents(f), "cursor")
      /\ Contents(f) \in Seq(Messages)
  <2>1. Contents(f) \in Seq(Messages)
    BY ContentsType
  <2>2. "cursor" \in Messages
    BY DEF Messages
  <2>3. QED
    BY <2>1, <2>2, PutRing
<1>2. ~held /\ Absent(Contents(f), "cursor")
  BY DEF Chain
<1>3. Single(Append(Contents(f), "cursor"), "cursor")
  BY <1>1, <1>2, TimerAppend DEF Messages
<1>4. QED
  BY <1>1, <1>2, <1>3 DEF Chain

\* The task takes a message.
LEMMA ChainGet ==
    ASSUME NEW N \in Nat \ {0}, NEW T, NEW f \in FifoType(N, Messages, T), Ring(f),
           fifo32_status(f) > 0,
           NEW set \in BOOLEAN, Chain(set, FALSE, f)
    PROVE  Chain(set, GetReturns(f) = "cursor", fifo32_get(f))
<1> PICK g : g = fifo32_get(f)
  OBVIOUS
<1> PICK s : s = Contents(f)
  OBVIOUS
<1>1. /\ s # << >> /\ GetReturns(f) = Head(s) /\ Contents(g) = Tail(s) /\ g.flags = f.flags
      /\ s \in Seq(Messages)
  BY GetRing, ContentsType
<1>2. /\ Absent(s, "cursor") => Head(s) # "cursor" /\ Absent(Tail(s), "cursor")
      /\ Single(s, "cursor") => IF Head(s) = "cursor" THEN Absent(Tail(s), "cursor")
                                ELSE Single(Tail(s), "cursor")
  BY <1>1, TimerTail
<1>3. QED
  BY <1>1, <1>2 DEF Chain

\* The task that has the message in hand sets the timer.
LEMMA ChainSet ==
    ASSUME NEW f, NEW set \in BOOLEAN, Chain(set, TRUE, f)
    PROVE  ~set /\ Chain(TRUE, FALSE, f)
BY DEF Chain

-----------------------------------------------------------------------------
(* The initial state.                                                       *)

\* Boot leaves the scheduler in order.
LEMMA BootedSched == Sched(Booted)
<1> PICK k : k = Booted
  OBVIOUS
<1> DEFINE entry(t) == [i \in 0 .. MAX_TASKS_LV - 1 |-> IF i = 0 THEN t ELSE Garbage]
<1>1. \A t \in Task \cup {Garbage} :
          /\ entry(t) \in [0 .. MAX_TASKS_LV - 1 -> Task \cup {Garbage}] /\ entry(t)[0] = t
  BY Numbers
<1>2. A \in Task \cup {Garbage} /\ C \in Task \cup {Garbage} /\ Idle \in Task \cup {Garbage}
  BY Numbers
<1> HIDE DEF entry
<1>3. /\ k.now_level = LevelC /\ k.level_change = 0
      /\ k.level = [l \in Level |->
             IF l = 0 THEN [running |-> 0, now |-> 1, tasks |-> entry(A)]
             ELSE IF l = LevelA THEN [running |-> 0, now |-> 0, tasks |-> entry(A)]
             ELSE IF l = LevelC THEN [running |-> 1, now |-> 0, tasks |-> entry(C)]
             ELSE IF l = MAX_TASKLEVELS - 1
                  THEN [running |-> 1, now |-> 0, tasks |-> entry(Idle)]
             ELSE [running |-> 0, now |-> 0, tasks |-> entry(Garbage)]]
      /\ k.tasks0 = [t \in Task |->
             IF t = A THEN [flags |-> 1, level |-> LevelA, priority |-> 2]
             ELSE IF t = C THEN [flags |-> 2, level |-> LevelC, priority |-> 2]
             ELSE IF t = Idle
                  THEN [flags |-> 2, level |-> MAX_TASKLEVELS - 1, priority |-> 1]
             ELSE [flags |-> 0, level |-> 0, priority |-> 0]]
  BY DEF Booted, entry
<1>4. LevelA # 0 /\ LevelC # 0 /\ Last # 0 /\ 0 \in Level
      /\ 0 \in 0 .. MAX_TASKS_LV /\ 1 \in 0 .. MAX_TASKS_LV
  BY DEF LevelA, LevelC, Last, Level
<1>5. k.level[LevelA] = [running |-> 0, now |-> 0, tasks |-> entry(A)]
  BY <1>3, <1>4, Numbers
<1>6. k.level[LevelC] = [running |-> 1, now |-> 0, tasks |-> entry(C)]
  BY <1>3, <1>4, Numbers
<1>7. k.level[Last] = [running |-> 1, now |-> 0, tasks |-> entry(Idle)]
  BY <1>3, <1>4, Numbers DEF Last
<1>8. \A l \in Level \ {LevelA, LevelC, Last} : k.level[l].running = 0
  BY <1>3 DEF Last
<1>9. k.tasks0[A] = [flags |-> 1, level |-> LevelA, priority |-> 2]
  BY <1>3, Numbers
<1>10. k.tasks0[C] = [flags |-> 2, level |-> LevelC, priority |-> 2]
  BY <1>3, Numbers
<1>11. k.tasks0[Idle] = [flags |-> 2, level |-> Last, priority |-> 1]
  BY <1>3, Numbers DEF Last
<1>12. \A t \in Task \ {A, C, Idle} : k.tasks0[t] = [flags |-> 0, level |-> 0, priority |-> 0]
  BY <1>3
<1>13. k \in TaskctlType
  <2>1. \A t \in Task : k.tasks0[t] \in [flags : {0, 1, 2}, level : Level, priority : Nat]
    BY <1>4, <1>9, <1>10, <1>11, <1>12, Numbers
  <2>2. \A l \in Level :
            k.level[l] \in [running : 0 .. MAX_TASKS_LV, now : 0 .. MAX_TASKS_LV,
                            tasks : [0 .. MAX_TASKS_LV - 1 -> Task \cup {Garbage}]]
    <3>1. k.level[LevelA] \in [running : 0 .. MAX_TASKS_LV, now : 0 .. MAX_TASKS_LV,
                            tasks : [0 .. MAX_TASKS_LV - 1 -> Task \cup {Garbage}]]
      BY <1>1, <1>2, <1>4, <1>5
    <3>2. k.level[LevelC] \in [running : 0 .. MAX_TASKS_LV, now : 0 .. MAX_TASKS_LV,
                            tasks : [0 .. MAX_TASKS_LV - 1 -> Task \cup {Garbage}]]
      BY <1>1, <1>2, <1>4, <1>6
    <3>3. k.level[Last] \in [running : 0 .. MAX_TASKS_LV, now : 0 .. MAX_TASKS_LV,
                            tasks : [0 .. MAX_TASKS_LV - 1 -> Task \cup {Garbage}]]
      BY <1>1, <1>2, <1>4, <1>7
    <3>4. ASSUME NEW l \in Level \ {LevelA, LevelC, Last}
          PROVE  k.level[l] \in [running : 0 .. MAX_TASKS_LV, now : 0 .. MAX_TASKS_LV,
                            tasks : [0 .. MAX_TASKS_LV - 1 -> Task \cup {Garbage}]]
      <4>1. \/ k.level[l] = [running |-> 0, now |-> 1, tasks |-> entry(A)]
            \/ k.level[l] = [running |-> 0, now |-> 0, tasks |-> entry(Garbage)]
        BY <1>3 DEF Last
      <4>2. Garbage \in Task \cup {Garbage}
        OBVIOUS
      <4>3. QED
        BY <1>1, <1>2, <1>4, <4>1, <4>2
    <3>5. QED
      BY ONLY <3>1, <3>2, <3>3, <3>4
  <2>3. DOMAIN k.level = Level /\ DOMAIN k.tasks0 = Task
    BY <1>3
  <2>4. /\ k.level \in [Level -> [running : 0 .. MAX_TASKS_LV, now : 0 .. MAX_TASKS_LV,
                                  tasks : [0 .. MAX_TASKS_LV - 1 -> Task \cup {Garbage}]]]
    BY <1>3, <2>2
  <2>5. k.tasks0 \in [Task -> [flags : {0, 1, 2}, level : Level, priority : Nat]]
    BY <1>3, <2>1
  <2>6. k = [now_level |-> k.now_level, level_change |-> k.level_change,
             level |-> k.level, tasks0 |-> k.tasks0]
    BY DEF Booted
  <2>7. k.now_level \in Level /\ k.level_change \in {0, 1}
    BY <1>3, Numbers
  <2>8. QED
    BY ONLY <2>4, <2>5, <2>6, <2>7 DEF TaskctlType
<1>14. Tasks(k)
  BY <1>9, <1>10, <1>11, <1>12 DEF Tasks
<1>15. Lists(k)
  BY <1>1, <1>2, <1>5, <1>6, <1>7, <1>8, <1>9, <1>10 DEF Lists
<1>16. Chosen(k)
  BY <1>3, <1>6, <1>9, <1>10, Numbers DEF Chosen
<1>17. QED
  BY <1>13, <1>14, <1>15, <1>16 DEF Sched

\* A FIFO just set up is empty.
LEMMA InitRing ==
    ASSUME NEW N \in Nat \ {0}, NEW memory \in [0 .. N - 1 -> Leftover], NEW t,
           NEW f, f = fifo32_init(N, memory, t)
    PROVE  /\ f \in FifoType(N, Messages, {t}) /\ Ring(f)
           /\ fifo32_status(f) = 0 /\ \A i \in DOMAIN Contents(f) : FALSE
<1>1. memory \in [0 .. N - 1 -> Messages]
  BY DEF Messages
<1>2. f = [size |-> N, buf |-> memory, free |-> N, flags |-> 0,
           read_buf |-> 0, write_buf |-> 0, task |-> t]
  BY DEF fifo32_init
<1>3. f \in FifoType(N, Messages, {t})
  BY <1>1, <1>2 DEF FifoType
<1>4. Ring(f) /\ fifo32_status(f) = 0
  BY <1>2 DEF Ring, Slot, fifo32_status
<1>5. DOMAIN Contents(f) = 1 .. 0
  BY <1>4 DEF Contents
<1>6. QED
  BY <1>3, <1>4, <1>5

\* The initial state has the invariant.
LEMMA InitIInv == Init => IInv
<1> SUFFICES ASSUME Init PROVE IInv
  OBVIOUS
<1>1. /\ taskctl = Booted /\ cpu = C /\ armed = {A, C}
      /\ pc = [t \in {A, C} |-> IF t = A THEN "slept" ELSE "loop"]
      /\ hand = [t \in {A, C} |-> "off"]
      /\ reg = [eax |-> 0, ecx |-> 0] /\ key_to = 0
      /\ user \in Users /\ keys = user.strokes /\ fault = "none"
  BY DEF Init
<1>2. Sched(taskctl)
  BY <1>1, BootedSched
<1>3. /\ fifoA \in FifoType(SizeA, Messages, {A}) /\ Ring(fifoA)
      /\ fifo32_status(fifoA) = 0 /\ \A i \in DOMAIN Contents(fifoA) : FALSE
  <2>1. PICK x \in Leftover : fifoA = fifo32_init(SizeA, [i \in 0 .. SizeA - 1 |-> x], A)
    BY DEF Init
  <2>2. [i \in 0 .. SizeA - 1 |-> x] \in [0 .. SizeA - 1 -> Leftover]
    OBVIOUS
  <2>3. QED
    BY <2>1, <2>2, InitRing
<1>4. /\ fifoC \in FifoType(SizeC, Messages, {C}) /\ Ring(fifoC)
      /\ fifo32_status(fifoC) = 0 /\ \A i \in DOMAIN Contents(fifoC) : FALSE
  <2>1. PICK memory \in [0 .. SizeC - 1 -> Leftover] : fifoC = fifo32_init(SizeC, memory, C)
    BY DEF Init
  <2>2. QED
    BY <2>1, InitRing
<1>5. /\ pc[A] = "slept" /\ pc[C] = "loop" /\ A # C
  BY <1>1, Numbers
<1>6. /\ taskctl.tasks0[C].flags = 2 /\ taskctl.now_level = LevelC
      /\ taskctl.level[LevelC].running = 1
  <2>1. taskctl.tasks0[C].flags = 2 /\ taskctl.now_level = LevelC
    BY <1>1, Numbers DEF Booted
  <2>2. LevelC # 0
    BY DEF LevelC
  <2>3. QED
    BY <1>1, <2>1, <2>2, Numbers DEF Booted
<1>7. task_now(taskctl) = cpu
  BY <1>1, <1>2, <1>6, NowIs, Numbers
<1>8. Typed
  <2>1. TypeOK
    <3>1. hand \in [{A, C} -> Messages]
      BY <1>1 DEF Messages
    <3>2. keys \in 0 .. user.strokes
      BY <1>1
    <3>3. QED
      BY <1>1, <1>2, <1>3, <3>1, <3>2 DEF TypeOK, Sched
  <2>2. pc \in [{A, C} -> Places \cup PutPlaces] /\ pc[C] \in Places
    BY <1>1, <1>5 DEF Places
  <2>3. reg \in [eax : Nat, ecx : 0 .. SizeC - 1]
    BY <1>1
  <2>4. QED
    BY <1>1, <1>4, <1>5, <2>1, <2>2, <2>3, ConsoleInOrder DEF Typed
<1>9. Once(A, fifoA) /\ Once(C, fifoC)
  BY <1>1, <1>3, <1>4, <1>5 DEF Once, Chain, Absent, InHand
<1>10. Going
  BY <1>2, <1>3, <1>4, <1>5, <1>7, <1>9 DEF Going, Dispatched, Rested
<1>11. Typing
  BY <1>1, <1>3, <1>4, <1>5, <1>6, <1>9 DEF Typing, Places, ListedOnce
<1>12. QED
  BY <1>8, <1>10, <1>11 DEF IInv

-----------------------------------------------------------------------------
(* The steps.                                                               *)

\* What a machine that runs has.
LEMMA Running ==
    ASSUME IInv, fault = "none"
    PROVE  /\ Typed /\ Going /\ Sched(taskctl)
           /\ cpu = A => taskctl.now_level = LevelA /\ taskctl.tasks0[A].flags = 2
           /\ cpu = C => /\ taskctl.now_level = LevelC
                         /\ taskctl.level[LevelC].running > 0
                         /\ pc[A] = "slept"
           /\ fifoA.task = A /\ fifoC.task = C
           /\ taskctl.tasks0[A].flags \in {1, 2} /\ taskctl.tasks0[C].flags \in {1, 2}
<1>1. Typed /\ Going /\ Sched(taskctl) /\ task_now(taskctl) = cpu
      /\ (pc[A] # "slept" => cpu = A)
  BY DEF IInv, Going, Dispatched
<1>2. /\ cpu = A => taskctl.now_level = LevelA
      /\ cpu = C => taskctl.now_level = LevelC /\ pc[A] = "slept"
  BY <1>1, NowIs, Numbers
<1>3. fifoA.task = A /\ fifoC.task = C
  BY <1>1 DEF Typed, TypeOK, FifoType, ConsoleFifo
<1>4. QED
  BY <1>1, <1>2, <1>3 DEF Sched, Chosen, Tasks

\* task_a's FIFO, its length and its chain after a message.
LEMMA FifoAPut ==
    ASSUME Typed, Going, NEW d \in Messages, NEW g, g = fifo32_put(fifoA, d)
    PROVE  /\ g \in FifoType(SizeA, Messages, {A}) /\ Ring(g)
           /\ fifoA.free = 0 => fifo32_status(fifoA) # 0
           /\ d # "cursor" => Chain(A \in armed, InHand(A), g)
           /\ d = "cursor" /\ A \in armed => ~InHand(A) /\ Chain(FALSE, InHand(A), g)
<1>1. /\ fifoA \in FifoType(SizeA, Messages, {A}) /\ Ring(fifoA)
      /\ Chain(A \in armed, InHand(A), fifoA) /\ SizeA \in Nat \ {0}
      /\ (A \in armed) \in BOOLEAN /\ InHand(A) \in BOOLEAN
  <2>1. /\ fifoA \in FifoType(SizeA, Messages, {A}) /\ Ring(fifoA)
        /\ Once(A, fifoA) /\ SizeA \in Nat \ {0}
    BY DEF Typed, TypeOK, Going
  <2>2. Chain(A \in armed, InHand(A), fifoA)
    BY ONLY <2>1, Zenon DEF Once
  <2>3. (A \in armed) \in BOOLEAN /\ InHand(A) \in BOOLEAN
    BY DEF InHand
  <2>4. QED
    BY <2>1, <2>2, <2>3
<1>2. g \in FifoType(SizeA, Messages, {A}) /\ Ring(g)
  BY <1>1, PutRing
<1>3. fifoA.free = 0 => fifo32_status(fifoA) # 0
  BY <1>1 DEF FifoType, fifo32_status
<1>4. d # "cursor" => Chain(A \in armed, InHand(A), g)
  BY <1>1, ChainPut
<1>5. ASSUME d = "cursor", A \in armed PROVE ~InHand(A) /\ Chain(FALSE, InHand(A), g)
  <2>1. PICK held : held = InHand(A)
    OBVIOUS
  <2>2. Chain(TRUE, held, fifoA) /\ held \in BOOLEAN
    BY <1>1, <1>5, <2>1 DEF Chain
  <2>3. ~held /\ Chain(FALSE, held, g)
    BY <1>1, <1>5, <2>2, ChainRings
  <2>4. QED
    BY <2>1, <2>3
<1>6. QED
  BY <1>2, <1>3, <1>4, <1>5

\* A key.
LEMMA KeyStep ==
    ASSUME IInv, NEW key \in {"char", "tab"}, KeyInterrupt(key)
    PROVE  IInv'
<1>0. /\ fault = "none" /\ fault' = "none"
      /\ keys > 0 /\ key \in user.keys /\ keys' = keys - 1
      /\ fifoA' = fifo32_put(fifoA, key)
      /\ taskctl' = WakeFor(taskctl, fifoA)
      /\ cpu' = cpu /\ fifoC' = fifoC /\ armed' = armed /\ pc' = pc /\ hand' = hand
      /\ reg' = reg /\ key_to' = key_to /\ user' = user
  BY DEF KeyInterrupt, Interruptible
<1>1. key \in Messages /\ key # "cursor"
  BY DEF Messages
<1>2. /\ fifoA' \in FifoType(SizeA, Messages, {A}) /\ Ring(fifoA')
      /\ fifoA.free = 0 => fifo32_status(fifoA) # 0
      /\ Chain(A \in armed, InHand(A), fifoA')
  BY <1>0, <1>1, Running, FifoAPut
<1>3. /\ Sched(taskctl') /\ task_now(taskctl') = task_now(taskctl)
      /\ taskctl'.tasks0[C] = taskctl.tasks0[C]
      /\ taskctl'.tasks0[A].flags \in {taskctl.tasks0[A].flags, 2}
      /\ fifoA.free # 0 => taskctl'.tasks0[A].flags = 2
      /\ taskctl'.level[LevelC].running = taskctl.level[LevelC].running
  <2>1. ~(Wakes(fifoA, taskctl.tasks0[A].flags) /\ ListFull(taskctl, A))
    BY <1>0, Running, RoomForA DEF Wakes
  <2>2. QED
    BY <1>0, <2>1, Running, WakeProperties, Numbers
<1>4. Typed'
  <2>1. keys' \in 0 .. user.strokes
    <3>1. keys \in 0 .. user.strokes /\ user \in Users
      BY <1>0, Running DEF Typed, TypeOK
    <3>2. user.strokes \in Nat
      BY <3>1
    <3>3. QED
      BY <1>0, <3>1, <3>2
  <2>2. TypeOK'
    BY <1>0, <1>2, <1>3, <2>1, Running DEF Typed, TypeOK, Sched
  <2>3. QED
    BY <1>0, <2>2, Running DEF Typed
<1>5. Going'
  <2>1. Dispatched'
    BY <1>0, <1>3, Running DEF Going, Dispatched, BetweenLoadAndStore
  <2>2. taskctl'.tasks0[A].flags = 1 => fifo32_status(fifoA') = 0
    <3>1. fifoA.free = 0 => taskctl.tasks0[A].flags = 2
      BY <1>0, <1>2, Running DEF Going, Rested
    <3>2. QED
      BY <1>3, <3>1
  <2>3. Rested'
    BY <1>0, <1>3, <2>2, Running DEF Going, Rested
  <2>4. Once(A, fifoA)'
    BY <1>0, <1>2 DEF Once, InHand
  <2>5. QED
    BY <1>2, <2>1, <2>3, <2>4 DEF Going
<1>6. TypingOnly' => Typing'
  <2> SUFFICES ASSUME TypingOnly PROVE Typing'
    BY <1>0 DEF TypingOnly
  <2>1. Typing /\ key = "char"
    BY <1>0 DEF IInv, TypingOnly
  <2>2. Once(C, fifoC)'
    BY <1>0, <2>1 DEF Typing, Once, InHand
  <2>3. \A i \in DOMAIN Contents(fifoA') : Contents(fifoA')[i] \in {"cursor", "char"}
    <3>1. fifoA \in FifoType(SizeA, Messages, {A}) /\ Ring(fifoA) /\ SizeA \in Nat \ {0}
      BY <1>0, Running DEF Typed, TypeOK, Going
    <3>2. Contents(fifoA') \in {Contents(fifoA), Append(Contents(fifoA), key)}
      BY <1>0, <1>1, <3>1, PutRing
    <3>3. Contents(fifoA) \in Seq(Messages)
      BY <3>1, ContentsType
    <3>4. \A i \in DOMAIN Contents(fifoA) : Contents(fifoA)[i] \in {"cursor", "char"}
      BY <2>1 DEF Typing
    <3>5. PICK s : s = Contents(fifoA)
      OBVIOUS
    <3>6. \A i \in DOMAIN Append(s, key) : Append(s, key)[i] \in {"cursor", "char"}
      BY <1>1, <2>1, <3>3, <3>4, <3>5, TimerAppend
    <3>7. QED
      BY <3>2, <3>4, <3>5, <3>6
  <2>4. ListedOnce(taskctl')
    BY <1>3, <2>1 DEF Typing, ListedOnce
  <2>5. QED
    BY <1>0, <2>1, <2>2, <2>3, <2>4 DEF Typing
<1>7. QED
  BY <1>4, <1>5, <1>6 DEF IInv

\* The console's list has an entry left, and its FIFO its indices in range, as
\* long as the user types into task_a's window.
LEMMA TypingBreaksNothing ==
    ASSUME Typing, Sched(taskctl), fifoC.task = C
    PROVE  Breaks(taskctl, fifoC) = "none"
<1>1. fifoC.write_buf \in DOMAIN fifoC.buf
  BY ConsoleInOrder DEF Typing
<1>2. taskctl.tasks0[C].flags # 2 => ~ListFull(taskctl, C)
  BY DEF Typing, ListedOnce, ListFull, Sched, Tasks
<1>3. QED
  BY <1>1, <1>2 DEF Breaks, Wakes

\* A timer interrupt that breaks nothing: the wake-ups it makes.
LEMMA TimerWakes ==
    ASSUME NEW k0, Sched(k0), NEW f, f.task = A, NEW h, h.task = C,
           NEW up, C \in up => Breaks(k0, h) = "none",
           NEW k1, k1 = IF A \in up THEN WakeFor(k0, f) ELSE k0,
           NEW k2, k2 = IF C \in up THEN WakeFor(k1, h) ELSE k1
    PROVE  /\ Sched(k2) /\ task_now(k2) = task_now(k0)
           /\ k2.tasks0[A].flags \in {k0.tasks0[A].flags, 2}
           /\ A \in up /\ f.free # 0 => k2.tasks0[A].flags = 2
           /\ k2.tasks0[C].flags \in {k0.tasks0[C].flags, 2}
           /\ C \in up /\ h.free # 0 => k2.tasks0[C].flags = 2
           /\ C \notin up => k2.tasks0[C].flags = k0.tasks0[C].flags
           /\ k2.level[LevelC].running =
                  IF C \in up /\ k0.tasks0[C].flags # 2 /\ h.free # 0
                  THEN k0.level[LevelC].running + 1
                  ELSE k0.level[LevelC].running
<1>1. /\ Sched(k1) /\ task_now(k1) = task_now(k0)
      /\ k1.tasks0[C] = k0.tasks0[C]
      /\ k1.tasks0[A].flags \in {k0.tasks0[A].flags, 2}
      /\ A \in up /\ f.free # 0 => k1.tasks0[A].flags = 2
      /\ k1.level[LevelC].running = k0.level[LevelC].running
  <2>1. ~(Wakes(f, k0.tasks0[A].flags) /\ ListFull(k0, A))
    BY RoomForA DEF Wakes
  <2>2. CASE A \in up
    BY <2>1, <2>2, WakeProperties, Numbers
  <2>3. CASE A \notin up
    BY <2>3
  <2>4. QED
    BY <2>2, <2>3
<1>2. CASE C \in up
  <2>1. k1.tasks0[C].level = LevelC /\ k0.tasks0[C].level = LevelC
    BY <1>1 DEF Sched, Tasks
  <2>2. ListFull(k1, C) => ListFull(k0, C)
    BY <1>1, <2>1 DEF ListFull
  <2>3. ~(Wakes(h, k1.tasks0[C].flags) /\ ListFull(k1, C))
    <3>1. h.free # 0 => ~(Wakes(h, k0.tasks0[C].flags) /\ ListFull(k0, C))
      BY <1>2 DEF Breaks
    <3>2. QED
      BY <1>1, <2>2, <3>1 DEF Wakes
  <2>4. /\ Sched(k2) /\ task_now(k2) = task_now(k1)
        /\ k2.tasks0[A] = k1.tasks0[A]
        /\ k2.tasks0[C].flags \in {k1.tasks0[C].flags, 2}
        /\ h.free # 0 => k2.tasks0[C].flags = 2
        /\ k2.level[LevelC].running =
               IF k1.tasks0[C].flags # 2 /\ h.free # 0 THEN k1.level[LevelC].running + 1
               ELSE k1.level[LevelC].running
    BY <1>1, <1>2, <2>3, WakeProperties, Numbers
  <2>5. QED
    BY <1>1, <1>2, <2>4
<1>3. CASE C \notin up
  BY <1>1, <1>3
<1>4. QED
  BY <1>2, <1>3

\* What a timer interrupt does when nothing breaks.
LEMMA TimerEffect ==
    ASSUME IInv, NEW up \in SUBSET armed, NEW slice \in BOOLEAN,
           TimerInterrupt(up, slice), fault' = "none"
    PROVE  /\ Sched(taskctl') /\ task_now(taskctl') = cpu' /\ (cpu = A => cpu' = A)
           /\ taskctl'.tasks0[A].flags \in {taskctl.tasks0[A].flags, 2}
           /\ A \in up /\ fifoA.free # 0 => taskctl'.tasks0[A].flags = 2
           /\ taskctl'.tasks0[C].flags \in {taskctl.tasks0[C].flags, 2}
           /\ C \in up /\ fifoC.free # 0 => taskctl'.tasks0[C].flags = 2
           /\ C \notin up => taskctl'.tasks0[C].flags = taskctl.tasks0[C].flags
           /\ taskctl'.level[LevelC].running =
                  IF C \in up /\ taskctl.tasks0[C].flags # 2 /\ fifoC.free # 0
                  THEN taskctl.level[LevelC].running + 1
                  ELSE taskctl.level[LevelC].running
           /\ C \in up => fifoC.free = 0 \/ fifoC.write_buf \in DOMAIN fifoC.buf
           /\ fifoA' = IF A \in up THEN fifo32_put(fifoA, "cursor") ELSE fifoA
           /\ fifoC' = IF C \in up THEN fifo32_put(fifoC, "cursor") ELSE fifoC
           /\ armed' = armed \ up
<1>0. fault = "none"
  BY DEF TimerInterrupt, Interruptible
<1>1. C \in up => Breaks(taskctl, fifoC) = "none"
  BY DEF TimerInterrupt
<1>2. C \in up => fifoC.free = 0 \/ fifoC.write_buf \in DOMAIN fifoC.buf
  BY <1>1 DEF Breaks
<1>3. PICK k1 : k1 = IF A \in up THEN WakeFor(taskctl, fifoA) ELSE taskctl
  OBVIOUS
<1>4. PICK k2 : k2 = IF C \in up THEN WakeFor(k1, fifoC) ELSE k1
  OBVIOUS
<1>5. /\ taskctl' = IF slice THEN task_switch(k2) ELSE k2
      /\ cpu' = IF slice THEN task_now(taskctl') ELSE cpu
      /\ fifoA' = IF A \in up THEN fifo32_put(fifoA, "cursor") ELSE fifoA
      /\ fifoC' = IF C \in up THEN fifo32_put(fifoC, "cursor") ELSE fifoC
      /\ armed' = armed \ up
  BY <1>3, <1>4 DEF TimerInterrupt
<1>6. /\ Sched(k2) /\ task_now(k2) = task_now(taskctl)
      /\ k2.tasks0[A].flags \in {taskctl.tasks0[A].flags, 2}
      /\ A \in up /\ fifoA.free # 0 => k2.tasks0[A].flags = 2
      /\ k2.tasks0[C].flags \in {taskctl.tasks0[C].flags, 2}
      /\ C \in up /\ fifoC.free # 0 => k2.tasks0[C].flags = 2
      /\ C \notin up => k2.tasks0[C].flags = taskctl.tasks0[C].flags
      /\ k2.level[LevelC].running =
             IF C \in up /\ taskctl.tasks0[C].flags # 2 /\ fifoC.free # 0
             THEN taskctl.level[LevelC].running + 1
             ELSE taskctl.level[LevelC].running
  <2>1. Sched(taskctl) /\ fifoA.task = A /\ fifoC.task = C
    BY <1>0, Running
  <2>2. QED
    BY ONLY <1>1, <1>3, <1>4, <2>1, TimerWakes
<1>7. task_now(taskctl) = cpu
  BY <1>0, Running DEF Going, Dispatched
<1>8. CASE slice
  <2>1. taskctl' = task_switch(k2) /\ cpu' = task_now(taskctl')
    BY <1>5, <1>8
  <2>2. /\ Sched(taskctl') /\ taskctl'.tasks0 = k2.tasks0
        /\ taskctl'.level[LevelC].running = k2.level[LevelC].running
        /\ task_now(k2) = A => task_now(taskctl') = A
    BY <1>6, <2>1, SwitchProperties
  <2>3. QED
    BY <1>2, <1>5, <1>6, <1>7, <2>1, <2>2
<1>9. CASE ~slice
  <2>1. taskctl' = k2 /\ cpu' = cpu
    BY <1>5, <1>9
  <2>2. QED
    BY <1>2, <1>5, <1>6, <1>7, <2>1
<1>10. QED
  BY <1>8, <1>9

\* A timer interrupt.
LEMMA TimerStep ==
    ASSUME IInv, NEW up \in SUBSET armed, NEW slice \in BOOLEAN,
           TimerInterrupt(up, slice)
    PROVE  IInv'
<1>0. /\ fault = "none" /\ (fault' = "none" \/ C \in up)
      /\ pc' = pc /\ hand' = hand /\ reg' = reg /\ key_to' = key_to /\ user' = user
      /\ keys' = keys
  BY DEF TimerInterrupt, Interruptible
<1>1. CASE fault' # "none"
  <2>1. /\ fault' = Breaks(taskctl, fifoC)
        /\ UNCHANGED <<taskctl, cpu, fifoA, fifoC, armed>>
    BY <1>1 DEF TimerInterrupt
  <2>2. Typed'
    BY <1>0, <1>1, <2>1, Running DEF Typed, TypeOK
  <2>3. ~TypingOnly
    BY <1>0, <1>1, <2>1, Running, TypingBreaksNothing DEF IInv
  <2>4. QED
    BY <1>0, <1>1, <2>2, <2>3 DEF IInv, TypingOnly
<1>2. CASE fault' = "none"
  <2>1. /\ Sched(taskctl') /\ task_now(taskctl') = cpu' /\ (cpu = A => cpu' = A)
        /\ taskctl'.tasks0[A].flags \in {taskctl.tasks0[A].flags, 2}
        /\ A \in up /\ fifoA.free # 0 => taskctl'.tasks0[A].flags = 2
        /\ taskctl'.tasks0[C].flags \in {taskctl.tasks0[C].flags, 2}
        /\ C \in up /\ fifoC.free # 0 => taskctl'.tasks0[C].flags = 2
        /\ C \notin up => taskctl'.tasks0[C].flags = taskctl.tasks0[C].flags
        /\ taskctl'.level[LevelC].running =
               IF C \in up /\ taskctl.tasks0[C].flags # 2 /\ fifoC.free # 0
               THEN taskctl.level[LevelC].running + 1
               ELSE taskctl.level[LevelC].running
        /\ C \in up => fifoC.free = 0 \/ fifoC.write_buf \in DOMAIN fifoC.buf
        /\ fifoA' = IF A \in up THEN fifo32_put(fifoA, "cursor") ELSE fifoA
        /\ fifoC' = IF C \in up THEN fifo32_put(fifoC, "cursor") ELSE fifoC
        /\ armed' = armed \ up
    BY <1>2, TimerEffect
  <2>2. "cursor" \in Messages
    BY DEF Messages
  <2>3. /\ fifoA' \in FifoType(SizeA, Messages, {A}) /\ Ring(fifoA')
        /\ A \in up /\ fifoA.free = 0 => fifo32_status(fifoA) # 0
        /\ Once(A, fifoA)'
    <3>1. Typed /\ Going
      BY <1>0, Running
    <3>2. CASE A \in up
      <4>1. /\ fifoA' \in FifoType(SizeA, Messages, {A}) /\ Ring(fifoA')
            /\ fifoA.free = 0 => fifo32_status(fifoA) # 0
            /\ ~InHand(A) /\ Chain(FALSE, InHand(A), fifoA')
        BY <2>1, <2>2, <3>1, <3>2, FifoAPut
      <4>2. A \notin armed' /\ (InHand(A)' <=> InHand(A))
        BY <1>0, <2>1, <3>2 DEF InHand
      <4>3. Once(A, fifoA)'
        BY <4>1, <4>2 DEF Once, Chain
      <4>4. QED
        BY <4>1, <4>3
    <3>3. CASE A \notin up
      <4>1. fifoA' = fifoA /\ (A \in armed' <=> A \in armed)
        BY <2>1, <3>3
      <4>2. Once(A, fifoA)'
        BY <1>0, <3>1, <4>1 DEF Going, Once, Chain, InHand
      <4>3. QED
        BY <3>1, <3>3, <4>1, <4>2 DEF Typed, TypeOK, Going
    <3>4. QED
      BY <3>2, <3>3
  <2>4. /\ fifoC' \in ConsoleFifo
        /\ fifoC'.write_buf = SizeC => fifoC.write_buf = SizeC
    <3>1. fifoC \in ConsoleFifo
      BY <1>0, Running DEF Typed
    <3>2. QED
      BY <2>1, <2>2, <3>1, ConsolePut
  <2>5. Typed'
    <3>1. cpu' \in {A, C, Idle}
      BY <2>1, NowIs
    <3>2. TypeOK'
      BY <1>0, <2>1, <2>3, <3>1, Running DEF Typed, TypeOK, Sched
    <3>3. QED
      BY <1>0, <1>2, <2>4, <3>2, Running DEF Typed
  <2>6. Going'
    <3>1. Dispatched'
      <4>1. /\ pc[A] # "slept" => cpu = A
            /\ pc[A] = "add_store" => BetweenLoadAndStore(taskctl, reg.eax)
            /\ pc[A] = "add_flags" => taskctl.level[LevelC].running > 0
        BY <1>0, Running DEF Going, Dispatched
      <4>2. \/ taskctl'.level[LevelC].running = taskctl.level[LevelC].running
            \/ /\ taskctl'.level[LevelC].running = taskctl.level[LevelC].running + 1
               /\ taskctl.tasks0[C].flags # 2 /\ taskctl'.tasks0[C].flags = 2
        BY <2>1
      <4>3. taskctl.tasks0[C].flags = 2 => taskctl'.tasks0[C].flags = 2
        BY <2>1
      <4>4. taskctl.level[LevelC].running \in Nat
        BY <1>0, Running, Fields, Numbers DEF Sched
      <4>5. pc[A] = "add_store" => BetweenLoadAndStore(taskctl', reg.eax)
        BY <4>1, <4>2, <4>3 DEF BetweenLoadAndStore
      <4>6. pc[A] = "add_flags" => taskctl'.level[LevelC].running > 0
        <5>1. PICK n : n = taskctl.level[LevelC].running
          OBVIOUS
        <5>2. taskctl'.level[LevelC].running \in {n, n + 1} /\ n \in Nat
          BY <4>2, <4>4, <5>1
        <5>3. n > 0 => taskctl'.level[LevelC].running > 0
          BY ONLY <5>2
        <5>4. QED
          BY ONLY <4>1, <5>1, <5>3
      <4>7. QED
        BY <1>0, <2>1, <4>1, <4>5, <4>6 DEF Dispatched
    <3>2. taskctl'.tasks0[A].flags = 1 => fifo32_status(fifoA') = 0
      BY <1>0, <2>1, <2>3, Running DEF Going, Rested
    <3>3. taskctl'.tasks0[C].flags = 1 => fifo32_status(fifoC') = 0 \/ pc'[A] \in Waking
      <4>1. C \in up /\ fifoC.free = 0 => fifo32_status(fifoC') = fifo32_status(fifoC)
        BY <1>0, <2>1, Running DEF fifo32_put, fifo32_status, ConsoleFifo, Typed
      <4>2. QED
        BY <1>0, <2>1, <4>1, Running DEF Going, Rested
    <3>4. QED
      BY <2>3, <3>1, <3>2, <3>3 DEF Going, Rested
  <2>7. TypingOnly' => Typing'
    <3> SUFFICES ASSUME TypingOnly PROVE Typing'
      BY <1>0 DEF TypingOnly
    <3>1. Typing
      BY DEF IInv
    <3>2. /\ fifoC' \in FifoType(SizeC, Messages, {C}) /\ Ring(fifoC')
          /\ Once(C, fifoC)'
      <4>1. /\ fifoC \in FifoType(SizeC, Messages, {C}) /\ Ring(fifoC) /\ SizeC \in Nat \ {0}
            /\ Once(C, fifoC)
        BY <3>1 DEF Typing
      <4>2. CASE C \in up
        <5>1. fifoC' = fifo32_put(fifoC, "cursor") /\ C \in armed /\ C \notin armed'
          BY <2>1, <4>2
        <5>2. PICK held : held = InHand(C)
          OBVIOUS
        <5>3. held \in BOOLEAN
          BY <5>2 DEF InHand
        <5>4. Chain(TRUE, held, fifoC)
          BY <4>1, <5>1, <5>2 DEF Once, Chain
        <5>5. ~held /\ Chain(FALSE, held, fifoC')
          BY <4>1, <5>1, <5>3, <5>4, ChainRings
        <5>6. ~InHand(C)'
          BY <1>0, <5>2, <5>5 DEF InHand
        <5>7. Once(C, fifoC)'
          BY <5>1, <5>5, <5>6 DEF Once, Chain
        <5>8. QED
          BY <2>2, <4>1, <5>1, <5>7, PutRing
      <4>3. CASE C \notin up
        BY <1>0, <2>1, <4>1, <4>3 DEF Once, Chain, InHand
      <4>4. QED
        BY <4>2, <4>3
    <3>3. \A i \in DOMAIN Contents(fifoA') : Contents(fifoA')[i] \in {"cursor", "char"}
      <4>1. fifoA \in FifoType(SizeA, Messages, {A}) /\ Ring(fifoA) /\ SizeA \in Nat \ {0}
        BY <1>0, Running DEF Typed, TypeOK, Going
      <4>2. Contents(fifoA') \in {Contents(fifoA), Append(Contents(fifoA), "cursor")}
        BY <2>1, <2>2, <4>1, PutRing
      <4>3. Contents(fifoA) \in Seq(Messages)
        BY <4>1, ContentsType
      <4>4. \A i \in DOMAIN Contents(fifoA) : Contents(fifoA)[i] \in {"cursor", "char"}
        BY <3>1 DEF Typing
      <4>5. PICK s : s = Contents(fifoA)
        OBVIOUS
      <4>6. \A i \in DOMAIN Append(s, "cursor") : Append(s, "cursor")[i] \in {"cursor", "char"}
        BY <2>2, <4>3, <4>4, <4>5, TimerAppend
      <4>7. QED
        BY <4>2, <4>4, <4>5, <4>6
    <3>4. ListedOnce(taskctl')
      <4>1. fifoC.free = 0 => taskctl.tasks0[C].flags = 2
        <5>1. fifoC.free = 0 => fifo32_status(fifoC) # 0
          <6>1. fifoC.size = SizeC /\ SizeC # 0
            BY <1>0, Running DEF Typed, ConsoleFifo
          <6>2. QED
            BY <6>1 DEF fifo32_status
        <5>2. pc[A] \notin Waking
          BY <3>1 DEF Typing, Places, Waking
        <5>3. QED
          BY <1>0, <5>1, <5>2, Running DEF Going, Rested
      <4>2. QED
        <5>1. /\ taskctl.tasks0[C].flags \in {1, 2}
              /\ taskctl.level[LevelC].running = IF taskctl.tasks0[C].flags = 2 THEN 1 ELSE 0
          BY <1>0, <3>1, Running DEF Typing, ListedOnce
        <5>2. /\ taskctl'.tasks0[C].flags \in {taskctl.tasks0[C].flags, 2}
              /\ C \in up /\ fifoC.free # 0 => taskctl'.tasks0[C].flags = 2
              /\ C \notin up => taskctl'.tasks0[C].flags = taskctl.tasks0[C].flags
          BY <2>1
        <5>3. CASE C \in up /\ taskctl.tasks0[C].flags # 2
          BY <2>1, <4>1, <5>1, <5>2, <5>3 DEF ListedOnce
        <5>4. CASE ~(C \in up /\ taskctl.tasks0[C].flags # 2)
          <6>1. taskctl'.level[LevelC].running = taskctl.level[LevelC].running
            BY <2>1, <5>4
          <6>2. taskctl'.tasks0[C].flags = taskctl.tasks0[C].flags
            BY <5>1, <5>2, <5>4
          <6>3. QED
            BY <5>1, <6>1, <6>2 DEF ListedOnce
        <5>5. QED
          BY <5>3, <5>4
    <3>5. QED
      BY <1>0, <1>2, <3>1, <3>2, <3>3, <3>4 DEF Typing
  <2>8. QED
    BY <2>5, <2>6, <2>7 DEF IInv
<1>3. QED
  BY <1>1, <1>2

\* A place in the loops.
LEMMA GoesTo ==
    ASSUME Typed, NEW t \in {A, C}, NEW w \in Places, Goto(t, w)
    PROVE  /\ pc' \in [{A, C} -> Places \cup PutPlaces] /\ pc'[t] = w
           /\ \A u \in {A, C} \ {t} : pc'[u] = pc[u]
           /\ pc'[C] \in Places
BY DEF Typed, Goto

\* A task goes to sleep.
LEMMA SleepStep ==
    ASSUME IInv, NEW t \in {A, C}, NEW f, f = IF t = A THEN fifoA ELSE fifoC,
           GoToSleep(t, f)
    PROVE  IInv'
<1>0. /\ fault = "none" /\ cpu = t /\ pc[t] = "loop"
      /\ fifo32_status(f) = 0
      /\ taskctl' = task_sleep(taskctl, t)
      /\ cpu' = task_now(taskctl')
      /\ fault' = IF cpu' = t THEN "far_jump_to_itself" ELSE fault
      /\ Goto(t, "slept")
      /\ UNCHANGED <<fifoA, fifoC, armed, hand, reg, key_to, user, keys>>
  BY DEF GoToSleep, Runs, MaySleep
<1>1. /\ pc' \in [{A, C} -> Places \cup PutPlaces] /\ pc'[t] = "slept"
      /\ \A u \in {A, C} \ {t} : pc'[u] = pc[u]
      /\ pc'[C] \in Places
  BY <1>0, Running, GoesTo DEF Places
<1>2. pc'[A] = "slept" /\ (t = C => pc[A] = "slept")
  BY <1>0, <1>1, Running, Numbers
<1>3. CASE taskctl.tasks0[t].flags = 2
  <2>1. /\ Sched(taskctl')
        /\ taskctl'.tasks0[t].flags = 1
        /\ \A u \in Task \ {t} : taskctl'.tasks0[u] = taskctl.tasks0[u]
        /\ taskctl'.level[LevelC].running = IF t = C THEN taskctl.level[LevelC].running - 1
                                            ELSE taskctl.level[LevelC].running
        /\ taskctl'.level[LevelC].running = 0 => task_now(taskctl') # C
        /\ taskctl'.tasks0[A].flags = 1 => task_now(taskctl') # A
    <3>1. Sched(taskctl) /\ task_now(taskctl) = t
      BY <1>0, Running DEF Going, Dispatched
    <3>2. taskctl' = task_sleep(taskctl, t) /\ t \in {A, C}
      BY <1>0
    <3>3. QED
      BY ONLY <1>3, <3>1, <3>2, SleepProperties
  <2>2. Typed'
    <3>1. cpu' \in {A, C, Idle}
      BY <1>0, <2>1, NowIs
    <3>2. TypeOK'
      BY <1>0, <2>1, <3>1, Running DEF Typed, TypeOK, Sched
    <3>3. fifoC'.write_buf # SizeC
      BY <1>0, <1>2, Running DEF Typed
    <3>4. QED
      BY <1>0, <1>1, <1>2, <3>2, <3>3, Running DEF Typed
  <2>3. Dispatched'
    BY <1>0, <1>2, <2>1 DEF Dispatched
  <2>4. Rested'
    <3>1. CASE t = A
      <4>1. taskctl'.tasks0[C] = taskctl.tasks0[C] /\ pc[A] \notin Waking
        BY <1>0, <2>1, <3>1, Numbers DEF Waking
      <4>2. QED
        BY <1>0, <3>1, <4>1, Running DEF Going, Rested
    <3>2. CASE t = C
      <4>1. taskctl'.tasks0[A] = taskctl.tasks0[A] /\ f = fifoC
        BY <2>1, <3>2, Numbers
      <4>2. QED
        BY <1>0, <3>2, <4>1, Running DEF Going, Rested
    <3>3. QED
      BY <3>1, <3>2
  <2>5. ~InHand(t) /\ ~InHand(t)' /\ \A u \in {A, C} \ {t} : InHand(u)' <=> InHand(u)
    BY <1>0, <1>1 DEF InHand
  <2>6. /\ Once(A, fifoA) => Once(A, fifoA)'
        /\ Once(C, fifoC) => Once(C, fifoC)'
    BY <1>0, <2>5 DEF Once, Chain
  <2>7. Going'
    BY <1>0, <2>3, <2>4, <2>6, Running DEF Going
  <2>8. TypingOnly' => Typing'
    <3> SUFFICES ASSUME TypingOnly PROVE Typing'
      BY <1>0 DEF TypingOnly
    <3>1. Typing
      BY DEF IInv
    <3>2. ListedOnce(taskctl')
      BY <1>3, <2>1, <3>1, Numbers DEF Typing, ListedOnce
    <3>3. cpu' # t
      <4>1. CASE t = A
        BY <1>0, <2>1, <4>1
      <4>2. CASE t = C
        <5>1. taskctl'.tasks0[C].flags = 1
          BY <2>1, <4>2
        <5>2. taskctl'.level[LevelC].running = 0
          BY <3>2, <5>1 DEF ListedOnce
        <5>3. QED
          BY <1>0, <2>1, <4>2, <5>2
      <4>3. QED
        BY <4>1, <4>2
    <3>4. QED
      BY <1>0, <1>2, <2>6, <3>1, <3>2, <3>3 DEF Typing, Places
  <2>9. QED
    BY <2>2, <2>7, <2>8 DEF IInv
<1>4. CASE taskctl.tasks0[t].flags # 2
  <2>1. t = C /\ taskctl' = taskctl
    BY <1>0, <1>4, Running DEF task_sleep
  <2>2. cpu' = cpu /\ fault' # "none"
    BY <1>0, <2>1, Running DEF Going, Dispatched
  <2>3. fifoC'.write_buf # SizeC
    BY <1>0, <1>2, Running DEF Typed
  <2>4. Typed'
    <3>1. TypeOK'
      BY <1>0, <2>1, <2>2, Running DEF Typed, TypeOK
    <3>2. QED
      BY <1>0, <1>1, <1>2, <2>3, <3>1, Running DEF Typed
  <2>5. ~TypingOnly
    <3>1. taskctl.level[LevelC].running > 0 /\ ~(taskctl.tasks0[C].flags = 2)
      BY <1>0, <1>4, <2>1, Running
    <3>2. QED
      BY <3>1 DEF IInv, Typing, ListedOnce
  <2>6. QED
    BY <1>0, <2>2, <2>4, <2>5 DEF IInv, TypingOnly
<1>5. QED
  BY <1>3, <1>4

\* A task whose FIFO is read or whose turn ends: what the scheduler knows stays.
LEMMA LoopStays ==
    ASSUME IInv, fault = "none", NEW t \in {A, C}, cpu = t, pc[t] \in Places,
           NEW w \in Places, Goto(t, w),
           UNCHANGED <<taskctl, cpu, reg, key_to, user, keys>>
    PROVE  /\ Dispatched'
           /\ pc' \in [{A, C} -> Places \cup PutPlaces] /\ pc'[t] = w
           /\ \A u \in {A, C} \ {t} : pc'[u] = pc[u]
           /\ pc[A] \in Places /\ pc'[A] \in Places /\ pc'[C] \in Places
           /\ fifoC.write_buf # SizeC
           /\ taskctl.tasks0[t].flags = 1 => t = C /\ fifo32_status(fifoC) = 0
<1>1. /\ pc' \in [{A, C} -> Places \cup PutPlaces] /\ pc'[t] = w
      /\ \A u \in {A, C} \ {t} : pc'[u] = pc[u]
      /\ pc'[C] \in Places
  BY Running, GoesTo
<1>2. t = C => pc[A] = "slept" /\ pc'[A] = "slept"
  BY <1>1, Running, Numbers
<1>3. pc[A] \in Places /\ pc'[A] \in Places
  BY <1>1, <1>2 DEF Places
<1>4. Dispatched'
  BY <1>1, <1>2, <1>3, Running DEF Going, Dispatched, Places
<1>5. fifoC.write_buf # SizeC
  BY <1>3, Running DEF Typed, Places
<1>6. taskctl.tasks0[t].flags = 1 => t = C /\ fifo32_status(fifoC) = 0
  <2>1. pc[A] \notin Waking
    BY <1>3 DEF Places, Waking
  <2>2. QED
    BY <2>1, Running DEF Going, Rested
<1>7. QED
  BY <1>1, <1>3, <1>4, <1>5, <1>6

\* A task is back from its sleep, or has drawn: no FIFO and no timer changes.
LEMMA QuietStep ==
    ASSUME IInv, fault = "none", NEW t \in {A, C}, cpu = t, pc[t] \in Places, ~InHand(t),
           Goto(t, "loop"),
           UNCHANGED <<taskctl, cpu, fifoA, fifoC, armed, hand, reg, key_to, user, keys, fault>>
    PROVE  IInv'
<1>1. /\ Dispatched'
      /\ pc' \in [{A, C} -> Places \cup PutPlaces] /\ pc'[t] = "loop"
      /\ \A u \in {A, C} \ {t} : pc'[u] = pc[u]
      /\ pc[A] \in Places /\ pc'[A] \in Places /\ pc'[C] \in Places
      /\ fifoC.write_buf # SizeC
  BY LoopStays DEF Places
<1>2. ~InHand(t) /\ ~InHand(t)' /\ \A u \in {A, C} \ {t} : InHand(u)' <=> InHand(u)
  BY <1>1 DEF InHand
<1>3. /\ Once(A, fifoA) => Once(A, fifoA)'
      /\ Once(C, fifoC) => Once(C, fifoC)'
  BY <1>2 DEF Once, Chain
<1>4. Rested'
  <2>1. pc[A] \notin Waking
    BY <1>1 DEF Places, Waking
  <2>2. QED
    BY <2>1, Running DEF Going, Rested
<1>5. Going'
  BY <1>1, <1>3, <1>4, Running DEF Going
<1>6. Typed'
  <2>1. TypeOK'
    BY Running DEF Typed, TypeOK
  <2>2. pc'[A] # "put_index"
    BY <1>1 DEF Places
  <2>3. QED
    BY <1>1, <2>1, <2>2, Running DEF Typed
<1>7. TypingOnly' => Typing'
  <2> SUFFICES ASSUME TypingOnly PROVE Typing'
    BY DEF TypingOnly
  <2>1. Typing
    BY DEF IInv
  <2>2. pc'[A] = "handle" => pc[A] = "handle"
    BY <1>1
  <2>3. QED
    BY <1>1, <1>3, <2>1, <2>2 DEF Typing
<1>8. QED
  BY <1>5, <1>6, <1>7 DEF IInv

\* task_sleep returns.
LEMMA WakeUpStep ==
    ASSUME IInv, NEW t \in {A, C}, WakeUp(t)
    PROVE  IInv'
<1>1. pc[t] \in Places /\ ~InHand(t)
  BY DEF WakeUp, Runs, Places, InHand
<1>2. QED
  BY <1>1, QuietStep DEF WakeUp, Runs

\* A message that only draws.
LEMMA DrawStep ==
    ASSUME IInv, NEW t \in {A, C}, Draw(t)
    PROVE  IInv'
<1>1. pc[t] \in Places /\ ~InHand(t)
  BY DEF Draw, Runs, Places, InHand
<1>2. QED
  BY <1>1, QuietStep DEF Draw, Runs

\* task_a takes a message.
LEMMA ReadAStep ==
    ASSUME IInv, ReadA
    PROVE  IInv'
<1>0. /\ fault = "none" /\ cpu = A /\ pc[A] = "loop"
      /\ fifo32_status(fifoA) # 0
      /\ hand' = [hand EXCEPT ![A] = GetReturns(fifoA)]
      /\ fifoA' = fifo32_get(fifoA)
      /\ Goto(A, "handle")
      /\ UNCHANGED <<taskctl, cpu, fifoC, armed, reg, key_to, user, keys, fault>>
  BY DEF ReadA, Runs
<1>1. /\ Dispatched'
      /\ pc' \in [{A, C} -> Places \cup PutPlaces] /\ pc'[A] = "handle"
      /\ pc'[C] = pc[C]
      /\ pc'[C] \in Places /\ fifoC.write_buf # SizeC
      /\ taskctl.tasks0[A].flags # 1
  <2>1. pc[A] \in Places /\ "handle" \in Places /\ A # C
    BY <1>0, Numbers DEF Places
  <2>2. QED
    BY <1>0, <2>1, LoopStays
<1>2. /\ fifoA \in FifoType(SizeA, Messages, {A}) /\ Ring(fifoA) /\ SizeA \in Nat \ {0}
      /\ Once(A, fifoA) /\ fifo32_status(fifoA) > 0
  <2>1. fifoA \in FifoType(SizeA, Messages, {A}) /\ Ring(fifoA) /\ Once(A, fifoA)
    BY <1>0, Running DEF Typed, TypeOK, Going
  <2>2. QED
    BY <1>0, <2>1 DEF FifoType, fifo32_status
<1>3. PICK m : m = GetReturns(fifoA)
  OBVIOUS
<1>4. /\ fifoA' \in FifoType(SizeA, Messages, {A}) /\ Ring(fifoA') /\ m \in Messages
      /\ Contents(fifoA) # << >> /\ m = Head(Contents(fifoA))
      /\ Contents(fifoA') = Tail(Contents(fifoA))
  BY <1>0, <1>2, <1>3, GetRing
<1>5. hand' \in [{A, C} -> Messages] /\ hand'[A] = m /\ hand'[C] = hand[C]
  BY <1>0, <1>3, <1>4, Running, Numbers DEF Typed, TypeOK
<1>6. Once(A, fifoA)'
  <2>0. (A \in armed) \in BOOLEAN
    OBVIOUS
  <2>1. PICK set \in BOOLEAN : set = (A \in armed)
    BY <2>0, Zenon
  <2>2. Chain(set, FALSE, fifoA)
    BY <1>0, <1>2, <2>1 DEF Once, Chain, InHand
  <2>3. Chain(set, m = "cursor", fifoA')
    BY <1>0, <1>2, <1>3, <2>2, ChainGet
  <2>4. (InHand(A)' <=> m = "cursor") /\ (A \in armed' <=> set)
    BY <1>0, <1>1, <1>5, <2>1 DEF InHand
  <2>5. QED
    BY <2>3, <2>4 DEF Once, Chain
<1>7. Typed'
  <2>1. TypeOK'
    BY <1>0, <1>4, <1>5, Running DEF Typed, TypeOK
  <2>2. QED
    BY <1>0, <1>1, <2>1, Running DEF Typed
<1>8. Going'
  <2>1. Rested'
    BY <1>0, <1>1, Running DEF Going, Rested, Waking
  <2>2. QED
    BY <1>1, <1>4, <1>6, <2>1 DEF Going
<1>9. TypingOnly' => Typing'
  <2> SUFFICES ASSUME TypingOnly PROVE Typing'
    BY <1>0 DEF TypingOnly
  <2>1. Typing
    BY DEF IInv
  <2>2. /\ m \in {"cursor", "char"}
        /\ \A i \in DOMAIN Contents(fifoA') : Contents(fifoA')[i] \in {"cursor", "char"}
    <3>1. PICK s : s = Contents(fifoA)
      OBVIOUS
    <3>2. s \in Seq(Messages) /\ s # << >> /\ \A i \in DOMAIN s : s[i] \in {"cursor", "char"}
      BY <1>2, <1>4, <2>1, <3>1, ContentsType DEF Typing
    <3>3. /\ Head(s) = s[1] /\ 1 \in DOMAIN s
          /\ \A i \in DOMAIN Tail(s) : i + 1 \in DOMAIN s /\ Tail(s)[i] = s[i + 1]
      BY <3>2, TimerTail
    <3>4. QED
      BY <1>4, <3>1, <3>2, <3>3
  <2>3. Once(C, fifoC)'
    BY <1>0, <1>1, <1>5, <2>1 DEF Typing, Once, Chain, InHand
  <2>4. QED
    BY <1>0, <1>1, <1>5, <2>1, <2>2, <2>3 DEF Typing, Places
<1>10. QED
  BY <1>7, <1>8, <1>9 DEF IInv

\* The console takes a message.
LEMMA ReadCStep ==
    ASSUME IInv, ReadC
    PROVE  IInv'
<1>0. /\ fault = "none" /\ cpu = C /\ pc[C] = "loop"
      /\ fifo32_status(fifoC) # 0
      /\ hand' = [hand EXCEPT ![C] = GetReturns(fifoC)]
      /\ fifoC' = fifo32_get(fifoC)
      /\ Goto(C, "handle")
      /\ UNCHANGED <<taskctl, cpu, fifoA, armed, reg, key_to, user, keys, fault>>
  BY DEF ReadC, Runs
<1>1. /\ Dispatched'
      /\ pc' \in [{A, C} -> Places \cup PutPlaces] /\ pc'[C] = "handle"
      /\ pc'[A] = pc[A] /\ pc[A] \in Places
      /\ fifoC.write_buf # SizeC
      /\ taskctl.tasks0[C].flags # 1
  <2>1. pc[C] \in Places /\ "handle" \in Places /\ A # C
    BY <1>0, Numbers DEF Places
  <2>2. QED
    BY <1>0, <2>1, LoopStays
<1>2. /\ fifoC' \in ConsoleFifo /\ fifoC'.write_buf = fifoC.write_buf
      /\ GetReturns(fifoC) \in Messages
  <2>1. fifoC \in ConsoleFifo
    BY <1>0, Running DEF Typed
  <2>2. QED
    BY <1>0, <2>1, ConsoleGet
<1>3. hand' \in [{A, C} -> Messages] /\ hand'[C] = GetReturns(fifoC) /\ hand'[A] = hand[A]
  BY <1>0, <1>2, Running, Numbers DEF Typed, TypeOK
<1>4. Typed'
  <2>1. TypeOK'
    BY <1>0, <1>3, Running DEF Typed, TypeOK
  <2>2. QED
    BY <1>0, <1>1, <1>2, <2>1, Running DEF Typed, Places
<1>5. Going'
  <2>1. Rested'
    BY <1>0, <1>1, Running DEF Going, Rested
  <2>2. Once(A, fifoA)'
    BY <1>0, <1>1, <1>3, Running DEF Going, Once, Chain, InHand
  <2>3. QED
    BY <1>0, <1>1, <2>1, <2>2, Running DEF Going
<1>6. TypingOnly' => Typing'
  <2> SUFFICES ASSUME TypingOnly PROVE Typing'
    BY <1>0 DEF TypingOnly
  <2>1. Typing
    BY DEF IInv
  <2>2. /\ fifoC \in FifoType(SizeC, Messages, {C}) /\ Ring(fifoC) /\ SizeC \in Nat \ {0}
        /\ Once(C, fifoC) /\ fifo32_status(fifoC) > 0
    <3>1. fifoC \in FifoType(SizeC, Messages, {C}) /\ Ring(fifoC) /\ Once(C, fifoC)
      BY <2>1 DEF Typing
    <3>2. QED
      BY <1>0, <3>1 DEF FifoType, fifo32_status
  <2>3. fifoC' \in FifoType(SizeC, Messages, {C}) /\ Ring(fifoC')
    BY <1>0, <2>2, GetRing
  <2>4. Once(C, fifoC)'
    <3>0. (C \in armed) \in BOOLEAN
      OBVIOUS
    <3>1. PICK set \in BOOLEAN : set = (C \in armed)
      BY <3>0, Zenon
    <3>2. Chain(set, FALSE, fifoC)
      BY <1>0, <2>2, <3>1 DEF Once, Chain, InHand
    <3>3. PICK m : m = GetReturns(fifoC)
      OBVIOUS
    <3>4. Chain(set, m = "cursor", fifoC')
      BY <1>0, <2>2, <3>2, <3>3, ChainGet
    <3>5. (InHand(C)' <=> m = "cursor") /\ (C \in armed' <=> set)
      BY <1>0, <1>1, <1>3, <3>1, <3>3 DEF InHand
    <3>6. QED
      BY <3>4, <3>5 DEF Once, Chain
  <2>5. QED
    BY <1>0, <1>1, <1>3, <2>1, <2>3, <2>4 DEF Typing
<1>7. QED
  BY <1>4, <1>5, <1>6 DEF IInv

\* A task sets its cursor timer.
LEMMA SetTimerStep ==
    ASSUME IInv, NEW t \in {A, C}, SetCursorTimer(t)
    PROVE  IInv'
<1>0. /\ fault = "none" /\ cpu = t /\ pc[t] = "handle"
      /\ hand[t] = "cursor"
      /\ fault' = IF t \in armed THEN "timer_linked_twice" ELSE fault
      /\ armed' = armed \cup {t}
      /\ Goto(t, "loop")
      /\ UNCHANGED <<taskctl, cpu, fifoA, fifoC, hand, reg, key_to, user, keys>>
  BY DEF SetCursorTimer, Runs
<1>1. /\ Dispatched'
      /\ pc' \in [{A, C} -> Places \cup PutPlaces] /\ pc'[t] = "loop"
      /\ \A u \in {A, C} \ {t} : pc'[u] = pc[u]
      /\ pc[A] \in Places /\ pc'[A] \in Places /\ pc'[C] \in Places
      /\ fifoC.write_buf # SizeC
  <2>1. pc[t] \in Places /\ "loop" \in Places
    BY <1>0 DEF Places
  <2>2. QED
    BY <1>0, <2>1, LoopStays
<1>2. InHand(t) /\ ~InHand(t)' /\ \A u \in {A, C} \ {t} : InHand(u)' <=> InHand(u)
  BY <1>0, <1>1 DEF InHand
<1>3. /\ Once(A, fifoA) => Once(A, fifoA)' /\ (t = A => t \notin armed)
      /\ Once(C, fifoC) => Once(C, fifoC)' /\ (t = C => t \notin armed)
  BY <1>0, <1>2, Numbers DEF Once, Chain
<1>4. Rested'
  <2>1. pc[A] \notin Waking
    BY <1>1 DEF Places, Waking
  <2>2. QED
    BY <1>0, <2>1, Running DEF Going, Rested
<1>5. Going'
  BY <1>0, <1>1, <1>3, <1>4, Running DEF Going
<1>6. Typed'
  <2>1. TypeOK'
    BY <1>0, Running DEF Typed, TypeOK
  <2>2. pc'[A] # "put_index"
    BY <1>1 DEF Places
  <2>3. QED
    BY <1>0, <1>1, <2>1, <2>2, Running DEF Typed
<1>7. TypingOnly' => Typing'
  <2> SUFFICES ASSUME TypingOnly PROVE Typing'
    BY <1>0 DEF TypingOnly
  <2>1. Typing
    BY DEF IInv
  <2>2. pc'[A] = "handle" => pc[A] = "handle"
    BY <1>1
  <2>3. fault' = "none"
    BY <1>0, <1>3, <2>1, Running DEF Typing, Going
  <2>4. QED
    BY <1>0, <1>1, <1>3, <2>1, <2>2, <2>3 DEF Typing
<1>8. QED
  BY <1>5, <1>6, <1>7 DEF IInv

-----------------------------------------------------------------------------
(* The put of task_a's into the console's FIFO.                             *)

\* A step of it: no handler runs in between, task_a keeps the processor.
LEMMA PutStays ==
    ASSUME IInv, fault = "none", cpu = A, pc[A] \notin {"loop", "slept"},
           NEW w \in Places \cup PutPlaces, Goto(A, w),
           UNCHANGED <<cpu, fifoA, armed, user, keys>>
    PROVE  /\ pc' \in [{A, C} -> Places \cup PutPlaces] /\ pc'[A] = w /\ pc'[C] = pc[C]
           /\ pc'[C] \in Places
           /\ taskctl.tasks0[A].flags = 2
           /\ w # "handle" /\ ~InHand(A) => Once(A, fifoA)'
<1>1. /\ pc' \in [{A, C} -> Places \cup PutPlaces] /\ pc'[A] = w /\ pc'[C] = pc[C]
      /\ pc'[C] \in Places
  BY Running, Numbers DEF Typed, Goto
<1>2. taskctl.tasks0[A].flags = 2
  BY Running
<1>3. ASSUME w # "handle", ~InHand(A) PROVE Once(A, fifoA)'
  <2>1. ~InHand(A)'
    BY <1>1, <1>3 DEF InHand
  <2>2. QED
    BY <1>3, <2>1, Running DEF Going, Once, Chain
<1>4. QED
  BY <1>1, <1>2, <1>3

\* A step of it that leaves the scheduler's structure alone.
LEMMA PutStep ==
    ASSUME IInv, fault = "none", cpu = A, pc[A] \notin {"loop", "slept"}, ~TypingOnly,
           NEW w \in (Places \cup PutPlaces) \ {"handle"}, Goto(A, w),
           ~InHand(A), UNCHANGED <<taskctl, cpu, fifoA, armed, user, keys>>,
           w # "slept",
           hand' \in [{A, C} -> Messages],
           fifoC' \in ConsoleFifo, fifoC'.write_buf = SizeC => w = "put_wrap" \/ fault' # "none",
           reg' \in [eax : Nat, ecx : 0 .. SizeC - 1],
           w = "put_index" => reg'.eax \in 1 .. SizeC,
           key_to' \in {0, 1},
           w = "add_store" => BetweenLoadAndStore(taskctl, reg'.eax),
           w = "add_flags" => taskctl.level[LevelC].running > 0,
           taskctl.tasks0[C].flags = 1 => fifo32_status(fifoC') = 0 \/ w \in Waking
    PROVE  IInv'
<1>1. /\ pc' \in [{A, C} -> Places \cup PutPlaces] /\ pc'[A] = w /\ pc'[C] = pc[C]
      /\ pc'[C] \in Places
      /\ taskctl.tasks0[A].flags = 2
      /\ Once(A, fifoA)'
  BY PutStays
<1>2. Typed'
  <2>1. TypeOK'
    BY Running DEF Typed, TypeOK
  <2>2. QED
    BY <1>1, <2>1 DEF Typed
<1>3. Dispatched'
  BY <1>1, Running DEF Going, Dispatched
<1>4. Rested'
  BY <1>1, Running DEF Going, Rested
<1>5. Going'
  BY <1>1, <1>3, <1>4, Running DEF Going
<1>6. QED
  BY <1>2, <1>5 DEF IInv, TypingOnly

\* A user who only types: task_a never puts.
LEMMA PuttingMeansTab ==
    ASSUME IInv, pc[A] \notin Places
    PROVE  ~TypingOnly
BY DEF IInv, Typing

\* task_a starts to pass a message on.
LEMMA PassOnStep ==
    ASSUME IInv, PassOn
    PROVE  IInv'
<1>0. /\ fault = "none" /\ cpu = A /\ pc[A] = "handle"
      /\ hand[A] \in {"char", "tab"} /\ (hand[A] = "char" => key_to = 1)
      /\ hand' \in [{A, C} -> Messages] /\ key_to' \in {0, 1}
      /\ Goto(A, "put_test")
      /\ UNCHANGED <<taskctl, cpu, fifoA, fifoC, armed, reg, user, keys, fault>>
  <2>1. fault = "none" /\ hand \in [{A, C} -> Messages] /\ key_to \in {0, 1}
    BY Running DEF PassOn, Runs, Typed, TypeOK
  <2>2. hand' \in [{A, C} -> Messages] /\ key_to' \in {0, 1}
    <3>1. CASE hand[A] = "tab"
      <4>1. PICK m : m = IF key_to = 0 THEN "on" ELSE "off"
        OBVIOUS
      <4>2. m \in Messages
        BY <4>1 DEF Messages
      <4>3. key_to' = 1 - key_to /\ hand' = [hand EXCEPT ![A] = m]
        BY <3>1, <4>1 DEF PassOn
      <4>4. QED
        BY <2>1, <4>2, <4>3
    <3>2. CASE hand[A] # "tab"
      BY <2>1, <3>2 DEF PassOn
    <3>3. QED
      BY <3>1, <3>2
  <2>3. QED
    BY <2>1, <2>2 DEF PassOn, Runs
<1>1. ~TypingOnly
  <2> SUFFICES ASSUME TypingOnly PROVE FALSE
    OBVIOUS
  <2>1. key_to = 0 /\ (pc[A] = "handle" => hand[A] \in {"cursor", "char"})
    BY DEF IInv, Typing
  <2>2. pc[A] = "handle" /\ hand[A] \in {"char", "tab"} /\ (hand[A] = "char" => key_to = 1)
    BY <1>0
  <2>3. hand[A] = "char"
    BY ONLY <2>1, <2>2
  <2>4. QED
    BY ONLY <2>1, <2>2, <2>3
<1>2. fifoC \in ConsoleFifo /\ reg \in [eax : Nat, ecx : 0 .. SizeC - 1]
      /\ fifoC.write_buf # SizeC
  BY <1>0, Running DEF Typed
<1>3. taskctl.tasks0[C].flags = 1 => fifo32_status(fifoC) = 0
  BY <1>0, Running DEF Going, Rested, Waking
<1>4. QED
  BY <1>0, <1>1, <1>2, <1>3, PutStep DEF PutPlaces, InHand

\* What holds at each step of the put.
LEMMA Putting ==
    ASSUME IInv, NEW w \in PutPlaces, Runs(A, w)
    PROVE  /\ fault = "none" /\ cpu = A /\ pc[A] = w /\ w \notin Places
           /\ ~InHand(A) /\ ~TypingOnly
           /\ fifoC \in ConsoleFifo /\ reg \in [eax : Nat, ecx : 0 .. SizeC - 1]
           /\ hand \in [{A, C} -> Messages] /\ key_to \in {0, 1}
           /\ fifoC.write_buf = SizeC => w = "put_wrap"
           /\ w = "put_index" => reg.eax \in 1 .. SizeC
           /\ taskctl.tasks0[C].flags \in {1, 2}
           /\ taskctl.tasks0[C].flags = 1 => fifo32_status(fifoC) = 0 \/ w \in Waking
<1>1. fault = "none" /\ cpu = A /\ pc[A] = w /\ w \notin Places
  BY DEF Runs, PutPlaces, Places
<1>2. ~InHand(A) /\ ~TypingOnly
  BY <1>1, PuttingMeansTab DEF InHand, Places
<1>3. QED
  BY <1>1, <1>2, Running DEF Typed, TypeOK, Going, Rested

\* The test for a full FIFO.
LEMMA PutTestStep == IInv /\ PutTest => IInv'
<1> SUFFICES ASSUME IInv, PutTest PROVE IInv'
  OBVIOUS
<1>0. "put_test" \in PutPlaces /\ Runs(A, "put_test")
  BY DEF PutTest, PutPlaces
<1>1. CASE fifoC.free = 0
  <2>1. /\ fifoC' = [fifoC EXCEPT !.flags = FLAGS_OVERRUN] /\ Goto(A, "loop")
        /\ UNCHANGED <<taskctl, cpu, fifoA, armed, hand, reg, key_to, user, keys, fault>>
    BY <1>1 DEF PutTest
  <2>2. /\ fifoC' \in ConsoleFifo /\ fifoC'.write_buf = fifoC.write_buf
        /\ fifo32_status(fifoC') = fifo32_status(fifoC)
    <3>1. fifoC \in ConsoleFifo
      BY <1>0, Putting
    <3>2. QED
      BY <2>1, <3>1 DEF ConsoleFifo, FLAGS_OVERRUN, fifo32_status
  <2>3. taskctl.tasks0[C].flags = 1 => fifo32_status(fifoC') = 0
    BY <1>0, <2>2, Putting DEF Waking
  <2>4. QED
    BY <1>0, <2>1, <2>2, <2>3, Putting, PutStep DEF Places
<1>2. CASE fifoC.free # 0
  <2>1. /\ Goto(A, "put_load")
        /\ UNCHANGED <<taskctl, cpu, fifoA, fifoC, armed, hand, reg, key_to, user, keys, fault>>
    BY <1>2 DEF PutTest
  <2>2. taskctl.tasks0[C].flags = 1 => fifo32_status(fifoC') = 0
    BY <1>0, <2>1, Putting DEF Waking
  <2>3. QED
    BY <1>0, <2>1, <2>2, Putting, PutStep DEF Places, PutPlaces
<1>3. QED
  BY <1>1, <1>2

\* The index is loaded.
LEMMA PutLoadStep == IInv /\ PutLoad => IInv'
<1> SUFFICES ASSUME IInv, PutLoad PROVE IInv'
  OBVIOUS
<1>0. /\ "put_load" \in PutPlaces /\ Runs(A, "put_load")
      /\ reg' = [reg EXCEPT !.ecx = fifoC.write_buf]
      /\ Goto(A, "put_store")
      /\ UNCHANGED <<taskctl, cpu, fifoA, fifoC, armed, hand, key_to, user, keys, fault>>
  BY DEF PutLoad, PutPlaces
<1>1. fifoC.write_buf \in 0 .. SizeC - 1
  <2>1. fifoC.write_buf \in 0 .. SizeC /\ fifoC.write_buf # SizeC
    BY <1>0, Putting DEF ConsoleFifo
  <2>2. QED
    BY ONLY <2>1, KernelSizes
<1>2. reg' \in [eax : Nat, ecx : 0 .. SizeC - 1]
  BY <1>0, <1>1, Putting
<1>3. taskctl.tasks0[C].flags = 1 => fifo32_status(fifoC') = 0
  BY <1>0, Putting DEF Waking
<1>4. QED
  BY <1>0, <1>2, <1>3, Putting, PutStep DEF Places, PutPlaces

\* The value is stored.
LEMMA PutStoreStep == IInv /\ PutStore => IInv'
<1> SUFFICES ASSUME IInv, PutStore PROVE IInv'
  OBVIOUS
<1>0. "put_store" \in PutPlaces /\ Runs(A, "put_store")
  BY DEF PutStore, PutPlaces
<1>1. reg.ecx \in DOMAIN fifoC.buf
  BY <1>0, Putting DEF ConsoleFifo
<1>2. /\ fifoC' = [fifoC EXCEPT !.buf[reg.ecx] = hand[A]] /\ Goto(A, "put_next")
      /\ UNCHANGED <<taskctl, cpu, fifoA, armed, hand, reg, key_to, user, keys, fault>>
  BY <1>1 DEF PutStore
<1>3. /\ fifoC' \in ConsoleFifo /\ fifoC'.write_buf = fifoC.write_buf
      /\ fifo32_status(fifoC') = fifo32_status(fifoC)
  <2>1. PICK b : b = [fifoC.buf EXCEPT ![reg.ecx] = hand[A]]
    OBVIOUS
  <2>2. fifoC \in ConsoleFifo /\ hand[A] \in Messages
    BY <1>0, Putting
  <2>3. b \in [0 .. SizeC - 1 -> Messages]
    BY <2>1, <2>2 DEF ConsoleFifo
  <2>4. fifoC' = [fifoC EXCEPT !.buf = b]
    BY <1>2, <2>1
  <2>5. QED
    BY <2>2, <2>3, <2>4 DEF ConsoleFifo, fifo32_status
<1>4. taskctl.tasks0[C].flags = 1 => fifo32_status(fifoC') = 0
  BY <1>0, <1>3, Putting DEF Waking
<1>5. QED
  BY <1>0, <1>2, <1>3, <1>4, Putting, PutStep DEF Places, PutPlaces

\* The next index is computed.
LEMMA PutNextStep == IInv /\ PutNext => IInv'
<1> SUFFICES ASSUME IInv, PutNext PROVE IInv'
  OBVIOUS
<1>0. /\ "put_next" \in PutPlaces /\ Runs(A, "put_next")
      /\ reg' = [reg EXCEPT !.eax = fifoC.write_buf + 1]
      /\ Goto(A, "put_index")
      /\ UNCHANGED <<taskctl, cpu, fifoA, fifoC, armed, hand, key_to, user, keys, fault>>
  BY DEF PutNext, PutPlaces
<1>1. fifoC.write_buf + 1 \in 1 .. SizeC /\ fifoC.write_buf + 1 \in Nat
  <2>1. fifoC.write_buf \in 0 .. SizeC /\ fifoC.write_buf # SizeC
    BY <1>0, Putting DEF ConsoleFifo
  <2>2. QED
    BY ONLY <2>1, KernelSizes
<1>2. reg' \in [eax : Nat, ecx : 0 .. SizeC - 1] /\ reg'.eax \in 1 .. SizeC
  BY <1>0, <1>1, Putting
<1>3. taskctl.tasks0[C].flags = 1 => fifo32_status(fifoC') = 0
  BY <1>0, Putting DEF Waking
<1>4. QED
  BY <1>0, <1>2, <1>3, Putting, PutStep DEF Places, PutPlaces

\* The next index is stored, before it is compared with the size.
LEMMA PutIndexStep == IInv /\ PutIndex => IInv'
<1> SUFFICES ASSUME IInv, PutIndex PROVE IInv'
  OBVIOUS
<1>0. /\ "put_index" \in PutPlaces /\ Runs(A, "put_index")
      /\ fifoC' = [fifoC EXCEPT !.write_buf = reg.eax]
      /\ Goto(A, IF reg.eax = SizeC THEN "put_wrap" ELSE "put_free")
      /\ UNCHANGED <<taskctl, cpu, fifoA, armed, hand, reg, key_to, user, keys, fault>>
  BY DEF PutIndex, PutPlaces
<1>1. PICK w : w = IF reg.eax = SizeC THEN "put_wrap" ELSE "put_free"
  OBVIOUS
<1>2. /\ fifoC' \in ConsoleFifo /\ fifoC'.write_buf = reg.eax
      /\ fifo32_status(fifoC') = fifo32_status(fifoC)
  <2>1. fifoC \in ConsoleFifo /\ reg.eax \in 1 .. SizeC
    BY <1>0, Putting
  <2>2. reg.eax \in 0 .. SizeC
    BY <2>1
  <2>3. QED
    BY <1>0, <2>1, <2>2 DEF ConsoleFifo, fifo32_status
<1>3. taskctl.tasks0[C].flags = 1 => fifo32_status(fifoC') = 0
  BY <1>0, <1>2, Putting DEF Waking
<1>4. /\ Goto(A, w) /\ w \in (Places \cup PutPlaces) \ {"handle"}
      /\ w \notin {"slept", "put_index", "add_store", "add_flags"}
      /\ fifoC'.write_buf = SizeC => w = "put_wrap"
  BY <1>0, <1>1, <1>2 DEF Places, PutPlaces
<1>5. QED
  BY <1>0, <1>2, <1>3, <1>4, Putting, PutStep DEF Places

\* The index is wrapped.
LEMMA PutWrapStep == IInv /\ PutWrap => IInv'
<1> SUFFICES ASSUME IInv, PutWrap PROVE IInv'
  OBVIOUS
<1>0. /\ "put_wrap" \in PutPlaces /\ Runs(A, "put_wrap")
      /\ fifoC' = [fifoC EXCEPT !.write_buf = 0]
      /\ Goto(A, "put_free")
      /\ UNCHANGED <<taskctl, cpu, fifoA, armed, hand, reg, key_to, user, keys, fault>>
  BY DEF PutWrap, PutPlaces
<1>1. /\ fifoC' \in ConsoleFifo /\ fifoC'.write_buf # SizeC
      /\ fifo32_status(fifoC') = fifo32_status(fifoC)
  <2>1. fifoC \in ConsoleFifo
    BY <1>0, Putting
  <2>2. 0 \in 0 .. SizeC /\ SizeC # 0
    BY ONLY KernelSizes
  <2>3. QED
    BY <1>0, <2>1, <2>2 DEF ConsoleFifo, fifo32_status
<1>2. taskctl.tasks0[C].flags = 1 => fifo32_status(fifoC') = 0
  BY <1>0, <1>1, Putting DEF Waking
<1>3. QED
  BY <1>0, <1>1, <1>2, Putting, PutStep DEF Places, PutPlaces

\* One entry less is free.
LEMMA PutFreeStep == IInv /\ PutFree => IInv'
<1> SUFFICES ASSUME IInv, PutFree PROVE IInv'
  OBVIOUS
<1>0. /\ "put_free" \in PutPlaces /\ Runs(A, "put_free")
      /\ fifoC' = [fifoC EXCEPT !.free = @ - 1]
      /\ Goto(A, "put_wake")
      /\ UNCHANGED <<taskctl, cpu, fifoA, armed, hand, reg, key_to, user, keys, fault>>
  BY DEF PutFree, PutPlaces
<1>1. fifoC' \in ConsoleFifo /\ fifoC'.write_buf = fifoC.write_buf
  <2>1. fifoC \in ConsoleFifo
    BY <1>0, Putting
  <2>2. fifoC.free - 1 \in {i \in Int : i <= SizeC}
    BY <2>1 DEF ConsoleFifo
  <2>3. QED
    BY <1>0, <2>1, <2>2 DEF ConsoleFifo
<1>2. QED
  BY <1>0, <1>1, Putting, PutStep DEF Places, PutPlaces, Waking

\* The owner's flags are tested, and again in task_run.
LEMMA WakeTestStep == IInv /\ (PutWake \/ RunTest) => IInv'
<1>1. ASSUME IInv, NEW v \in {"put_wake", "run_test"}, Runs(A, v),
             NEW w \in {"loop", "run_test", "add_load", "run_change"}, Goto(A, w),
             taskctl.tasks0[C].flags # 2 => w \in {"run_test", "add_load"},
             UNCHANGED <<taskctl, cpu, fifoA, fifoC, armed, hand, reg, key_to, user, keys, fault>>
      PROVE  IInv'
  <2>1. /\ w \in (Places \cup PutPlaces) \ {"handle"} /\ v \in PutPlaces
        /\ w \notin {"slept", "put_index", "add_store", "add_flags"}
    BY <1>1 DEF Places, PutPlaces
  <2>0. taskctl.tasks0[C].flags = 1 => w \in Waking
    BY <1>1 DEF Waking
  <2>2. fifoC.write_buf # SizeC
    BY <1>1, <2>1, Putting
  <2>3. QED
    BY <1>1, <2>0, <2>1, <2>2, Putting, PutStep DEF Places
<1>2. ASSUME IInv, PutWake PROVE IInv'
  <2>1. PICK w : w = IF Asleep(taskctl, C) THEN "run_test" ELSE "loop"
    OBVIOUS
  <2>2. Runs(A, "put_wake") /\ Goto(A, w)
        /\ UNCHANGED <<taskctl, cpu, fifoA, fifoC, armed, hand, reg, key_to, user, keys, fault>>
    BY <1>2, <2>1 DEF PutWake
  <2>3. w \in {"loop", "run_test"} /\ (taskctl.tasks0[C].flags # 2 => w = "run_test")
    BY <2>1 DEF Asleep
  <2>4. QED
    BY <1>1, <1>2, <2>2, <2>3
<1>3. ASSUME IInv, RunTest PROVE IInv'
  <2>1. PICK w : w = IF Asleep(taskctl, C) THEN "add_load" ELSE "run_change"
    OBVIOUS
  <2>2. Runs(A, "run_test") /\ Goto(A, w)
        /\ UNCHANGED <<taskctl, cpu, fifoA, fifoC, armed, hand, reg, key_to, user, keys, fault>>
    BY <1>3, <2>1 DEF RunTest
  <2>3. w \in {"add_load", "run_change"} /\ (taskctl.tasks0[C].flags # 2 => w = "add_load")
    BY <2>1 DEF Asleep
  <2>4. QED
    BY <1>1, <1>3, <2>2, <2>3
<1>4. QED
  BY <1>2, <1>3

\* The count of the console's level is loaded.
LEMMA AddLoadStep == IInv /\ AddLoad => IInv'
<1> SUFFICES ASSUME IInv, AddLoad PROVE IInv'
  OBVIOUS
<1>0. /\ "add_load" \in PutPlaces /\ Runs(A, "add_load")
      /\ reg' = [reg EXCEPT !.eax = taskctl.level[LevelC].running]
      /\ Goto(A, "add_store")
      /\ UNCHANGED <<taskctl, cpu, fifoA, fifoC, armed, hand, key_to, user, keys, fault>>
  BY DEF AddLoad, PutPlaces
<1>1. taskctl.level[LevelC].running \in Nat
  <2>1. taskctl \in TaskctlType
    BY <1>0, Putting, Running DEF Sched
  <2>2. QED
    BY <2>1, Fields, Numbers
<1>2. reg' \in [eax : Nat, ecx : 0 .. SizeC - 1] /\ BetweenLoadAndStore(taskctl, reg'.eax)
  BY <1>0, <1>1, Putting DEF BetweenLoadAndStore
<1>3. fifoC.write_buf # SizeC
  BY <1>0, Putting
<1>4. QED
  BY <1>0, <1>2, <1>3, Putting, PutStep DEF Places, PutPlaces, Waking

\* A step of task_a's that changes the scheduler's structure.
LEMMA AddStep ==
    ASSUME IInv, NEW v \in {"add_store", "add_flags", "run_change"}, Runs(A, v),
           NEW w \in {"add_flags", "run_change", "loop"}, Goto(A, w),
           Sched(taskctl'), task_now(taskctl') = task_now(taskctl),
           w = "add_flags" => taskctl'.level[LevelC].running > 0,
           taskctl'.tasks0[A] = taskctl.tasks0[A],
           taskctl'.tasks0[C].flags = 1 => taskctl.tasks0[C].flags = 1
                                           /\ (w \in Waking \/ v \notin Waking),
           UNCHANGED <<cpu, fifoA, fifoC, armed, hand, reg, key_to, user, keys, fault>>
    PROVE  IInv'
<1>0. v \in PutPlaces /\ w \in Places \cup PutPlaces
  BY DEF PutPlaces, Places
<1>1. /\ pc' \in [{A, C} -> Places \cup PutPlaces] /\ pc'[A] = w /\ pc'[C] = pc[C]
      /\ pc'[C] \in Places
      /\ taskctl.tasks0[A].flags = 2
      /\ Once(A, fifoA)'
  <2>1. fault = "none" /\ cpu = A /\ pc[A] = v /\ ~InHand(A)
    BY <1>0, Putting
  <2>2. QED
    BY <1>0, <2>1, PutStays
<1>2. Typed'
  <2>1. fault = "none" /\ fifoC.write_buf # SizeC
    BY <1>0, Putting
  <2>2. TypeOK'
    BY <2>1, Running DEF Typed, TypeOK, Sched
  <2>3. QED
    BY <1>1, <2>1, <2>2, Running DEF Typed
<1>3. Dispatched'
  <2>1. fault = "none" /\ cpu = A
    BY <1>0, Putting
  <2>2. QED
    BY <1>1, <2>1, Running DEF Going, Dispatched
<1>4. Rested'
  <2>1. fault = "none" /\ pc[A] = v
    BY <1>0, Putting
  <2>2. taskctl'.tasks0[C].flags = 1 => fifo32_status(fifoC) = 0 \/ w \in Waking
    BY <1>0, <2>1, Putting
  <2>3. taskctl'.tasks0[A].flags # 1
    BY <1>1
  <2>4. QED
    BY <1>1, <2>2, <2>3 DEF Rested
<1>5. Going'
  <2>1. fault = "none"
    BY <1>0, Putting
  <2>2. QED
    BY <1>1, <1>3, <1>4, <2>1, Running DEF Going
<1>6. QED
  BY <1>0, <1>2, <1>5, Putting DEF IInv, TypingOnly

\* The console is stored into the list, with the count that was loaded.
LEMMA AddStoreStep == IInv /\ AddStore => IInv'
<1> SUFFICES ASSUME IInv, AddStore PROVE IInv'
  OBVIOUS
<1>0. /\ "add_store" \in PutPlaces /\ Runs(A, "add_store")
      /\ Goto(A, "add_flags")
      /\ UNCHANGED <<cpu, fifoA, fifoC, armed, hand, reg, key_to, user, keys>>
  BY DEF AddStore, PutPlaces
<1>1. CASE reg.eax < MAX_TASKS_LV
  <2>1. taskctl' = Stored(taskctl, reg.eax) /\ UNCHANGED fault
    BY <1>1 DEF AddStore, Stored
  <2>2. PICK eax : eax = reg.eax
    OBVIOUS
  <2>3. /\ Sched(taskctl) /\ taskctl.now_level = LevelA /\ eax \in Nat
        /\ BetweenLoadAndStore(taskctl, eax)
    BY <1>0, <2>2, Putting, Running DEF Going, Dispatched
  <2>4. /\ Sched(taskctl') /\ task_now(taskctl') = task_now(taskctl)
        /\ taskctl'.tasks0 = taskctl.tasks0
        /\ taskctl'.level[LevelC].running = eax + 1
    BY <1>1, <2>1, <2>2, <2>3, StoreProperties
  <2>5. /\ taskctl'.level[LevelC].running > 0
        /\ taskctl'.tasks0[A] = taskctl.tasks0[A] /\ taskctl'.tasks0[C] = taskctl.tasks0[C]
        /\ "add_flags" \in Waking
    BY <2>3, <2>4 DEF Waking
  <2>6. UNCHANGED <<cpu, fifoA, fifoC, armed, hand, reg, key_to, user, keys, fault>>
    BY <1>0, <2>1
  <2>7. QED
    BY ONLY IInv, <1>0, <2>4, <2>5, <2>6, AddStep
<1>2. CASE ~(reg.eax < MAX_TASKS_LV)
  <2>1. fault' # "none" /\ taskctl' = taskctl
    BY <1>2 DEF AddStore
  <2>2. /\ pc' \in [{A, C} -> Places \cup PutPlaces] /\ pc'[A] = "add_flags"
        /\ pc'[C] \in Places
    BY <1>0, Putting, PutStays DEF PutPlaces, Places
  <2>3. Typed'
    <3>1. TypeOK'
      BY <1>0, <2>1, Putting, Running DEF Typed, TypeOK
    <3>2. QED
      BY <1>0, <2>1, <2>2, <3>1, Putting DEF Typed
  <2>4. QED
    BY <1>0, <2>1, <2>3, Putting DEF IInv, TypingOnly
<1>3. QED
  BY <1>1, <1>2

\* Its flags are set.
LEMMA AddFlagsStep == IInv /\ AddFlags => IInv'
<1> SUFFICES ASSUME IInv, AddFlags PROVE IInv'
  OBVIOUS
<1>0. /\ "add_flags" \in PutPlaces /\ Runs(A, "add_flags")
      /\ Goto(A, "run_change")
      /\ taskctl' = [taskctl EXCEPT !.tasks0[C].flags = 2]
      /\ UNCHANGED <<cpu, fifoA, fifoC, armed, hand, reg, key_to, user, keys, fault>>
  BY DEF AddFlags, PutPlaces
<1>1. /\ Sched(taskctl) /\ taskctl.now_level = LevelA
      /\ taskctl.level[LevelC].running > 0
  BY <1>0, Putting, Running DEF Going, Dispatched
<1>2. /\ Sched(taskctl') /\ task_now(taskctl') = task_now(taskctl)
      /\ taskctl'.tasks0[C].flags = 2 /\ taskctl'.tasks0[A] = taskctl.tasks0[A]
  BY <1>0, <1>1, FlagsProperties
<1>3. taskctl'.tasks0[C].flags # 1
  BY <1>2
<1>4. QED
  BY ONLY IInv, <1>0, <1>2, <1>3, AddStep

\* A level change is asked for.
LEMMA RunChangeStep == IInv /\ RunChange => IInv'
<1> SUFFICES ASSUME IInv, RunChange PROVE IInv'
  OBVIOUS
<1>0. /\ "run_change" \in PutPlaces /\ Runs(A, "run_change")
      /\ Goto(A, "loop")
      /\ taskctl' = [taskctl EXCEPT !.level_change = 1]
      /\ UNCHANGED <<cpu, fifoA, fifoC, armed, hand, reg, key_to, user, keys, fault>>
  BY DEF RunChange, PutPlaces
<1>1. Sched(taskctl)
  BY <1>0, Putting, Running
<1>2. /\ Sched(taskctl') /\ task_now(taskctl') = task_now(taskctl)
      /\ taskctl'.tasks0 = taskctl.tasks0
  BY <1>0, <1>1, ChangeProperties
<1>3. QED
  BY <1>0, <1>2, AddStep DEF Waking

-----------------------------------------------------------------------------
(* The invariant, and what follows from it.                                 *)

\* Every step keeps the invariant.
LEMMA NextIInv == IInv /\ [Next]_vars => IInv'
<1> SUFFICES ASSUME IInv, [Next]_vars PROVE IInv'
  OBVIOUS
<1>1. ASSUME NEW key \in {"char", "tab"}, KeyInterrupt(key) PROVE IInv'
  BY <1>1, KeyStep
<1>2. ASSUME NEW up \in SUBSET armed, NEW slice \in BOOLEAN, TimerInterrupt(up, slice)
      PROVE  IInv'
  BY <1>2, TimerStep
<1>3. CASE GoToSleep(A, fifoA)
  BY <1>3, SleepStep
<1>4. CASE GoToSleep(C, fifoC)
  BY <1>4, SleepStep, Numbers
<1>5. CASE WakeUp(A) \/ WakeUp(C)
  BY <1>5, WakeUpStep
<1>6. CASE ReadA
  BY <1>6, ReadAStep
<1>7. CASE ReadC
  BY <1>7, ReadCStep
<1>8. CASE SetCursorTimer(A) \/ SetCursorTimer(C)
  BY <1>8, SetTimerStep
<1>9. CASE Draw(A) \/ Draw(C)
  BY <1>9, DrawStep
<1>10. CASE PassOn
  BY <1>10, PassOnStep
<1>11. CASE PutTest
  BY <1>11, PutTestStep
<1>12. CASE PutLoad
  BY <1>12, PutLoadStep
<1>13. CASE PutStore
  BY <1>13, PutStoreStep
<1>14. CASE PutNext
  BY <1>14, PutNextStep
<1>15. CASE PutIndex
  BY <1>15, PutIndexStep
<1>16. CASE PutWrap
  BY <1>16, PutWrapStep
<1>17. CASE PutFree
  BY <1>17, PutFreeStep
<1>18. CASE PutWake \/ RunTest
  BY <1>18, WakeTestStep
<1>19. CASE AddLoad
  BY <1>19, AddLoadStep
<1>20. CASE AddStore
  BY <1>20, AddStoreStep
<1>21. CASE AddFlags
  BY <1>21, AddFlagsStep
<1>22. CASE RunChange
  BY <1>22, RunChangeStep
<1>23. CASE Down \/ UNCHANGED vars
  <2>1. UNCHANGED vars
    BY <1>23 DEF Down
  <2>2. Typed' /\ (Going => Going') /\ (Typing => Typing')
        /\ fault' = fault /\ (TypingOnly' <=> TypingOnly)
    BY <2>1 DEF vars, IInv, Typed, TypeOK, Going, Dispatched, Rested, Typing, Once, Chain,
                InHand, TypingOnly
  <2>3. QED
    BY <2>2 DEF IInv
<1>24. QED
  BY <1>1, <1>2, <1>3, <1>4, <1>5, <1>6, <1>7, <1>8, <1>9, <1>10, <1>11, <1>12,
     <1>13, <1>14, <1>15, <1>16, <1>17, <1>18, <1>19, <1>20, <1>21, <1>22, <1>23
     DEF Next, StepA, StepC

\* The invariant holds throughout.
LEMMA Invariant == Spec => []IInv
BY InitIInv, NextIInv, PTL DEF Spec

\* Every variable keeps its type, in a machine that a fault has stopped too.
THEOREM TypeCorrect == Spec => []TypeOK
<1>1. IInv => TypeOK
  BY DEF IInv, Typed
<1>2. QED
  BY <1>1, Invariant, PTL

\* A main loop that tests its FIFO with interrupts off never sleeps over a
\* message, whatever interrupts it.
THEOREM WakeupNeverLost == Spec => []NoLostWakeup
<1>1. IInv => NoLostWakeup
  <2>1. Waking \subseteq {w \in PutPlaces : w \notin {"loop", "slept", "handle"}}
    BY DEF Waking, PutPlaces
  <2>2. QED
    BY <2>1 DEF IInv, Going, Rested, NoLostWakeup, InPut
<1>2. QED
  BY <1>1, Invariant, PTL

\* The task the processor runs is the scheduler's, and the most urgent one with
\* something to do, unless a change of level has been asked for; interrupted
\* puts of task_a's, which may list the console twice, do not change that.
THEOREM MostUrgentRuns == Spec => []UrgentFirst
<1>1. IInv => UrgentFirst
  <2> SUFFICES ASSUME IInv, fault = "none"
               PROVE  /\ task_now(taskctl) = cpu
                      /\ taskctl.level_change = 0 =>
                             \A t \in {A, C, Idle} : taskctl.tasks0[t].flags = 2 =>
                                 taskctl.tasks0[t].level >= taskctl.tasks0[cpu].level
    BY DEF UrgentFirst
  <2>1. Sched(taskctl) /\ task_now(taskctl) = cpu
    BY Running DEF Going, Dispatched
  <2>2. ASSUME taskctl.level_change = 0, NEW t \in {A, C, Idle}, taskctl.tasks0[t].flags = 2
        PROVE  taskctl.tasks0[t].level >= taskctl.tasks0[cpu].level
    <3>1. cpu = IF taskctl.now_level = LevelA THEN A
                ELSE IF taskctl.now_level = LevelC THEN C ELSE Idle
      BY <2>1, NowIs
    <3>2. /\ taskctl.now_level \in {LevelA, LevelC, Last}
          /\ taskctl.now_level # LevelA => t # A
          /\ taskctl.now_level = Last => t # C
      BY <2>1, <2>2 DEF Sched, Chosen
    <3>3. /\ taskctl.tasks0[A].level = LevelA /\ taskctl.tasks0[C].level = LevelC
          /\ taskctl.tasks0[Idle].level = Last
      BY <2>1 DEF Sched, Tasks
    <3>4. LevelA <= LevelC /\ LevelC <= Last /\ LevelA <= Last /\ LevelA <= LevelA
          /\ LevelC <= LevelC /\ Last <= Last
      BY DEF LevelA, LevelC, Last
    <3>5. QED
      BY <3>1, <3>2, <3>3, <3>4, Numbers
  <2>3. QED
    BY <2>1, <2>2
<1>2. QED
  BY <1>1, Invariant, PTL

\* The number of messages of a kind.
LEMMA WaitingIs ==
    ASSUME NEW N \in Nat \ {0}, NEW T, NEW f \in FifoType(N, Messages, T)
    PROVE  /\ Absent(Contents(f), "cursor") => Waiting(f, "cursor") = 0
           /\ Single(Contents(f), "cursor") => Waiting(f, "cursor") = 1
<1> DEFINE W == {i \in 1 .. fifo32_status(f) : Contents(f)[i] = "cursor"}
<1>1. DOMAIN Contents(f) = 1 .. fifo32_status(f)
  BY DEF Contents
<1>2. Waiting(f, "cursor") = Cardinality(W)
  BY DEF Waiting
<1>3. ASSUME Absent(Contents(f), "cursor") PROVE Cardinality(W) = 0
  <2>1. W = {}
    BY <1>1, <1>3 DEF Absent
  <2>2. QED
    BY <2>1, FS_EmptySet
<1>4. ASSUME Single(Contents(f), "cursor") PROVE Cardinality(W) = 1
  <2>1. PICK i \in DOMAIN Contents(f) :
            /\ Contents(f)[i] = "cursor"
            /\ \A j \in DOMAIN Contents(f) \ {i} : Contents(f)[j] # "cursor"
    BY <1>4 DEF Single
  <2>2. W = {i}
    BY <1>1, <2>1
  <2>3. QED
    BY <2>2, FS_Singleton
<1>5. QED
  BY <1>2, <1>3, <1>4

\* A cursor timer is set, its message waits, or its task has it in hand: one of
\* the three and only one, until a full FIFO loses the message.
THEOREM CursorStaysAlive == Spec => []CursorAlive
<1>1. ASSUME NEW t, NEW N \in Nat \ {0}, NEW T, NEW f \in FifoType(N, Messages, T),
             Once(t, f), f.flags # FLAGS_OVERRUN
      PROVE  OneOf(t, f)
  <2>1. /\ Absent(Contents(f), "cursor") => Waiting(f, "cursor") = 0
        /\ Single(Contents(f), "cursor") => Waiting(f, "cursor") = 1
    BY WaitingIs
  <2>2. \/ t \in armed /\ Waiting(f, "cursor") = 0 /\ ~InHand(t)
        \/ t \notin armed /\ Waiting(f, "cursor") = 1 /\ ~InHand(t)
        \/ t \notin armed /\ Waiting(f, "cursor") = 0 /\ InHand(t)
    BY <1>1, <2>1 DEF Once, Chain
  <2>3. QED
    BY <2>2 DEF OneOf, InHand
<1>2. IInv => CursorAlive
  <2> SUFFICES ASSUME IInv, fault = "none"
               PROVE  /\ fifoA.flags # FLAGS_OVERRUN => OneOf(A, fifoA)
                      /\ TypingOnly /\ fifoC.flags # FLAGS_OVERRUN => OneOf(C, fifoC)
    BY DEF CursorAlive
  <2>1. fifoA \in FifoType(SizeA, Messages, {A}) /\ Once(A, fifoA) /\ SizeA \in Nat \ {0}
    BY Running DEF Going, Typed, TypeOK
  <2>2. ASSUME TypingOnly PROVE fifoC \in FifoType(SizeC, Messages, {C}) /\ Once(C, fifoC)
    BY <2>2 DEF IInv, Typing
  <2>3. SizeC \in Nat \ {0}
    OBVIOUS
  <2>4. QED
    BY <1>1, <2>1, <2>2, <2>3
<1>3. QED
  BY <1>2, Invariant, PTL

\* As long as the user types into task_a's window nothing faults, and every
\* level counts its running tasks right.
THEOREM TypingStaysSafe == Spec => []TypingIsSafe
<1>1. IInv => TypingIsSafe
  <2> SUFFICES ASSUME IInv, TypingOnly PROVE fault = "none" /\ RunningCounts
    BY DEF TypingIsSafe
  <2>1. fault = "none" /\ ListedOnce(taskctl) /\ Sched(taskctl)
    BY Running DEF IInv, Typing
  <2>2. Tasks(taskctl) /\ Lists(taskctl)
    BY <2>1 DEF Sched
  <2>3. ASSUME NEW l \in Level
        PROVE  taskctl.level[l].running = Cardinality(Active(taskctl, l))
    <3>1. Active(taskctl, l) =
              {t \in {A, C, Idle} : taskctl.tasks0[t].flags = 2 /\ taskctl.tasks0[t].level = l}
      BY <2>2, Numbers DEF Active, Tasks
    <3>2. CASE l = LevelA
      <4>1. Active(taskctl, l) = IF taskctl.tasks0[A].flags = 2 THEN {A} ELSE {}
        BY <2>2, <3>1, <3>2, Numbers DEF Tasks
      <4>2. QED
        BY <2>2, <3>2, <4>1, FS_EmptySet, FS_Singleton DEF Lists
    <3>3. CASE l = LevelC
      <4>1. Active(taskctl, l) = IF taskctl.tasks0[C].flags = 2 THEN {C} ELSE {}
        BY <2>2, <3>1, <3>3, Numbers DEF Tasks
      <4>2. QED
        BY <2>1, <3>3, <4>1, FS_EmptySet, FS_Singleton DEF ListedOnce
    <3>4. CASE l = Last
      <4>1. Active(taskctl, l) = {Idle}
        BY <2>2, <3>1, <3>4, Numbers DEF Tasks
      <4>2. QED
        BY <2>2, <3>4, <4>1, FS_Singleton DEF Lists
    <3>5. CASE l \notin {LevelA, LevelC, Last}
      <4>1. Active(taskctl, l) = {}
        BY <2>2, <3>1, <3>5 DEF Tasks
      <4>2. QED
        BY <2>2, <3>5, <4>1, FS_EmptySet DEF Lists
    <3>6. QED
      BY <3>2, <3>3, <3>4, <3>5
  <2>4. QED
    BY <2>1, <2>3 DEF RunningCounts
<1>2. QED
  BY <1>1, Invariant, PTL
=============================================================================
