-------------------------------- MODULE Fifo --------------------------------
(***************************************************************************)
(* One FIFO32 of the kernel with the code around it: the interrupt         *)
(* handlers that put into it, and the loop of the task that reads it       *)
(* (bootpack.c's and console.c's main loops), which tests and reads with   *)
(* interrupts off and goes to sleep when there is nothing to read.         *)
(*                                                                         *)
(* Each action is one uninterruptible stretch of code: a put done by an    *)
(* interrupt handler, or one turn of the reader between io_cli and io_sti. *)
(* Puts made by a task with interrupts on are the business of Kernel.tla.  *)
(***************************************************************************)
EXTENDS FifoOps

CONSTANTS Size,       \* entries of the ring
          Data,       \* the values put into it
          Owner       \* the TASK of the FIFO, 0 for a FIFO nobody sleeps on

ASSUME SizeAssumption == Size \in Nat \ {0}
ASSUME DataAssumption == Data \subseteq Nat /\ Data # {}
ASSUME OwnerAssumption == Owner \in {0, 1}

VARIABLES fifo,       \* struct FIFO32
          flags,      \* TASK.flags of the reader: 2 running, 1 asleep
          got         \* what the reader's last fifo32_get returned, or -1

vars == <<fifo, flags, got>>

\* The array is an uninitialised local array of the task.
Init == /\ \E memory \in [0 .. Size - 1 -> Data] :
             fifo = fifo32_init(Size, memory, Owner)
        /\ flags = 2
        /\ got = -1

\* An interrupt handler puts d; task_run(owner, -1, 0) wakes a sleeping owner.
Put(d) == /\ fifo' = fifo32_put(fifo, d)
          /\ flags' = IF Wakes(fifo, flags) THEN 2 ELSE flags
          /\ UNCHANGED got

\* The reader's turn, with interrupts off from the test to the end.
Read == /\ flags = 2
        /\ fifo32_status(fifo) > 0
        /\ got' = GetReturns(fifo)
        /\ fifo' = fifo32_get(fifo)
        /\ UNCHANGED flags

\* Nothing to read: the owner sleeps; without an owner the reader goes on.
Pause == /\ flags = 2
         /\ fifo32_status(fifo) = 0
         /\ flags' = IF Owner # 0 THEN 1 ELSE flags
         /\ got' = -1
         /\ UNCHANGED fifo

Next == \/ \E d \in Data : Put(d)
        \/ Read
        \/ Pause

\* A reader that is not asleep gets the processor again and again.
Spec == Init /\ [][Next]_vars /\ WF_vars(Read)

-----------------------------------------------------------------------------
TypeOK == /\ fifo \in FifoType(Size, Data, {Owner})
          /\ flags \in {1, 2}
          /\ got \in Data \cup {-1}

\* The three indices agree: the write index is where the waiting values end.
\* Both functions rely on it, and neither could tell if it broke.
RingExact == fifo.write_buf = Slot(fifo, fifo32_status(fifo))

\* A reader sleeps only over an empty FIFO that will wake it: the wake-up is
\* never lost between the test of fifo32_status and task_sleep.
NoLostWakeup == flags = 1 => Owner # 0 /\ fifo32_status(fifo) = 0

\* The ring is a bounded queue (see BoundedQueue.tla).
Queue == INSTANCE BoundedQueue
             WITH Capacity <- Size, Values <- Data,
                  q <- Contents(fifo),
                  overrun <- fifo.flags = FLAGS_OVERRUN,
                  resting <- flags = 1,
                  out <- got
Implements == Queue!Spec

\* Every accepted value is read in the end: fifo32_put wakes the reader and
\* the reader drains what is ahead of it.
EveryValueRead ==
    \A d \in Data : (\E i \in 1 .. fifo32_status(fifo) : Contents(fifo)[i] = d) ~> (got = d)
=============================================================================
