------------------------------ MODULE FifoOps ------------------------------
(***************************************************************************)
(* The operations of fifo.c on one struct FIFO32, as functions from the    *)
(* record before the call to the record after it.  The record has the      *)
(* fields of the C structure; buf is the array behind its buf pointer.     *)
(* A value is an int of the queue; -1 is what the functions return for     *)
(* "full" and "empty".                                                     *)
(***************************************************************************)
EXTENDS Integers, Sequences

FLAGS_OVERRUN == 1

\* fifo32_init: memory is whatever the array held before.
fifo32_init(size, memory, task) ==
    [size |-> size, buf |-> memory, free |-> size, flags |-> 0,
     read_buf |-> 0, write_buf |-> 0, task |-> task]

\* A variant with a plausible slip: the wrap comes one entry late.
AdvanceLate(i, size) == IF i = size THEN 0 ELSE i + 1

\* The index after i in a ring of the given size (both functions wrap alike).
Advance(i, size) == IF i + 1 = size THEN 0 ELSE i + 1

\* The number of values waiting.
fifo32_status(f) == f.size - f.free

-----------------------------------------------------------------------------
(* Variants of a put with a plausible slip: it takes no notice of a full   *)
(* ring, it stores after the step, it wakes the owner at the last entry.   *)
PutAnyway(f, data) ==
    [f EXCEPT !.buf[f.write_buf] = data,
              !.write_buf = Advance(f.write_buf, f.size),
              !.free = f.free - 1]
PutAfterStep(f, data) ==
    IF f.free = 0
    THEN [f EXCEPT !.flags = FLAGS_OVERRUN]
    ELSE [f EXCEPT !.buf[Advance(f.write_buf, f.size)] = data,
                   !.write_buf = Advance(f.write_buf, f.size),
                   !.free = f.free - 1]
WakesWhenFull(f, flags) == f.task # 0 /\ f.free = 1 /\ flags # 2
-----------------------------------------------------------------------------
\* fifo32_put without its call of task_run: a full ring only notes the loss.
fifo32_put(f, data) ==
    IF f.free = 0
    THEN [f EXCEPT !.flags = FLAGS_OVERRUN]
    ELSE [f EXCEPT !.buf[f.write_buf] = data,
                   !.write_buf = Advance(f.write_buf, f.size),
                   !.free = f.free - 1]

\* What that call returns.
PutReturns(f) == IF f.free = 0 THEN -1 ELSE 0

\* Does fifo32_put on f go on to call task_run for the owner, whose TASK.flags
\* is `flags'?  Not when the ring was full: it has returned by then.
Wakes(f, flags) == f.free # 0 /\ f.task # 0 /\ flags # 2

\* fifo32_get: the ring after it, and the value it returns.
fifo32_get(f) ==
    IF f.free = f.size
    THEN f
    ELSE [f EXCEPT !.read_buf = Advance(f.read_buf, f.size),
                   !.free = f.free + 1]
GetReturns(f) == IF f.free = f.size THEN -1 ELSE f.buf[f.read_buf]

-----------------------------------------------------------------------------
\* The slot that holds the (i+1)-th waiting value, and the waiting values.
Slot(f, i) == IF f.read_buf + i < f.size
              THEN f.read_buf + i
              ELSE f.read_buf + i - f.size
Contents(f) == [i \in 1 .. fifo32_status(f) |-> f.buf[Slot(f, i - 1)]]

FifoType(size, data, tasks) ==
    [size : {size}, buf : [0 .. size - 1 -> data], free : 0 .. size,
     flags : {0, FLAGS_OVERRUN}, read_buf : 0 .. size - 1,
     write_buf : 0 .. size - 1, task : tasks]
=============================================================================
