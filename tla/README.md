# A verification project for the 30DaysMakeOS kernel

The repository holds an operating system written day by day along a book:
`day01` to `day22` are snapshots, and `30天自制操作系统光盘` is the book's CD with
its sources and tools. The reference for these models is the newest snapshot,
`src/day22/harib19g` (all paths below are relative to it). The earlier days are
older versions of the same files.

## Inventory

The kernel runs on one processor in 32-bit protected mode. Three tasks exist:
`task_a` (HariMain's loop), the console task, and an idle task. Interrupt
handlers run with interrupts off. Most task code runs with interrupts on.

| Component | State | Operations | Hard parts | What must hold |
|---|---|---|---|---|
| FIFO, `fifo.c` | `FIFO32`: ring, two indices, free count, owner task | init, put (wakes the owner), get, status | writers in handlers and in tasks; full ring; wrap | a bounded queue; no lost wake-up |
| Timers, `timer.c` | `TIMERCTL`: tick count, list ordered by time, sentinel, copy of the first time | alloc, free, init, settime, IRQ 0 handler | half of settime runs with interrupts on; count wraps | order; each timer rings once, on time |
| Scheduler, `mtask.c` | `TASKCTL`: ten levels, each with a task list and `now`; task flags | init, alloc, run, sleep, switch (add, remove, switchsub) | called by handlers and by tasks; list surgery while `now` points into it | the lists name exactly the active tasks; urgent first; nobody of a level starves |
| Memory, `memory.c` | `MEMMAN`: free regions in address order, loss counters | alloc, free, total (4k variants) | merging, full list, size 0 | no overlap, nothing lost uncounted |
| Main loops, `bootpack.c`, `console.c` | focus, cursor timers, hands | read a message or sleep; pass keys on to the console | task_a's put races with the timer interrupt | keys arrive; cursors blink |
| Keyboard LEDs, `bootpack.c` | `keycmd` FIFO, `keycmd_wait`, `key_leds` | send, ACK, resend | device protocol, pairs of bytes in a FIFO of 32 | LEDs follow `key_leds` |
| Mouse, `mouse.c`, `bootpack.c` | decoder phase, three bytes, pointer and window | decode, move, drag | lost bytes, nine-bit signs | pointer moves as the mouse does; back in step after a loss |
| Sheets, `sheet.c` | heights, map of owners, video memory | alloc, updown, slide, refresh, free | each call redraws a part only; clipping; stopped half-way | the map names the topmost sheet; the screen is the picture |
| Files, `file.c` | FAT and directory image | read FAT, load, search | 12-bit packing, 8.3 names, clusters | the file meant is found and loaded |
| Command line and commands, `console.c` | cursor, command buffer, blocks taken | putchar, newline, mem, cls, dir, type, run a program | buffer bounds, failed allocations | the line is what was typed; no leak |
| Applications, `console.c`, `naskfunc.nas` | `ss0`, the program's segment | start_app, hrb_api, end_app, exceptions, Shift+Alt | an application stopped between any two steps | the console survives with memory and line intact |
| Descriptors, PIC, boot, drawing | tables, registers, pixels | written once, or straight-line output | none a model would reach | – |

Interaction: handlers put numbered messages into FIFOs; `fifo32_put` calls
`task_run` for a sleeping owner; the timer handler calls `task_switch`; the main
loops call `fifo32_get` or `task_sleep` with interrupts off; `task_a` puts into
the console's FIFO with interrupts on, and on Shift+Alt rewrites the console's
saved `eip`; all tasks share the memory manager and the sheets without locks.

The hazards, each at its line and with the properties that would catch it, are
in `PROJECT.json`.

## Modules

| Module | Models | Run or use |
|---|---|---|
| `FifoOps` | the functions of `fifo.c` on one record | used by `Fifo`, `KbdLed`, `Kernel` |
| `Fifo` | a FIFO, the handlers' puts, the reader's loop | `fifo` |
| `BoundedQueue` | abstract: what a FIFO with an owner promises | refined by `Fifo` |
| `FifoProofs` | lemmas about `FifoOps`, theorems about `Fifo` | tlapm; the lemmas are used by `KbdLedProofs` and `KernelProofs` |
| `MemmanOps` | the functions of `memory.c` on one record | used by `Memman`, `Console` |
| `Memman` | the manager and the blocks its callers hold | `memman` |
| `PageAllocator` | abstract: memory as a set of addresses | refined by `Memman` |
| `MemmanProofs` | lemmas about `MemmanOps`, theorems about `Memman` | tlapm; the lemmas are used by `ConsoleProofs` |
| `MTaskOps` | the functions of `mtask.c` on `TASKCTL` | used by `MTask`, `Kernel` |
| `MTask` | the scheduler under boot calls, sleeps, wake-ups, time slices | `mtask` |
| `MTaskProofs` | theorems about `MTask` and `Timer` | tlapm |
| `Timer` | `timer.c`: list, count, interrupt handler, the two halves of settime | `timer` |
| `TimerService` | abstract: each timer rings once, on the first due tick, in order | refined by `Timer` |
| `Kernel` | FIFOs, scheduler, cursor timers, both main loops and the interrupts together | `kernel`, `kernel_twice` |
| `KernelProofs` | theorems about `Kernel` | tlapm |
| `KbdLed` | the lamp commands, `keycmd_wait`, task_a's loop, against a keyboard that may refuse any byte | `kbd_led` |
| `KbdLedProofs` | theorems about `KbdLed` | tlapm |
| `MouseDec` | the mouse's bytes through a FIFO that drops them, the decoder, pointer and window | `mouse` |
| `MouseProofs` | theorems about `MouseDec` | tlapm |
| `FileSys` | the functions of `file.c`, and what they should compute | used by `Console` |
| `Console` | command line, commands, printing, programs and the ways they end | `console`, `file_long` |
| `ConsoleProofs` | theorems about `Console` | tlapm |
| `Sheet` | `sheet.c` and what its callers do with it | `sheet` |
| `SheetPicture` | abstract: the screen is the picture of a stack of layers | refined by `Sheet` |
| `SheetProofs` | theorems about `Sheet` | tlapm |
| `SheetBreak` | the opening of a window, store by store, stopped by Shift+Alt | `sheet_kill` |
| `MC*` | constants for TLC | – |

### State and actions

**Fifo.** `fifo` is the C structure with `buf` as a function, `flags` the
reader's `TASK.flags`. `Put` is a handler's `fifo32_put` with its `task_run`;
`Read` and `Pause` are the loop's two branches between `io_cli` and `io_sti`.

**Memman.** `man` is `struct MEMMAN` with `free` as a sequence (its length is
`frees`), `held` what the callers own.

**MTask.** `taskctl` is the structure with its stale list entries, and `cpu` is
the task the processor runs; the far jump changes `cpu`, so `task_now() = cpu` is
a claim and not a definition. The tasks and the calls of the boot code are a
`Plan`. `ServedAssumption` says which plans `mtask.c` can serve, whatever their
length: a task that sleeps or is moved shares none of its levels, since
`task_remove` does not move the entries behind the removed one; nobody is taken to
level 0, and no level is visited again, since `now` of a level that task 1 has left
may be 1 with no task to name; and no list gets more tasks than it has entries,
since `task_add` does not look. The shipped kernel's plan is one of these.

**Timer.** Pointers are timer numbers and 0 is NULL; `SetFields` and `LinkIn` are
`timer_settime` before and after its `io_cli`.

**KbdLed.** `at` is the place in task_a's loop; `SendNext` is lines 150-155 of
`bootpack.c`, the `Read...` actions the branches that matter to the lamps,
`Interrupt` a handler's put with its `task_run`. The keyboard (`kbd`) and the
controller's one byte (`wire`) are external: a lamp byte counts only after the
command.

**MouseDec.** `mdec` is `struct MOUSE_DEC`, `pointer` and `win` the places of the
two sheets. `Interrupt` is the handler's put, which loses the byte when the FIFO
has no room; `ReadAck`, `ReadFirst`, `ReadSecond` and `ReadThird` are
`mouse_decode` in its four phases, the last one with HariMain's branch for a
complete movement. The mouse is external: `report` is the movement it reports,
and every byte carries, for the properties only, whose byte it is and whether bytes
were dropped just before it. `losses` counts the runs of bytes dropped one after the
other, `spoiled` the movements that begin with a report's first byte and go on with
bytes of another one.

**FileSys and Console.** The disk is a directory, a table of links and the
contents of clusters; `FatOnDisk` packs the table as FAT12 does and
`file_ReadFat` unpacks it. A character is a model value: letters, the dot, blank
and NUL, tab, newline, return, and one header for each program. `Console` prints
one character a step (`console_putchar`), and a newline in two (`NewlineRow`,
`NewlineCol`), because Shift+Alt may stop the console between any two of them.
The model's column is `cursor_x / 8 - 1`. `Prompt`, `TypeLetter`, `Backspace` and
`Enter` are the console's loop; `RunPrinting`, `RunType` and `RunApp` are
`console_runcmd` with the command it chooses; `TypeDone` and `FreeFile` give
memory back. A program prints, ends or fails (`AppCall`, `AppEnds`, `AppFails`);
`ShiftAlt` is task_a's test of `ss0` and its message, `Redirect` the new `eip`,
`EndApp` is `asm_end_app` with the way back to `cmd_app`. An allocation that
returns 0 sets `fault`, after which nothing is modelled: the code goes on with
address 0. `typed`, `file` and `loaded` remember what the user sees and what was
read, for the properties.

**Sheet.** `ctl` and `sht` are `struct SHTCTL` and its `sheets0`;
`sheet_refreshmap` and `sheet_refreshsub` are functions on them, restricted to
the rectangle and the heights the code passes, and the four branches of
`sheet_updown` are `Lower`, `Hide`, `Raise` and `Show`. Buffers hold colours; a
hole is a pixel of colour `col_inv`. Callers make one call at a time and leave the
background in place, as HariMain and hrb_api do.

**SheetBreak.** The stores of `sheet_updown` for a window that is shown (lines
138 and 173-178), one action each, with `pc` for the place in between.

**Kernel** takes one action for each stretch of code that nothing can interrupt.
`task_a`'s put into the console's FIFO is made with interrupts on, so each load
and store of `fifo32_put`, `task_run` and `task_add` that touches shared memory
is an action of its own, in the order of the compiler's listings (`fifo.lst`,
`mtask.lst`). The list entry and `running` are stored together: the
interrupt that could fall between these two stores writes the same entry with
the same pointer, and the register that holds the old count is already loaded.
`task_a`'s own wake-ups by handlers need no such care, since `task_a` runs
while it puts. A store through an index outside the array or into a list of
running tasks that is full, a timer linked in twice, and a far jump to the
running task set `fault`, after which nothing is modelled.

## Runs

Passing runs:

* `fifo`: ring of three, three values. Three is the least size at which the
  indices can differ in both orders and wrap at different times. The ring stays
  exact, implements `BoundedQueue`, loses no wake-up, and every accepted value
  is read.
* `memman`: two regions of three and four pages, a list of three entries,
  requests of one to three bytes with pages of two, so that rounding,
  fragmentation, all four merge cases and an overflow of the list happen. Blocks
  never overlap, neighbours are merged, bytes are conserved, and a request fails
  only when `PageAllocator` says that nothing fits.
* `mtask`: the kernel's three tasks, five tasks on five levels, two tasks that
  take turns, and a task moved between levels while it runs. The levels are the
  code's ten. The lists are exact, the urgent task runs, tasks of a level take
  turns.
* `timer`: the sentinel, the scheduler's timer and two more, delays of one and
  two ticks, three ticks. That is enough for ties, for a timer inserted
  at the front, between and before the sentinel, for a deadline already past
  when it is linked in, and for two rings on one tick. The clock of the model
  stops there, so this run does not check deadlock. `ListSound` is the shape of
  the list, `Implements` the service it gives.
* `kernel`: FIFOs of two entries under two users: one makes three strokes into
  task_a's window, the other two strokes of characters and Tab, which is enough
  for Tab's message and for a character to race with the console's cursor timer,
  and for the console's FIFO to be full. The wake-up rule, urgency and task_a's
  own cursor survive every race; `TypingIsSafe`, `Responsive` and the console's
  half of `CursorAlive` say what holds while the focus stays on task_a.
* `sheet`: a screen of three by two pixels with a background, a window of two
  pixels and a pointer of two by two with two transparent corners, at four
  places across three edges. That is enough for each branch of `sheet_updown`
  between two sheets and above them, for clipping on both axes, and for holes
  through which another sheet shows.
* `kbd_led`: three strokes of two lock keys, `keycmd` of four bytes, task_a's
  FIFO of two. A stroke then finds `keycmd` with two, one or no entry free,
  while a byte waits for its answer.
* `mouse`: three movements with both signs on both axes, -256 among them, with
  and without the dragging button, one with a byte that looks like a first one;
  room for three bytes, two runs of dropped bytes of any length, a screen of four by
  three. Any phase can so lose any bytes, two runs can fall into one report, and the
  pointer meets every edge. Without a loss the pointer moves as the mouse does. A
  run spoils at most one of the movements begun with a first byte, whatever the
  mouse reports; if its later bytes do not look like first ones, no movement begins
  with any other, so that a run spoils at most one movement. For other mice no more
  can be said: one that reports (9, 9) again and again may stay out of step.
* `console`: a window of six columns and two rows, so four characters fit on the
  line; letters, dot and blank; two disks with the label, a deleted file, a text
  of two clusters, a program, a name behind the directory's end, a program that
  asks for more memory than there is, and a text of one cluster. Every command,
  every kind of name (too long, dotted, with and without extension), tabs and
  line ends at the edge of the window, a full line, and each way a program can end
  occur, with Shift+Alt between any two steps.

The code's FIFOs have 128 entries (`keycmd` 32). Two is the least size with a
slot that is neither first nor free; the console's can be overrun in the model,
as it can be in the code by a user typing into a busy console.

Runs that end in a violation, each a disagreement of the code with a comment:

* `kernel_twice`: the race of two `task_run` lists the console twice. From then
  on a console that goes to sleep can find itself as the next task, and a far
  jump to a busy TSS is a protection exception.
* `file_long`: `file_LoadFile` reads the first cluster again for every cluster of
  a file; `type` does not show a file of two.
* `sheet_kill`: Shift+Alt within `sheet_updown` leaves the mouse pointer's sheet
  above `top`; nothing draws it any more.

More limits of the code show in the models and have no run of their own.

* Freeing a block of size 0 puts an entry of size 0 beside the one with the same
  address. `Memman`'s requests and `Console`'s files are not empty.
* `task_remove` decrements `running` without moving the entries behind the
  removed task. Latent: the shipped kernel has one task per level, and tasks that
  share a level in `MTask`'s plans do not sleep.
* The race of task_a's put with the timer interrupt's put into the console's FIFO
  (`fifo.c:21`) loses a message, and with it the console's cursor: the second
  half of `CursorAlive` is stated for the user who types into task_a's window.
* `now` of a level that lost its task before a `task_switch` stays 1 (level 0
  after boot), so a task started there later would not be the one `now` names;
  nothing in the kernel starts one.
* The sentinel comes due like any timer when the count reaches its last value,
  after 497 days; `Timer` stops below it.
* `sheet_updown` leaves a sheet that is shown and asked for `top + 1` above the
  stack; callers never ask, and `Sheet`'s `Updown` says so.
* `type` with nothing behind it searches for whatever an earlier line has left
  one character behind the word; `DiskRead` leaves that case out.

## Fairness

* `Fifo`: the reader, when it is not asleep, gets to run (`WF(Read)`).
  Nothing is assumed of puts.
* `MTask`: the scheduler's timer is set again by every `task_switch`, so it is
  up again and again (`WF(Switch)`); boot code does not stop (`WF(BootCall)`).
  Nothing is assumed of sleeping and waking.
* `Kernel`: a timer that is set comes up; time slices end; a task that gets the
  processor over and over executes instructions, for a time slice is 10 ms or
  more (strong fairness of `StepA` and `StepC`); and `task_a`, which needs far
  less than the 500 ms of its cursor timer for a turn, gets to sleep in between
  (strong fairness of its `task_sleep`). Without the last one the model would let
  the timer come up on every turn and starve the console. Nothing is
  assumed of keys.
* `KbdLed`: task_a, the most urgent task, gets its turns; the keyboard reacts to
  a byte and does not refuse every time; its answer interrupts. The lamps follow
  only while no message was dropped: `keycmd_wait` has no timeout, so an answer
  lost in a full FIFO stops the lamp commands for good.
* `Console`: the console goes on printing and goes on with its own steps on the
  way back to the prompt (`WF` of `PrintStep`, `FreeFile`, `Prompt`), and task_a
  finishes what it does on Shift+Alt (`WF(Redirect)`). `EndApp` has strong
  fairness: each Shift+Alt takes the console back to the start of `asm_end_app`,
  and a user who hit it for ever within the few instructions up to the store to
  `ss0` would keep it there. Nothing is assumed of the user's other keys, nor of
  the program, which may never end.

`Memman`, `Timer`, `MouseDec`, `Sheet` and `SheetBreak` state no liveness and
assume no fairness.

## Proofs

tlapm checks, for every value of the constants:

* `FifoProofs`, for any ring size and any values: `TypeCorrect`,
  `RingStaysExact`, `WakeupNeverLost`, and `FifoIsAQueue`, that `Fifo` implements
  `BoundedQueue`. The inductive invariant is `TypeOK /\ RingExact /\
  NoLostWakeup`. The refinement needs `RingExact`: that a put appends to the
  waiting values is true only when the write index is where they end
  (`PutAppends`), and `GetTakesHead` is its counterpart. The lemmas about the
  functions of `fifo.c` are for any ring; `KbdLedProofs` and `KernelProofs` cite
  them through an instance of `FifoProofs`.
* `KernelProofs`, for FIFOs of any sizes, as many tasks and levels as hold the
  three or more, any users and anything in the uninitialised buffer: `TypeCorrect`,
  `WakeupNeverLost`, `MostUrgentRuns`, `CursorStaysAlive`, `TypingStaysSafe`. The
  invariant has three parts. `Typed` holds even after a fault: the types, with
  the one index that may point behind the buffer between two stores. `Going`
  holds as long as the machine runs: the lists as wake-ups and sleeps leave them,
  in which the console may occur more than once (`Dispatched`), a task asleep has
  an empty FIFO unless `task_a` is about to wake it (`Rested`), and `task_a`'s
  cursor timer is in one place only (`Once`). `UrgentFirst` alone is not inductive: who
  runs next is read from the lists, and a list that names the console twice still
  names nobody else. `Typing` holds for a user who never moves the focus: then
  `task_a` never puts into the console's FIFO, so nothing faults, no list names a
  task twice, and the console's ring and timer stay whole as well. Each load and
  store of the interrupted put is a lemma of its own.
* `MemmanProofs`, for any page size, two regions, list capacity and sizes, as
  long as 0 is not among the sizes (`NoEmptyRequests`): `TypeCorrect`,
  `ListStaysOrdered`, `OwnersExclusive`, `NothingLost`, and `AllocatesFreeRuns`, that
  `Memman` implements `PageAllocator`. The
  inductive invariant adds to `FreeListOrdered` that held blocks are not empty
  and lie apart from each other and from every entry. `NoOverlap` alone is not
  inductive: a merge is safe only because a block touching both neighbours
  leaves no address in between, and the search stops at the right entry only
  because the list is ordered (`Gap`). For the refinement the list stands for the
  addresses of its entries: a request is refused only if there is no run, since
  entries do not touch and a run therefore lies in one of them (`RunInOneEntry`);
  each of the ways to merge adds the block's addresses and no others
  (`FreeAddsBytes`); and address 0, the answer for a refusal, is never free
  (`NeverZero`). `NothingLost` reads the sums of `Conserved` as sizes of sets of
  addresses, because a fold over a changing list is out of the prover's reach: what
  is summed is disjoint, so each sum is the size of a union, and a call moves
  addresses from one union to the other or, when the list is full, out of both and
  into `lostsize`. The lemmas about the functions themselves are for any list;
  `ConsoleProofs` cites one of them through an instance of `MemmanProofs`: freeing
  what was just allocated gives back the list that was there before.
* `MTaskProofs`, for any number of tasks, levels and list entries and every plan
  that is `Served`: `TypeCorrect`, `QueuesStayExact`, `MostUrgentRuns`. None of the
  three is inductive alone, and each needs the others. The invariant `IInv` says
  where a task may be after the calls made so far (`Tasks`), that each list names
  its level's active tasks once (`Lists`), that `now` of an empty level is 0 unless
  task 1 has left it (`Heads`), that a list is no longer than the calls that can
  have filled it (`Room`, which is why `task_add` never writes behind the array),
  and that `now_level` and `now` name the processor's task (`Chosen`). The last
  holds even while task 1 runs on a level whose list it has just been taken from:
  the entry is stale but still there, and `lv_change` is set, so the next
  `task_switch` reads the lists again. `Alone` is where the assumption on plans
  enters: a removed task was the only one of its list, so that nothing has to
  move. From there each call is a removal, an addition, or a choice
  (`SwitchsubStep`), and `task_run` is taken apart into these (`RunParts`).
* `MTaskProofs` also holds the proofs about `Timer`, for any number of timers and
  any delays: `TimerTypesHold`, `ListStaysSound`, and `TimersImplementService`, that
  `Timer` implements `TimerService`. All three are about the first 497 days: the
  clock stops before the sentinel's time (`BelowSentinel`), and for the refinement no
  time asked for is beyond 32 bits (`NoWrap`). The values of the `timer` run satisfy
  both. `ListSound` is not inductive: it counts what the walk meets, and a
  pointer's change has to be followed place by place. `TimerInv` says that there
  is a function `w` from places to timers that the pointers follow (`List`), in
  order of time and with the sentinel last (`Ordered`), onto the running timers
  whose setting is complete. The walk is then `w` (`ChainIs`); `Link` puts a timer
  into `w` at the first place that is not earlier, which exists because the
  sentinel is never earlier (`SlotIs`, `LinkKeeps`); and the handler's loop goes
  over the due timers and stops before the sentinel, so that the rest of `w` is
  the new list (`DueIs`, `TakeOffKeeps`). The first half of `timer_settime` touches
  no timer on the list (`FieldsGood`), whence it may run with interrupts on. That
  the handler may return early is `NextIsEarliest`: no timer is due before
  `timerctl.next`.
* `KbdLedProofs`, for FIFOs of any size, any lock keys and any number of strokes:
  `TypeCorrect`, `OneByteUnderWay`, `LampsFollowCommands`, `LampsOnTheWay`. The invariant says
  where the byte is that task_a waits for, as long as task_a's FIFO has dropped
  nothing: not sent, on the wire, answered by the keyboard, or with its answer in
  the FIFO, and in one of these places only. Accordingly the keyboard has taken
  all that was sent (`Settled`) or has still to take it (`Pending`), and the rest
  of `keycmd` is commands and lamps behind a command, for what it expects then.
  The second part needs the first: a byte that was accepted must not be asked for
  again. For `LampsOnTheWay` the fold over the bytes still to be taken is
  replaced by what it must come to (`Ends`): the lamps of the last byte that
  follows a command, or those the keyboard has if there is none. Taking the first
  byte does not change it (`EndsTaken`), and a lock key, which appends a command and
  its lamps, makes it `key_leds` (`LedsAdded`).
* `MouseProofs`, for any mouse, FIFO and screen: `TypeCorrect`, `MovesCorrect`,
  `OneWrongPerLossHolds`; only the second part of the last one is about mice whose
  later bytes do not look like first ones. The invariant `InStep` says that, while
  nothing was lost, the bytes in the buffer, those in the FIFO and those still to be
  sent are consecutive bytes of reports and the decoder's phase is the place of the
  next one; `Decodes` that three bytes give back the movement they were made from,
  for all 8 * 512 * 512 movements at once. `OneWrongPerLoss` is not inductive, since
  a report that will be decoded wrongly has not been counted yet when its byte is
  lost. `Account` counts it there: the spoiled movements so far, the breaks in the
  decoder's buffer and those among the bytes to come are together no more than the
  runs of losses. A break is wherever bytes are missing, also before the mouse's next
  byte while the FIFO is dropping, so that a run costs one break however long it is.
* `ConsoleProofs`, for any window, disk, programs and outputs: `TypeCorrect`,
  `LineCorrect`, `MemoryCorrect`, `DiskCorrect`. The first two rest on `LineInv`: before a
  character is printed there is room for it or a newline comes first, and the
  prompt begins a line because everything that is printed on the way to it ends
  one, the message of Shift+Alt among them, wherever it interrupts. The third
  rests on `MemInv`, which says at each place of the console what it holds, as
  allocations made one after the other from `Boot`; it assumes that no file and
  no segment is empty (`NoEmptyRequests`) and that the memory manager starts with
  a proper list (`BootSound`). `DiskCorrect` needs, besides `ReadInv`, what three
  computations come to: that three nibbles make an entry again (`FatUnpacked`);
  what `file_Search` has laid out after each character of a proper name
  (`LaidSo`), and that a name with an extension and ".HRB" behind it is too long
  for it (`TwoExtensions`), so that `cmd_app`'s second search finds nothing; and
  that a chain of clusters exists and begins with the first (`OneCluster`). The
  folds and the recursion are characterised by a least counterexample each.
* `SheetProofs`, for any screen, number of sheets, boxes, holes, colours and
  places, as long as the background covers the screen and has no holes
  (`BackAssumption`): `TypeCorrect`, `StackCorrect`, `MapCorrect`, and
  `DrawsPicture`, that `Sheet` implements `SheetPicture`. The inductive
  invariant is that the array and the heights agree (`Stack`), the map names the
  topmost sheet (`MapRight`), video memory shows what the map names (`Drawn`),
  the background is shown in its place (`BackShown`), and sheets that were never
  used are hidden. `MapNamesTopmost` alone is not inductive: which pixels change
  depends on the array, and a pixel keeps its owner only if somebody below owns
  it, in the end the background. One lemma (`Restacked`) treats the four branches
  of `sheet_updown` alike: if the order of the other sheets stays and the
  heights between which s moved are renewed within its rectangle, everything is
  right again. Each branch then has to show that its array is the one for its
  heights and that the heights it passes are enough.

The assumptions are the ASSUMEs of the modules, which TLC evaluates in the runs, and
the hypotheses named above, which the values of the runs satisfy.

Only model-checked: liveness (`EveryValueRead`, `NobodyStarves`, `Responsive`,
`LedsFollow`, `PromptReturns`), since the prover handles neither fairness nor
ENABLED.

## Not modelled

* Booting (`asmhead.nas`, `ipl10.nas`, `dsctbl.c`, `int.c`, the first half of
  HariMain): device access and tables written once. `MTask` makes the boot calls
  of the scheduler atomic; `Kernel`, `Console` and `Sheet` start when they are
  over. So `bootpack.c:82`, where task_a changes its level with interrupts on, and
  a Tab before the console has set up its FIFO are out of the models.
* `memtest` probes the memory once at boot, with no state of the kernel's.
* Drawing (`graphic.c`, `window.c`): straight-line output into buffers. `Sheet`
  models what becomes of it on the screen.
* Two tasks within `sheet.c` at once. The array, the heights and `top` are changed
  by the console only after boot, and `SheetBreak` has its stores one by one; what
  two interleaved redraws leave on the screen is repaired by the next redraw, and
  no line of the repository promises more.
* Segments, registers and the instructions of programs; a program is its system
  calls and the way it ends. The sample applications are such programs.
* A window whose program has ended goes on showing freed memory, and no line says
  what should become of it.
* The earlier days and the CD: older snapshots of the same files, and the book's
  compilers and tools.
