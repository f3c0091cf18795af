----------------------------- MODULE MemmanOps -----------------------------
(***************************************************************************)
(* The functions of memory.c on one struct MEMMAN: a list of free regions, *)
(* kept in address order and merged when neighbours meet.                  *)
(***************************************************************************)
EXTENDS Integers, Sequences, SequencesExt, FiniteSetsExt

CONSTANTS Page,       \* the granularity, 4096 bytes in the code
          Frees       \* MEMMAN_FREES, the capacity of the list

ASSUME PageAssumption == Page \in Nat \ {0}
ASSUME FreesAssumption == Frees \in Nat /\ Frees >= 2

\* struct FREEINFO
Region == [addr : Nat, size : Nat]

-----------------------------------------------------------------------------
\* (size + 0xfff) & 0xfffff000
RoundUp(size) == ((size + Page - 1) \div Page) * Page

memman_init == [free |-> << >>, maxfrees |-> 0, losts |-> 0, lostsize |-> 0]

memman_total(m) == MapThenSumSet(LAMBDA i : m.free[i].size, DOMAIN m.free)

\* The entries that are big enough; memman_alloc takes the first.
Fits(m, size) == {i \in DOMAIN m.free : m.free[i].size >= size}

\* A variant with a plausible slip: the entry moves but does not shrink.
TakeKeepsSize(m, i, size) ==
    [m EXCEPT !.free[i].addr = @ + size]

\* The list after taking size bytes from the front of entry i.
Take(m, i, size) ==
    IF m.free[i].size = size
    THEN [m EXCEPT !.free = RemoveAt(@, i)]
    ELSE [m EXCEPT !.free[i] = [addr |-> @.addr + size, size |-> @.size - size]]

\* memman_alloc: 0 when nothing fits.
AllocReturns(m, size) ==
    IF Fits(m, size) = {} THEN 0 ELSE m.free[Min(Fits(m, size))].addr
memman_alloc(m, size) ==
    IF Fits(m, size) = {} THEN m ELSE Take(m, Min(Fits(m, size)), size)

-----------------------------------------------------------------------------
JoinsPrevious(m, i, addr) ==
    i > 1 /\ m.free[i - 1].addr + m.free[i - 1].size = addr
JoinsNext(m, i, addr, size) ==
    i <= Len(m.free) /\ addr + size = m.free[i].addr

\* Variants again: a search that does not search, a second merge forgotten, a
\* block that finds no room is not counted, the last entry used once too often.
PlaceAtEnd(m, addr) == Len(m.free) + 1
HasRoomForOneMore(m) == Len(m.free) <= Frees
JoinBothForgetsNext(m, i, size) == [m EXCEPT !.free[i - 1].size = @ + size]
LoseUncounted(m, size) == [m EXCEPT !.losts = @ + 1]

\* Where memman_free's search stops: the first entry above addr.
Place(m, addr) ==
    LET above == {i \in DOMAIN m.free : m.free[i].addr > addr}
    IN  IF above = {} THEN Len(m.free) + 1 ELSE Min(above)

HasRoom(m) == Len(m.free) < Frees

\* The block closes the gap between entries i-1 and i.
JoinBoth(m, i, size) ==
    [m EXCEPT !.free =
        RemoveAt([m.free EXCEPT ![i - 1].size = @ + size + m.free[i].size], i)]
JoinPrevious(m, i, size) == [m EXCEPT !.free[i - 1].size = @ + size]
JoinNext(m, i, addr, size) ==
    [m EXCEPT !.free[i] = [addr |-> addr, size |-> @.size + size]]
Insert(m, i, addr, size) ==
    [m EXCEPT !.free = InsertAt(@, i, [addr |-> addr, size |-> size]),
              !.maxfrees = Max({@, Len(m.free) + 1})]
\* The list is full: the block is lost for good.
Lose(m, size) == [m EXCEPT !.losts = @ + 1, !.lostsize = @ + size]

memman_free(m, addr, size) ==
    LET i == Place(m, addr)
    IN  IF JoinsPrevious(m, i, addr) /\ JoinsNext(m, i, addr, size)
        THEN JoinBoth(m, i, size)
        ELSE IF JoinsPrevious(m, i, addr) THEN JoinPrevious(m, i, size)
        ELSE IF JoinsNext(m, i, addr, size) THEN JoinNext(m, i, addr, size)
        ELSE IF HasRoom(m) THEN Insert(m, i, addr, size)
        ELSE Lose(m, size)
=============================================================================
