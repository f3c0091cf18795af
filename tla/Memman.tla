------------------------------- MODULE Memman -------------------------------
(***************************************************************************)
(* The memory manager (memory.c) and the blocks its callers hold.          *)
(* Every caller allocates with memman_alloc_4k and frees with              *)
(* memman_free_4k, giving back the size it asked for.                      *)
(***************************************************************************)
EXTENDS MemmanOps

CONSTANTS Low, High,  \* the two regions HariMain gives to memman_free at boot
          Sizes       \* the sizes callers ask for

\* The two regions lie apart, above address 0 and on page boundaries.
ASSUME RegionsAssumption ==
    /\ Low \in Region /\ High \in Region
    /\ Low.addr > 0 /\ Low.size > 0 /\ High.size > 0
    /\ Low.addr + Low.size < High.addr
ASSUME SizesAssumption == Sizes \subseteq Nat

VARIABLES man,        \* struct MEMMAN; frees is Len(man.free)
          held,       \* the blocks callers hold: address and size asked for
          last        \* what the last memman_alloc_4k returned

vars == <<man, held, last>>

\* The addresses of a region.
Span(r) == r.addr .. r.addr + r.size - 1

-----------------------------------------------------------------------------
\* HariMain: memman_init, then one memman_free for each region.
Init == /\ man = memman_free(memman_free(memman_init, Low.addr, Low.size),
                             High.addr, High.size)
        /\ held = {}
        /\ last = 0

\* memman_alloc_4k; a caller that gets an address holds the block.
Alloc(size) ==
    LET a == AllocReturns(man, RoundUp(size))
    IN  /\ man' = memman_alloc(man, RoundUp(size))
        /\ last' = a
        /\ held' = IF a = 0 THEN held ELSE held \cup {[addr |-> a, size |-> size]}

\* memman_free_4k of a block by its holder.
Free(b) == /\ man' = memman_free(man, b.addr, RoundUp(b.size))
           /\ held' = held \ {b}
           /\ UNCHANGED last

Next == \/ \E size \in Sizes : Alloc(size)
        \/ \E b \in held : Free(b)

Spec == Init /\ [][Next]_vars

-----------------------------------------------------------------------------
TypeOK == /\ man \in [free : Seq(Region), maxfrees : 0 .. Frees,
                      losts : Nat, lostsize : Nat]
          /\ Len(man.free) <= Frees
          /\ held \subseteq Region
          /\ last \in Nat

\* What the comments in memman_free rely on: entries are in address order,
\* and no two of them touch, so that a merge is never missed.
FreeListOrdered ==
    /\ \A i \in DOMAIN man.free : man.free[i].size > 0
    /\ \A i, j \in DOMAIN man.free :
           i < j => man.free[i].addr + man.free[i].size < man.free[j].addr

Block(b) == [addr |-> b.addr, size |-> RoundUp(b.size)]

\* No byte has two owners: blocks that callers hold overlap neither each other
\* nor a free region.
NoOverlap ==
    /\ \A b, c \in held : b # c => Span(Block(b)) \cap Span(Block(c)) = {}
    /\ \A b \in held : \A i \in DOMAIN man.free :
           Span(Block(b)) \cap Span(man.free[i]) = {}

\* No byte goes missing: what is free, held, or counted as lost is what the
\* boot code gave to the manager.
Conserved ==
    memman_total(man) + MapThenSumSet(LAMBDA b : RoundUp(b.size), held) + man.lostsize
        = Low.size + High.size

\* The manager allocates from a set of addresses (see PageAllocator.tla).
FreeBytes == UNION {Span(man.free[i]) : i \in DOMAIN man.free}
Allocator == INSTANCE PageAllocator
                 WITH Grain <- Page,
                      Memory <- Span(Low) \cup Span(High),
                      Requests <- Sizes,
                      free <- FreeBytes, owned <- held, result <- last
Implements == Allocator!Spec
=============================================================================
