---------------------------- MODULE ConsoleProofs ----------------------------
(***************************************************************************)
(* Proofs about Console.tla, for a window of any size, any disk, programs  *)
(* and outputs: the cursor stays in the window, the buffer holds what the  *)
(* user sees behind the prompt, every way back to the prompt gives back    *)
(* the memory that was taken, and commands read the file that is meant.    *)
(***************************************************************************)
EXTENDS Console, WellFoundedInduction, SequenceTheorems, FiniteSetTheorems, TLAPS

USE PageAssumption, FreesAssumption

\* What is printed ends a line.
Ends(s) == s # << >> /\ Last(s) = NL
EndsLine == Ends(out) \/ (out = << >> /\ (wrap # "none" \/ col = 0))

\* The buffer holds what was typed.
Holds == \A k \in 0 .. Len(typed) - 1 : cmdline[k] = typed[k + 1]

\* Before the next character is printed there is room for it, unless it is a
\* newline; the prompt begins a line; in the loop the cursor stands behind what
\* was typed, or has the last character of it still to print.
LineInv ==
    /\ TypeOK
    /\ disk \in Disks /\ out \in Seq(Chars)
    /\ col = Columns => wrap # "none" \/ (out # << >> /\ Head(out) = NL)
    /\ pc \in {"prompt", "run"} => EndsLine
    /\ pc = "loop" =>
          /\ wrap = "none" /\ Holds
          /\ \/ out = << >> /\ col = Len(typed) + 1
             \/ Len(out) = 1 /\ Head(out) \notin {NL, Tab, CR} /\ col = Len(typed)
    /\ pc = "run" => Holds /\ cmdline[Len(typed)] = NUL

-----------------------------------------------------------------------------
\* Lemmas about memory.c are those of MemmanProofs.tla, which hold for any list;
\* the regions, sizes and blocks of Memman do not matter to them.
M == INSTANCE MemmanProofs
         WITH Low <- [addr |-> 1, size |-> 1], High <- [addr |-> 3, size |-> 1],
              Sizes <- {1}, held <- {}, last <- 0

\* A list that memory.c works on: entries are not empty, in address order, do not
\* touch, and are as many as have been counted.
Ordered(list) ==
    /\ \A i \in 1 .. Len(list) : list[i].size > 0
    /\ \A i, j \in 1 .. Len(list) :
           i < j => list[i].addr + list[i].size < list[j].addr
Counted(m) ==
    /\ m \in [free : Seq(Region), maxfrees : 0 .. Frees, losts : Nat, lostsize : Nat]
    /\ Len(m.free) <= Frees /\ Ordered(m.free) /\ Len(m.free) <= m.maxfrees

\* MemmanProofs.tla's assumptions hold for these parameters.
LEMMA MParameters ==
    /\ [addr |-> 1, size |-> 1] \in Region /\ [addr |-> 3, size |-> 1] \in Region
    /\ {1} \subseteq Nat
BY DEF Region

\* MemmanProofs.tla means the same functions of memory.c: first what they share.
LEMMA SameParts ==
    /\ M!Region = Region
    /\ \A m : M!Counted(m) <=> Counted(m)
    /\ \A S : M!Min(S) = Min(S) /\ M!Max(S) = Max(S)
    /\ \A s, i : M!RemoveAt(s, i) = RemoveAt(s, i)
    /\ \A s, i, e : M!InsertAt(s, i, e) = InsertAt(s, i, e)
    /\ \A m, size : M!Fits(m, size) = Fits(m, size)
    /\ \A m, addr : M!Place(m, addr) = Place(m, addr)
<1>1. M!Region = Region
  BY DEF M!Region, Region
<1>2. \A l : M!Ordered(l) <=> Ordered(l)
  BY DEF M!Ordered, Ordered
<1>3. \A m : M!Counted(m) <=> Counted(m)
  BY <1>1, <1>2 DEF M!Counted, M!Sound, M!ManType, Counted
<1>4. \A S : M!Min(S) = Min(S) /\ M!Max(S) = Max(S)
  BY DEF M!Min, Min, M!Max, Max
<1>5. \A s, i : M!RemoveAt(s, i) = RemoveAt(s, i)
  BY DEF M!RemoveAt, RemoveAt
<1>6. \A s, i, e : M!InsertAt(s, i, e) = InsertAt(s, i, e)
  BY DEF M!InsertAt, InsertAt
<1>7. \A m, size : M!Fits(m, size) = Fits(m, size)
  BY DEF M!Fits, Fits
<1>8. \A m, addr : M!Place(m, addr) = Place(m, addr)
  BY <1>4 DEF M!Place, Place
<1>9. QED
  BY <1>1, <1>3, <1>4, <1>5, <1>6, <1>7, <1>8

\* Then memman_alloc and memman_free.
LEMMA SameFunctions ==
    /\ \A m, size : /\ M!memman_alloc(m, size) = memman_alloc(m, size)
                    /\ M!AllocReturns(m, size) = AllocReturns(m, size)
    /\ \A m, addr, size : M!memman_free(m, addr, size) = memman_free(m, addr, size)
<1>1. \A m, i, size : M!Take(m, i, size) = Take(m, i, size)
  BY SameParts DEF M!Take, Take
<1>2. \A m, size : /\ M!memman_alloc(m, size) = memman_alloc(m, size)
                   /\ M!AllocReturns(m, size) = AllocReturns(m, size)
  BY <1>1, SameParts DEF M!memman_alloc, memman_alloc, M!AllocReturns, AllocReturns
<1>3. ASSUME NEW m, NEW i, NEW addr, NEW size
      PROVE  /\ M!JoinsPrevious(m, i, addr) <=> JoinsPrevious(m, i, addr)
             /\ M!JoinsNext(m, i, addr, size) <=> JoinsNext(m, i, addr, size)
             /\ M!HasRoom(m) <=> HasRoom(m)
  BY DEF M!JoinsPrevious, JoinsPrevious, M!JoinsNext, JoinsNext, M!HasRoom, HasRoom
<1>4. ASSUME NEW m, NEW i, NEW addr, NEW size
      PROVE  /\ M!JoinBoth(m, i, size) = JoinBoth(m, i, size)
             /\ M!JoinPrevious(m, i, size) = JoinPrevious(m, i, size)
             /\ M!JoinNext(m, i, addr, size) = JoinNext(m, i, addr, size)
             /\ M!Insert(m, i, addr, size) = Insert(m, i, addr, size)
             /\ M!Lose(m, size) = Lose(m, size)
  BY SameParts DEF M!JoinBoth, JoinBoth, M!JoinPrevious, JoinPrevious,
                   M!JoinNext, JoinNext, M!Insert, Insert, M!Lose, Lose
<1>5. \A m, addr, size : M!memman_free(m, addr, size) = memman_free(m, addr, size)
  BY <1>3, <1>4, SameParts DEF M!memman_free, memman_free
<1>6. QED
  BY <1>2, <1>5

\* Freeing what was just allocated gives back the list that was there before.
LEMMA FreeUndoesAlloc ==
    ASSUME NEW m, Counted(m), NEW size \in Nat, size > 0, Fits(m, size) # {}
    PROVE  /\ memman_free(memman_alloc(m, size), AllocReturns(m, size), size) = m
           /\ Counted(memman_alloc(m, size))
<1>1. M!Counted(m) /\ M!Fits(m, size) # {}
  BY SameParts
<1>2. /\ M!memman_free(M!memman_alloc(m, size), M!AllocReturns(m, size), size) = m
      /\ M!Counted(M!memman_alloc(m, size))
  BY <1>1, MParameters, SameParts, M!FreeUndoesAlloc
<1>3. QED
  BY <1>2, SameParts, SameFunctions

\* A non-empty set of natural numbers has a least element.
LEMMA MinOfNats ==
    ASSUME NEW T, T \subseteq Nat, T # {}
    PROVE  Min(T) \in T /\ \A y \in T : Min(T) <= y
<1>1. \E x \in T : \A y \in T : ~ (<<y, x>> \in OpToRel(<, Nat))
  BY WFMin, NatLessThanWellFounded, Zenon
<1>2. \A x, y \in Nat : y < x => <<y, x>> \in OpToRel(<, Nat)
  BY Zenon DEF OpToRel
<1>3. PICK x \in T : \A y \in T : ~ (y < x)
  BY <1>1, <1>2, Zenon
<1>4. \E z \in T : \A y \in T : z <= y
  BY <1>3
<1>5. QED
  BY <1>4 DEF Min

\* The greater of two numbers is one of them.
LEMMA MaxOfTwo ==
    ASSUME NEW a \in Nat, NEW b \in Nat
    PROVE  Max({a, b}) \in {a, b}
<1>1. \E x \in {a, b} : \A y \in {a, b} : x >= y
  OBVIOUS
<1>2. QED
  BY <1>1 DEF Max

\* Rounding up a size that is not 0 gives a size that is not 0.
LEMMA RoundUpType ==
    ASSUME NEW size \in Nat
    PROVE  /\ RoundUp(size) \in Nat
           /\ size > 0 => RoundUp(size) > 0
<1> DEFINE n == size + Page - 1
<1>1. n \in Nat
  OBVIOUS
<1>2. n \div Page \in Nat
  BY <1>1
<1>3. size > 0 => n \div Page >= 1
  BY <1>1
<1>4. QED
  BY <1>2, <1>3 DEF RoundUp

-----------------------------------------------------------------------------
(* What is assumed of the constants.                                        *)

\* The window has room for the prompt, a character and the newline.
LEMMA WindowSize == Columns \in Nat /\ Columns >= 3 /\ Rows \in Nat /\ Rows > 0
BY ConsoleAssumption

\* The characters that are typed and printed.
LEMMA CharsKnown ==
    /\ Text \in Chars /\ NL \in Chars
    /\ \A c \in Letters : c \in Chars /\ c # NUL /\ c \notin {NL, Tab, CR}
    /\ \A s \in Outputs : s \in Seq(Chars)
BY ConsoleAssumption

\* Every file on a disk has a size and can be read.
LEMMA DiskKnown ==
    ASSUME NEW d \in Disks
    PROVE  /\ Len(d.dir) \in Nat /\ Listed(d.dir) \subseteq 1 .. Len(d.dir)
           /\ \A i \in Listed(d.dir) : ~ d.dir[i].special =>
                 /\ d.dir[i].size \in Nat
                 /\ file_LoadFile(d.dir[i].clustno, d.dir[i].size, d.img) \in Seq(Chars)
BY DiskAssumption DEF Listed

-----------------------------------------------------------------------------
\* The texts the console prints itself end a line.
LEMMA Texts ==
    /\ \A s \in {MemText, BadText, NotFoundText, FormatText, ExceptionText, BreakText,
                 <<NL>>} : s \in Seq(Chars) /\ Ends(s)
    /\ <<Text>> \in Seq(Chars) /\ Len(<<Text>>) = 1 /\ Head(<<Text>>) = Text
    /\ BreakText # << >> /\ Head(BreakText) = NL
    /\ Text \notin {NL, Tab, CR}
<1>1. Text \in Chars /\ NL \in Chars
  BY CharsKnown
<1>2. MemText \in Seq(Chars) /\ Ends(MemText)
  BY <1>1 DEF MemText, Ends, Last
<1>3. BadText \in Seq(Chars) /\ Ends(BadText) /\ NotFoundText = BadText
  BY <1>1 DEF BadText, NotFoundText, Ends, Last
<1>4. FormatText \in Seq(Chars) /\ Ends(FormatText)
  BY <1>1 DEF FormatText, Ends, Last
<1>5. ExceptionText \in Seq(Chars) /\ Ends(ExceptionText)
  BY <1>1 DEF ExceptionText, Ends, Last
<1>6. BreakText \in Seq(Chars) /\ Ends(BreakText) /\ BreakText # << >> /\ Head(BreakText) = NL
  BY <1>1 DEF BreakText, Ends, Last
<1>7. <<NL>> \in Seq(Chars) /\ Ends(<<NL>>)
  BY <1>1 DEF Ends, Last
<1>8. <<Text>> \in Seq(Chars) /\ Len(<<Text>>) = 1 /\ Head(<<Text>>) = Text
  BY <1>1
<1>9. Text \notin {NL, Tab, CR}
  BY DEF Text, NL, Tab, CR
<1>10. QED
  BY <1>2, <1>3, <1>4, <1>5, <1>6, <1>7, <1>8, <1>9

\* cmd_dir ends with a newline, whatever the directory.
LEMMA DirTextEnds ==
    ASSUME disk \in Disks
    PROVE  DirText \in Seq(Chars) /\ Ends(DirText)
<1> DEFINE lines == {i \in Listed(disk.dir) : ~ disk.dir[i].special /\ ~ disk.dir[i].deleted}
<1>1. lines \in SUBSET (1 .. Len(disk.dir)) /\ Len(disk.dir) \in Nat
  BY DiskKnown
<1>2. Cardinality(lines) \in Nat
  <2>1. IsFiniteSet(1 .. Len(disk.dir))
    <3>1. 1 \in Int /\ Len(disk.dir) \in Int
      BY <1>1
    <3>2. QED
      BY <3>1, FS_Interval
  <2>2. IsFiniteSet(lines)
    BY <1>1, <2>1, FS_Subset
  <2>3. QED
    BY <2>2, FS_CardinalityType
<1>3. PICK n \in Nat : n = Cardinality(lines)
  BY <1>2
<1>4. DirText = [i \in 1 .. 2 * n + 1 |-> IF i % 2 = 1 /\ i <= 2 * n THEN Text ELSE NL]
  BY <1>3 DEF DirText
<1>5. Text \in Chars /\ NL \in Chars
  BY CharsKnown
<1>6. 2 * n + 1 \in Nat \ {0}
  OBVIOUS
<1>7. DirText \in Seq(Chars) /\ Len(DirText) = 2 * n + 1
  BY <1>4, <1>5, <1>6
<1>8. DirText[2 * n + 1] = NL
  BY <1>4, <1>6
<1>9. QED
  BY <1>6, <1>7, <1>8 DEF Ends, Last

\* file_Search finds nothing or a file that is listed.
LEMMA FoundFile ==
    ASSUME NEW d \in Disks, NEW name
    PROVE  /\ Listed(d.dir) \subseteq 1 .. Len(d.dir) /\ Len(d.dir) \in Nat
           /\ file_Search(name, d.dir) # 0 =>
                  /\ file_Search(name, d.dir) \in Listed(d.dir)
                  /\ ~ d.dir[file_Search(name, d.dir)].special
<1> DEFINE hits == {i \in Listed(d.dir) : ~ d.dir[i].special /\ d.dir[i].name = Key(name).s}
<1>1. Listed(d.dir) \subseteq 1 .. Len(d.dir) /\ Len(d.dir) \in Nat
  BY DiskKnown
<1>2. hits \subseteq Nat
  BY <1>1
<1>3. hits # {} => Min(hits) \in hits
  BY <1>2, MinOfNats
<1>4. file_Search(name, d.dir) = IF Key(name).tooLong \/ hits = {} THEN 0 ELSE Min(hits)
  BY DEF file_Search
<1>5. QED
  BY <1>1, <1>3, <1>4

\* A program that is found is a file of the disk.
LEMMA FoundApp ==
    ASSUME NEW d \in Disks, NEW name, disk = d
    PROVE  SearchApp(name) # 0 =>
               SearchApp(name) \in Listed(d.dir) /\ ~ d.dir[SearchApp(name)].special
BY FoundFile DEF SearchApp

\* What is loaded can be printed.
LEMMA LoadedChars ==
    ASSUME NEW d \in Disks, disk = d, NEW f \in Listed(d.dir), ~ d.dir[f].special
    PROVE  Loaded(d.dir[f]) \in Seq(Chars)
BY DiskKnown DEF Loaded

-----------------------------------------------------------------------------
\* The console starts with an empty line.
LEMMA LineInit == Init => LineInv
<1> SUFFICES ASSUME Init PROVE LineInv
  OBVIOUS
<1>1. PICK c \in Letters \cup {NUL} : cmdline = [i \in 0 .. Columns - 1 |-> c]
  BY DEF Init
<1>2. cmdline \in [0 .. Columns - 1 -> Letters \cup {NUL}]
  BY <1>1
<1>3. col \in 0 .. Columns /\ row \in 0 .. Rows - 1 /\ col = 0
  BY WindowSize DEF Init
<1>4. disk \in Disks /\ out = << >> /\ typed = << >> /\ file = 0 /\ pc = "prompt" /\ wrap = "none"
      /\ ss0 = 0
  BY DEF Init
<1>5. Len(disk.dir) \in Nat
  BY <1>4, DiskKnown
<1>6. typed \in Seq(Letters) /\ Len(typed) = 0 /\ out \in Seq(Chars)
  BY <1>4, EmptySeq
<1>7. TypeOK
  BY WindowSize, <1>2, <1>3, <1>4, <1>5, <1>6 DEF TypeOK
<1>8. QED
  BY WindowSize, <1>3, <1>4, <1>6, <1>7 DEF LineInv, EndsLine

\* What a sequence leaves when its first element is taken.
LEMMA TailEnds ==
    ASSUME NEW S, NEW s \in Seq(S), s # << >>
    PROVE  /\ Tail(s) \in Seq(S) /\ Head(s) \in S
           /\ Len(s) = 1 => Tail(s) = << >> /\ Head(s) = Last(s)
           /\ Len(s) # 1 => Tail(s) # << >> /\ Last(Tail(s)) = Last(s)
<1>1. Len(s) \in Nat /\ Len(s) # 0
  BY LenProperties, EmptySeq
<1>2. /\ Head(s) \in S /\ Tail(s) \in Seq(S) /\ Len(Tail(s)) = Len(s) - 1
      /\ \A i \in 1 .. Len(Tail(s)) : Tail(s)[i] = s[i + 1]
  BY HeadTailProperties
<1>3. Head(s) = s[1]
  OBVIOUS
<1>4. CASE Len(s) = 1
  <2>1. Len(Tail(s)) = 0
    BY <1>2, <1>4
  <2>2. Tail(s) = << >>
    BY <1>2, <2>1, EmptySeq
  <2>3. Head(s) = Last(s)
    BY <1>3, <1>4 DEF Last
  <2>4. QED
    BY <1>2, <1>4, <2>2, <2>3
<1>5. CASE Len(s) # 1
  <2>1. PICK n \in Nat : n = Len(s)
    BY <1>1
  <2>2. n - 1 \in 1 .. n - 1 /\ Len(Tail(s)) = n - 1 /\ (n - 1) + 1 = n
    BY <1>1, <1>2, <1>5, <2>1
  <2>3. Tail(s)[n - 1] = s[n]
    BY <1>2, <2>2
  <2>4. Last(Tail(s)) = Last(s)
    BY <2>1, <2>2, <2>3 DEF Last
  <2>5. Tail(s) # << >>
    <3>1. Len(Tail(s)) # 0
      BY <2>2
    <3>2. Len(<< >>) = 0
      OBVIOUS
    <3>3. QED
      BY <3>1, <3>2
  <2>6. QED
    BY <1>2, <1>5, <2>4, <2>5
<1>6. QED
  BY <1>4, <1>5

\* Printing: the next character, or a half of console_newline.
LEMMA PrintKeepsLine == LineInv /\ PrintStep => LineInv'
<1> SUFFICES ASSUME LineInv, PrintStep PROVE LineInv'
  OBVIOUS
<1>1. UNCHANGED <<cmdline, man, disk, fat, pc, file, loaded, p, q, ss0, typed, fault>>
  BY DEF PrintStep, NewlineRow, NewlineCol, console_putchar
<1>2. /\ col \in 0 .. Columns /\ row \in 0 .. Rows - 1
      /\ wrap \in {"none", "row", "col"} /\ out \in Seq(Chars)
      /\ typed \in Seq(Letters) /\ Len(typed) \in Nat /\ Len(typed) <= Columns - 2
  BY LenProperties DEF LineInv, TypeOK
<1>0. Columns \in Nat /\ Columns > 0 /\ Rows \in Nat
  BY WindowSize
<1>3. ASSUME col' \in 0 .. Columns /\ row' \in 0 .. Rows - 1, wrap' \in {"none", "row", "col"}
      PROVE  TypeOK'
  BY <1>1, <1>3 DEF LineInv, TypeOK
<1>4. CASE NewlineRow
  <2>1. /\ wrap = "row" /\ wrap' = "col" /\ out' = out /\ col' = col
        /\ col' \in 0 .. Columns /\ row' \in 0 .. Rows - 1
    BY <1>0, <1>2, <1>4 DEF NewlineRow
  <2>2. TypeOK'
    BY <1>3, <2>1
  <2>3. pc # "loop"
    BY <2>1 DEF LineInv
  <2>4. QED
    BY <1>1, <2>1, <2>2, <2>3 DEF LineInv, EndsLine, Ends, Holds
<1>5. CASE NewlineCol
  <2>1. /\ wrap = "col" /\ wrap' = "none" /\ out' = out /\ col' = 0
        /\ col' \in 0 .. Columns /\ row' \in 0 .. Rows - 1
    BY <1>0, <1>2, <1>5 DEF NewlineCol
  <2>2. TypeOK'
    BY <1>3, <2>1
  <2>3. pc # "loop"
    BY <2>1 DEF LineInv
  <2>4. QED
    BY <1>0, <1>1, <2>1, <2>2, <2>3 DEF LineInv, EndsLine, Ends, Holds
<1>6. CASE console_putchar
  <2>1. out # << >> /\ wrap = "none"
    BY <1>6 DEF console_putchar
  <2>2. /\ Tail(out) \in Seq(Chars) /\ Head(out) \in Chars
        /\ Len(out) = 1 => Tail(out) = << >> /\ Head(out) = Last(out)
        /\ Len(out) # 1 => Tail(out) # << >> /\ Last(Tail(out)) = Last(out)
    BY <1>2, <2>1, TailEnds
  <2>3. pc \in {"prompt", "run"} => Last(out) = NL
    BY <2>1 DEF LineInv, EndsLine, Ends
  <2>4. CASE Head(out) = NL
    <3>1. wrap' = "row" /\ out' = Tail(out) /\ col' = col /\ row' = row
      BY <1>6, <2>4 DEF console_putchar, NL, CR
    <3>2. TypeOK'
      BY <1>2, <1>3, <3>1
    <3>3. pc # "loop"
      BY <2>1, <2>4 DEF LineInv
    <3>4. pc \in {"prompt", "run"} => EndsLine'
      BY <2>2, <2>3, <3>1 DEF EndsLine, Ends
    <3>5. QED
      BY <1>1, <2>2, <3>1, <3>2, <3>3, <3>4 DEF LineInv, Holds
  <2>5. CASE Head(out) = CR
    <3>1. wrap' = "none" /\ out' = Tail(out) /\ col' = col /\ row' = row
      BY <1>6, <2>1, <2>5 DEF console_putchar, NL, CR
    <3>2. TypeOK'
      BY <1>2, <1>3, <3>1
    <3>3. pc # "loop"
      BY <2>1, <2>5 DEF LineInv
    <3>4. pc \in {"prompt", "run"} => EndsLine'
      <4>1. pc \in {"prompt", "run"} => Len(out) # 1
        BY <2>2, <2>3, <2>5 DEF NL, CR
      <4>2. QED
        BY <2>2, <2>3, <3>1, <4>1 DEF EndsLine, Ends
    <3>5. col # Columns
      BY <2>1, <2>5 DEF LineInv, NL, CR
    <3>6. QED
      BY <1>1, <2>2, <3>1, <3>2, <3>3, <3>4, <3>5 DEF LineInv, Holds
  <2>6. CASE Head(out) \notin {NL, CR}
    <3>1. Advance(Head(out))
      BY <1>6, <2>6 DEF console_putchar
    <3>2. col # Columns
      BY <2>1, <2>6 DEF LineInv
    <3>3. /\ col' \in 0 .. Columns /\ row' \in 0 .. Rows - 1
          /\ col' = col + 1
      BY <1>0, <1>2, <1>6, <3>1, <3>2 DEF Advance, console_putchar
    <3>4. wrap' = IF col + 1 = Columns THEN "row" ELSE "none"
      BY <3>1 DEF Advance
    <3>5. out' = Tail(out) \/ out' = out
      BY <3>1 DEF Advance
    <3>6. TypeOK'
      BY <1>3, <3>3, <3>4
    <3>7. pc \in {"prompt", "run"} => EndsLine'
      <4>1. pc \in {"prompt", "run"} => Len(out) # 1
        BY <2>2, <2>3, <2>6, Zenon
      <4>2. QED
        <5>1. pc' = pc
          BY <1>1
        <5>2. ASSUME pc \in {"prompt", "run"} PROVE out' # << >> /\ Last(out') = NL
          BY <2>1, <2>2, <2>3, <3>5, <4>1, <5>2
        <5>3. QED
          BY <5>1, <5>2, Zenon DEF EndsLine, Ends
    <3>8. ASSUME pc = "loop"
          PROVE  wrap' = "none" /\ out' = << >> /\ col' = Len(typed) + 1 /\ Holds
      <4>1. Len(out) = 1 /\ Head(out) \notin {NL, Tab, CR} /\ col = Len(typed) /\ Holds
        BY <2>1, <3>8 DEF LineInv
      <4>2. col + 1 # Columns
        BY <1>0, <1>2, <4>1
      <4>3. out' = Tail(out)
        BY <3>1, <4>1 DEF Advance
      <4>4. QED
        BY <2>2, <3>3, <3>4, <4>1, <4>2, <4>3
    <3>9. pc = "run" => Holds /\ cmdline[Len(typed)] = NUL
      BY DEF LineInv
    <3>10. out' \in Seq(Chars) /\ disk' \in Disks
      BY <1>1, <1>2, <2>2, <3>5 DEF LineInv
    <3>11. col' = Columns => wrap' # "none"
      BY <3>3, <3>4
    <3>12. Holds => Holds'
      BY <1>1 DEF Holds
    <3>13. QED
      BY <1>1, <3>3, <3>6, <3>7, <3>8, <3>9, <3>10, <3>11, <3>12 DEF LineInv
  <2>7. QED
    BY <2>4, <2>5, <2>6
<1>7. QED
  BY <1>4, <1>5, <1>6 DEF PrintStep

\* Where nothing is left to print, the cursor stands in a column.
LEMMA QuietColumn ==
    ASSUME LineInv, Quiet
    PROVE  /\ col \in 0 .. Columns - 1 /\ row \in 0 .. Rows - 1
           /\ out = << >> /\ wrap = "none"
           /\ pc \in {"prompt", "run"} => col = 0
           /\ pc = "loop" => Holds /\ col = Len(typed) + 1
<1>1. out = << >> /\ wrap = "none"
  BY DEF Quiet
<1>2. col \in 0 .. Columns /\ row \in 0 .. Rows - 1
  BY DEF LineInv, TypeOK
<1>3. col # Columns
  BY <1>1 DEF LineInv
<1>4. pc \in {"prompt", "run"} => col = 0
  BY <1>1 DEF LineInv, EndsLine, Ends
<1>5. pc = "loop" => Holds /\ col = Len(typed) + 1
  <2>1. Len(out) = 0
    BY <1>1
  <2>2. QED
    BY <1>1, <2>1 DEF LineInv
<1>6. QED
  BY WindowSize, <1>1, <1>2, <1>3, <1>4, <1>5

\* A step of the console that has something printed and leaves the line alone.
LEMMA PrintsKeepsLine ==
    ASSUME LineInv, Quiet, TypeOK', NEW s \in Seq(Chars), out' = s,
           pc' \notin {"loop", "run"}, pc' = "prompt" => Ends(s) \/ (s = << >> /\ col' = 0),
           UNCHANGED <<disk, wrap>>, col' = col
    PROVE  LineInv'
<1>1. col # Columns /\ wrap = "none"
  BY QuietColumn, WindowSize
<1>2. disk' \in Disks /\ out' \in Seq(Chars)
  BY DEF LineInv
<1>3. pc' \in {"prompt", "run"} => EndsLine'
  BY <1>1 DEF EndsLine, Ends
<1>4. QED
  BY <1>1, <1>2, <1>3 DEF LineInv

\* The console's loop: the prompt, a letter, Backspace, Enter.
LEMMA PromptKeepsLine == LineInv /\ Prompt => LineInv'
<1> SUFFICES ASSUME LineInv, Prompt PROVE LineInv'
  OBVIOUS
<1>1. Quiet /\ pc = "prompt"
  BY DEF Prompt, At
<1>2. /\ pc' = "loop" /\ out' = <<Text>> /\ typed' = << >> /\ file' = 0
      /\ UNCHANGED <<col, row, cmdline, disk, wrap, ss0>>
  BY DEF Prompt, Prints
<1>3. col = 0 /\ wrap = "none"
  BY <1>1, QuietColumn
<1>4. /\ <<Text>> \in Seq(Chars) /\ Len(<<Text>>) = 1 /\ Head(<<Text>>) = Text
      /\ Text \notin {NL, Tab, CR}
  BY Texts
<1>5. typed' \in Seq(Letters) /\ Len(typed') = 0
  BY <1>2, EmptySeq
<1>6. Len(disk.dir) \in Nat
  BY DiskKnown DEF LineInv
<1>7. TypeOK'
  BY <1>1, <1>2, <1>5, <1>6, WindowSize DEF LineInv, TypeOK
<1>8. Holds'
  BY <1>5 DEF Holds
<1>9. QED
  BY <1>2, <1>3, <1>4, <1>5, <1>7, <1>8, WindowSize DEF LineInv

\* The letter is added to the buffer where the screen shows it.
LEMMA TypeLetterKeepsLine == LineInv /\ (\E c \in Letters : TypeLetter(c)) => LineInv'
<1> SUFFICES ASSUME LineInv, NEW c \in Letters, TypeLetter(c) PROVE LineInv'
  OBVIOUS
<1>1. Quiet /\ pc = "loop" /\ col < Columns - 1
  BY DEF TypeLetter, At, RoomInLine
<1>2. /\ pc' = "loop" /\ out' = <<c>> /\ typed' = Append(typed, c)
      /\ cmdline' = [cmdline EXCEPT ![col - 1] = c]
      /\ UNCHANGED <<col, row, disk, wrap, file, ss0>>
  BY DEF TypeLetter, Prints
<1>3. col = Len(typed) + 1 /\ Holds /\ wrap = "none"
  BY <1>1, QuietColumn
<1>4. c \in Chars /\ c # NUL /\ c \notin {NL, Tab, CR}
  BY CharsKnown
<1>5. <<c>> \in Seq(Chars) /\ Len(<<c>>) = 1 /\ Head(<<c>>) = c
  BY <1>4
<1>6. typed \in Seq(Letters) /\ cmdline \in [0 .. Columns - 1 -> Letters \cup {NUL}]
  BY DEF LineInv, TypeOK
<1>7. PICK n \in Nat : n = Len(typed)
  BY <1>6, LenProperties
<1>8. /\ typed' \in Seq(Letters) /\ Len(typed') = n + 1 /\ typed'[n + 1] = c
      /\ \A i \in 1 .. n : typed'[i] = typed[i]
  BY <1>2, <1>6, <1>7, AppendProperties
<1>9. n \in 0 .. Columns - 1 /\ col - 1 = n /\ n + 1 <= Columns - 2 /\ Columns \in Nat
  BY <1>1, <1>3, <1>7, WindowSize
<1>10. /\ cmdline' \in [0 .. Columns - 1 -> Letters \cup {NUL}]
       /\ cmdline'[n] = c /\ \A k \in 0 .. Columns - 1 : k # n => cmdline'[k] = cmdline[k]
  BY <1>2, <1>6, <1>9
<1>11. TypeOK'
  BY <1>1, <1>2, <1>8, <1>9, <1>10 DEF LineInv, TypeOK
<1>12. Holds'
  <2>1. ASSUME NEW k \in 0 .. Len(typed') - 1 PROVE cmdline'[k] = typed'[k + 1]
    <3>1. k \in 0 .. n
      BY <1>8, <1>9
    <3>2. CASE k = n
      BY <1>8, <1>10, <3>2
    <3>3. CASE k # n
      <4>1. k \in 0 .. n - 1 /\ k + 1 \in 1 .. n /\ k \in 0 .. Columns - 1
        BY <1>9, <3>1, <3>3
      <4>2. cmdline[k] = typed[k + 1]
        BY <1>3, <1>7, <4>1 DEF Holds
      <4>3. QED
        BY <1>8, <1>10, <3>3, <4>1, <4>2
    <3>4. QED
      BY <3>2, <3>3
  <2>2. QED
    BY <2>1 DEF Holds
<1>13. col # Columns /\ disk' \in Disks /\ col' = Len(typed')
  BY <1>2, <1>3, <1>7, <1>8, <1>9 DEF LineInv
<1>14. QED
  BY <1>2, <1>3, <1>4, <1>5, <1>11, <1>12, <1>13 DEF LineInv

\* Backspace takes the last letter away on both sides.
LEMMA BackspaceKeepsLine == LineInv /\ Backspace => LineInv'
<1> SUFFICES ASSUME LineInv, Backspace PROVE LineInv'
  OBVIOUS
<1>1. Quiet /\ pc = "loop" /\ col > 1
  BY DEF Backspace, At
<1>2. /\ col' = col - 1 /\ typed' = Front(typed)
      /\ UNCHANGED <<row, cmdline, disk, pc, out, wrap, file, ss0>>
  BY DEF Backspace
<1>3. col = Len(typed) + 1 /\ Holds /\ wrap = "none" /\ out = << >> /\ col \in 0 .. Columns - 1
  BY <1>1, QuietColumn
<1>4. typed \in Seq(Letters)
  BY DEF LineInv, TypeOK
<1>5. PICK n \in Nat : n = Len(typed)
  BY <1>4, LenProperties
<1>6. n > 0 /\ Columns \in Nat /\ n <= Columns - 2
  BY <1>1, <1>3, <1>5, WindowSize DEF LineInv, TypeOK
<1>7. /\ typed' \in Seq(Letters) /\ Len(typed') = n - 1
      /\ \A i \in 1 .. n - 1 : typed'[i] = typed[i]
  <2>1. typed' = SubSeq(typed, 1, n - 1)
    BY <1>2, <1>5 DEF Front
  <2>2. QED
    BY <1>4, <1>5, <1>6, <2>1
<1>8. TypeOK'
  BY <1>2, <1>3, <1>6, <1>7 DEF LineInv, TypeOK
<1>9. Holds'
  <2>1. ASSUME NEW k \in 0 .. Len(typed') - 1 PROVE cmdline'[k] = typed'[k + 1]
    <3>1. k \in 0 .. n - 1 /\ k + 1 \in 1 .. n - 1
      BY <1>6, <1>7
    <3>2. cmdline[k] = typed[k + 1]
      BY <1>3, <1>5, <3>1 DEF Holds
    <3>3. QED
      BY <1>2, <1>7, <3>1, <3>2
  <2>2. QED
    BY <2>1 DEF Holds
<1>10. col' = Len(typed') + 1 /\ col' # Columns /\ disk' \in Disks /\ out' \in Seq(Chars)
  BY <1>2, <1>3, <1>5, <1>6, <1>7 DEF LineInv
<1>11. QED
  BY <1>1, <1>2, <1>3, <1>8, <1>9, <1>10 DEF LineInv

\* Enter ends the line at the cursor.
LEMMA EnterKeepsLine == LineInv /\ Enter => LineInv'
<1> SUFFICES ASSUME LineInv, Enter PROVE LineInv'
  OBVIOUS
<1>1. Quiet /\ pc = "loop"
  BY DEF Enter, At
<1>2. /\ pc' = "run" /\ out' = <<NL>> /\ cmdline' = [cmdline EXCEPT ![col - 1] = NUL]
      /\ UNCHANGED <<col, row, disk, typed, wrap, file, ss0>>
  BY DEF Enter, Prints
<1>3. col = Len(typed) + 1 /\ Holds /\ wrap = "none" /\ col \in 0 .. Columns - 1
  BY <1>1, QuietColumn
<1>4. typed \in Seq(Letters) /\ cmdline \in [0 .. Columns - 1 -> Letters \cup {NUL}]
  BY DEF LineInv, TypeOK
<1>5. PICK n \in Nat : n = Len(typed)
  BY <1>4, LenProperties
<1>6. n \in 0 .. Columns - 1 /\ col - 1 = n /\ Columns \in Nat
  BY <1>3, <1>5, WindowSize
<1>7. /\ cmdline' \in [0 .. Columns - 1 -> Letters \cup {NUL}]
      /\ cmdline'[n] = NUL /\ \A k \in 0 .. Columns - 1 : k # n => cmdline'[k] = cmdline[k]
  BY <1>2, <1>4, <1>6
<1>8. TypeOK'
  BY <1>1, <1>2, <1>7 DEF LineInv, TypeOK
<1>9. Holds'
  <2>1. ASSUME NEW k \in 0 .. n - 1 PROVE cmdline'[k] = typed[k + 1]
    <3>1. k \in 0 .. Columns - 1 /\ k # n
      BY <1>6
    <3>2. QED
      BY <1>3, <1>5, <1>7, <3>1 DEF Holds
  <2>2. QED
    BY <1>2, <1>5, <2>1 DEF Holds
<1>10. out' \in Seq(Chars) /\ Ends(out') /\ disk' \in Disks
  BY <1>2, Texts DEF LineInv
<1>11. col # Columns /\ cmdline'[Len(typed')] = NUL
  BY <1>2, <1>3, <1>5, <1>6, <1>7
<1>12. QED
  BY <1>2, <1>8, <1>9, <1>10, <1>11 DEF LineInv, EndsLine

-----------------------------------------------------------------------------
\* Commands and programs: each prints something and goes on, and what it prints
\* before the prompt ends a line.
LEMMA RunPrintingKeepsLine == LineInv /\ RunPrinting => LineInv'
<1> SUFFICES ASSUME LineInv, RunPrinting PROVE LineInv'
  OBVIOUS
<1>1. Quiet /\ pc = "run"
  BY DEF RunPrinting, At
<1>2. /\ pc' = "prompt" /\ UNCHANGED <<col, cmdline, disk, wrap, file, ss0, typed>>
      /\ row' = row \/ row' = 0
      /\ out' \in {MemText, << >>, DirText}
  BY DEF RunPrinting, Prints
<1>3. col = 0
  BY <1>1, QuietColumn
<1>4. TypeOK'
  BY <1>1, <1>2, WindowSize DEF LineInv, TypeOK
<1>5. out' \in Seq(Chars) /\ (Ends(out') \/ out' = << >>)
  BY <1>2, Texts, DirTextEnds, EmptySeq DEF LineInv
<1>6. QED
  BY <1>1, <1>2, <1>3, <1>4, <1>5, PrintsKeepsLine

\* The command type: not found, or a file to print.
LEMMA RunTypeKeepsLine == LineInv /\ RunType => LineInv'
<1> SUFFICES ASSUME LineInv, RunType PROVE LineInv'
  OBVIOUS
<1>1. Quiet /\ pc = "run"
  BY DEF RunType, At
<1>2. /\ UNCHANGED <<col, row, cmdline, disk, wrap, ss0, typed>>
      /\ file' = file_Search(CString(cmdline, Len(TypeWord) + 1), disk.dir)
      /\ \/ out' = NotFoundText /\ pc' = "prompt"
         \/ /\ file' # 0 /\ loaded' = Loaded(disk.dir[file'])
            /\ out' = loaded' /\ pc' = "typing"
  BY DEF RunType, Prints, Load
<1>3. /\ file' # 0 => file' \in Listed(disk.dir) /\ ~ disk.dir[file'].special
      /\ Listed(disk.dir) \subseteq 1 .. Len(disk.dir) /\ Len(disk.dir) \in Nat
  BY <1>2, FoundFile DEF LineInv
<1>4. TypeOK'
  BY <1>1, <1>2, <1>3 DEF LineInv, TypeOK
<1>5. out' \in Seq(Chars) /\ (pc' = "prompt" => Ends(out'))
  BY <1>2, <1>3, Texts, LoadedChars DEF LineInv
<1>6. QED
  BY <1>1, <1>2, <1>4, <1>5, PrintsKeepsLine

\* The search for a program and the start of it.
LEMMA RunAppKeepsLine == LineInv /\ RunApp => LineInv'
<1> SUFFICES ASSUME LineInv, RunApp PROVE LineInv'
  OBVIOUS
<1>1. Quiet /\ pc = "run"
  BY DEF RunApp, At
<1>2. /\ UNCHANGED <<col, row, cmdline, disk, wrap, typed>>
      /\ file' = SearchApp(AppName(cmdline))
      /\ \/ out' = BadText /\ pc' = "prompt" /\ ss0' = ss0
         \/ out' = FormatText /\ pc' = "free" /\ ss0' = ss0
         \/ out' = << >> /\ pc' = "app" /\ ss0' = 1
  BY DEF RunApp, Prints
<1>3. /\ file' # 0 => file' \in Listed(disk.dir)
      /\ Listed(disk.dir) \subseteq 1 .. Len(disk.dir) /\ Len(disk.dir) \in Nat
  BY <1>2, FoundApp, DiskKnown DEF LineInv
<1>4. TypeOK'
  BY <1>1, <1>2, <1>3 DEF LineInv, TypeOK
<1>5. out' \in Seq(Chars) /\ (pc' = "prompt" => Ends(out'))
  BY <1>2, Texts, EmptySeq
<1>6. QED
  BY <1>1, <1>2, <1>4, <1>5, PrintsKeepsLine

\* What happens while a program runs and on the ways out of it.
LEMMA AppKeepsLine ==
    LineInv /\ (TypeDone \/ AppCall \/ AppEnds \/ AppFails \/ Redirect \/ EndApp \/ FreeFile)
        => LineInv'
<1> SUFFICES ASSUME LineInv,
                    TypeDone \/ AppCall \/ AppEnds \/ AppFails \/ Redirect \/ EndApp \/ FreeFile
             PROVE  LineInv'
  OBVIOUS
<1>1. Quiet /\ UNCHANGED <<col, row, cmdline, disk, wrap, file, typed>>
  BY DEF TypeDone, AppCall, AppEnds, AppFails, Redirect, EndApp, FreeFile, At, OnlyPrints
<1>2. out = << >>
  BY <1>1, QuietColumn
<1>3. \/ pc = "typing" /\ pc' = "prompt" /\ ss0' = ss0 /\ out' = <<NL>>
      \/ pc = "app" /\ pc' = "app" /\ ss0' = ss0 /\ out' \in Outputs
      \/ pc = "app" /\ pc' = "end" /\ ss0' = ss0 /\ out' \in {<< >>, ExceptionText}
      \/ pc = "breaking" /\ pc' = "end" /\ ss0' = ss0 /\ out' = << >>
      \/ pc = "end" /\ pc' = "free" /\ ss0' = 0 /\ out' = << >>
      \/ pc = "free" /\ pc' = "prompt" /\ ss0' = ss0 /\ out' = <<NL>>
  BY <1>2 DEF TypeDone, AppCall, AppEnds, AppFails, Redirect, EndApp, FreeFile, At, OnlyPrints,
              Prints
<1>4. TypeOK'
  BY <1>1, <1>3 DEF LineInv, TypeOK
<1>5. out' \in Seq(Chars) /\ (pc' = "prompt" => Ends(out'))
  BY <1>3, Texts, CharsKnown, EmptySeq
<1>6. pc' \notin {"loop", "run"}
  BY <1>3
<1>7. QED
  BY <1>1, <1>4, <1>5, <1>6, PrintsKeepsLine

\* Shift+Alt comes in the middle of anything that the program prints; its
\* message begins with a newline, so that a cursor behind the last column does
\* no harm.
LEMMA ShiftAltKeepsLine == LineInv /\ ShiftAlt => LineInv'
<1> SUFFICES ASSUME LineInv, ShiftAlt PROVE LineInv'
  OBVIOUS
<1>1. /\ ss0 # 0 /\ pc' = "breaking" /\ out' = BreakText /\ wrap' = "none"
      /\ UNCHANGED <<col, row, cmdline, disk, file, ss0, typed>>
  BY DEF ShiftAlt, Prints
<1>2. TypeOK'
  BY <1>1 DEF LineInv, TypeOK
<1>3. out' \in Seq(Chars) /\ out' # << >> /\ Head(out') = NL
  BY <1>1, Texts
<1>4. QED
  BY <1>1, <1>2, <1>3 DEF LineInv

\* Every step keeps the line.
LEMMA LineNext == LineInv /\ [Next]_vars => LineInv'
<1>1. LineInv /\ UNCHANGED vars => LineInv'
  BY DEF vars, LineInv, TypeOK, EndsLine, Ends, Holds
<1>2. LineInv /\ Down => LineInv'
  BY <1>1 DEF Down
<1>3. QED
  BY <1>1, <1>2, PrintKeepsLine, PromptKeepsLine, TypeLetterKeepsLine, BackspaceKeepsLine,
     EnterKeepsLine, RunPrintingKeepsLine, RunTypeKeepsLine, RunAppKeepsLine, AppKeepsLine,
     ShiftAltKeepsLine
  DEF Next, Work

\* The line invariant is one.
LEMMA LineAlways == Spec => []LineInv
BY LineInit, LineNext, PTL DEF Spec

\* The cursor stays within the window, or behind its last column before a
\* newline, and tss.ss0 is set only while a program runs, for windows of any
\* size, any disk and any output (console_putchar, console_newline, cmd_app).
THEOREM TypeCorrect == Spec => []TypeOK
<1>1. LineInv => TypeOK
  BY DEF LineInv
<1>2. QED
  BY <1>1, LineAlways, PTL

\* The string in the buffer ends at the first NUL, wherever it begins.
LEMMA BufferFrom ==
    ASSUME typed \in Seq(Letters), cmdline \in [0 .. Columns - 1 -> Letters \cup {NUL}],
           Holds, cmdline[Len(typed)] = NUL, Len(typed) <= Columns - 2,
           NEW m \in 0 .. Len(typed)
    PROVE  CString(cmdline, m) = [i \in 1 .. Len(typed) - m |-> typed[m + i]]
<1>1. PICK n \in Nat : n = Len(typed) /\ n \in 0 .. Columns - 1 /\ Columns \in Nat
  BY LenProperties, WindowSize
<1>2. m \in 0 .. n /\ n - m \in Nat
  BY <1>1
<1>3. \A k \in 0 .. n - 1 : cmdline[k] = typed[k + 1] /\ cmdline[k] # NUL
  <2>1. TAKE k \in 0 .. n - 1
  <2>2. k + 1 \in 1 .. n /\ cmdline[k] = typed[k + 1]
    BY <1>1 DEF Holds
  <2>3. typed[k + 1] \in Letters
    BY <1>1, <2>2, ElementOfSeq
  <2>4. QED
    BY <2>2, <2>3, CharsKnown
<1> DEFINE ends == {i \in DOMAIN cmdline : i >= m /\ cmdline[i] = NUL} \cup {Columns}
<1>4. n \in ends /\ \A y \in ends : n <= y /\ y \in Nat
  <2>1. n \in ends
    BY <1>1, <1>2
  <2>2. ASSUME NEW y \in ends PROVE n <= y /\ y \in Nat
    <3>1. y \in 0 .. Columns /\ (y # Columns => cmdline[y] = NUL)
      BY <1>1
    <3>2. ASSUME y < n PROVE FALSE
      <4>1. y \in 0 .. n - 1 /\ y # Columns
        BY <1>1, <3>1, <3>2
      <4>2. QED
        BY <1>3, <3>1, <4>1
    <3>3. QED
      BY <1>1, <3>1, <3>2
  <2>3. QED
    BY <2>1, <2>2
<1>5. Min(ends) = n
  <2> HIDE DEF ends
  <2>1. ends \subseteq Nat /\ ends # {}
    BY <1>4
  <2>2. PICK x \in ends : x = Min(ends) /\ \A y \in ends : x <= y
    BY <2>1, MinOfNats
  <2>3. x <= n /\ n <= x /\ x \in Nat
    BY <1>4, <2>2
  <2>4. QED
    BY <1>1, <2>2, <2>3
<1>6. Max({0, n - m}) = n - m
  BY <1>2, MaxOfTwo DEF Max
<1>7. CString(cmdline, m) = [i \in 1 .. n - m |-> cmdline[m + i - 1]]
  BY <1>5, <1>6 DEF CString
<1>8. \A i \in 1 .. n - m : cmdline[m + i - 1] = typed[m + i]
  <2>1. TAKE i \in 1 .. n - m
  <2>2. PICK k \in 0 .. n - 1 : m + i = k + 1
    BY <1>1, <1>2
  <2>3. m + i - 1 = k
    BY <1>2, <2>2
  <2>4. QED
    BY <1>3, <2>2, <2>3
<1>9. QED
  BY <1>1, <1>7, <1>8

\* When it is run, it is what was typed.
LEMMA BufferString ==
    ASSUME LineInv, pc = "run" PROVE CString(cmdline, 0) = typed
<1>1. /\ typed \in Seq(Letters) /\ cmdline \in [0 .. Columns - 1 -> Letters \cup {NUL}]
      /\ Holds /\ cmdline[Len(typed)] = NUL /\ Len(typed) <= Columns - 2
  BY DEF LineInv, TypeOK
<1>2. PICK n \in Nat : n = Len(typed)
  BY <1>1, LenProperties
<1>3. CString(cmdline, 0) = [i \in 1 .. n - 0 |-> typed[0 + i]]
  BY <1>1, <1>2, BufferFrom
<1>4. typed = [i \in 1 .. n |-> typed[i]]
  BY <1>1, <1>2
<1>5. n - 0 = n /\ \A i \in 1 .. n : 0 + i = i
  OBVIOUS
<1>6. QED
  BY <1>3, <1>4, <1>5

\* However programs and commands end, the buffer holds exactly what the user
\* sees behind the prompt, and Enter runs that (console_task).
THEOREM LineCorrect == Spec => []LineIsTyped
<1>1. LineInv => LineIsTyped
  <2> SUFFICES ASSUME LineInv PROVE LineIsTyped
    OBVIOUS
  <2>1. ASSUME At("loop")
        PROVE  col = Len(typed) + 1 /\ \A i \in DOMAIN typed : cmdline[i - 1] = typed[i]
    <3>1. col = Len(typed) + 1 /\ Holds
      BY <2>1, QuietColumn DEF At
    <3>2. PICK n \in Nat : n = Len(typed) /\ DOMAIN typed = 1 .. n
      BY LenProperties DEF LineInv, TypeOK
    <3>3. ASSUME NEW i \in 1 .. n PROVE cmdline[i - 1] = typed[i]
      <4>1. PICK k \in 0 .. n - 1 : k = i - 1 /\ k + 1 = i
        BY <3>2
      <4>2. QED
        BY <3>1, <3>2, <4>1 DEF Holds
    <3>4. QED
      BY <3>1, <3>2, <3>3
  <2>2. QED
    BY <2>1, BufferString DEF LineIsTyped
<1>2. QED
  BY <1>1, LineAlways, PTL

-----------------------------------------------------------------------------
(* The memory.                                                              *)

\* No file and no program asks for an empty block, and the list is ordered and
\* merged when the console starts.
NoEmptyRequests ==
    /\ \A d \in Disks : \A i \in Listed(d.dir) : ~ d.dir[i].special => d.dir[i].size > 0
    /\ \A c \in DOMAIN Programs : Programs[c] \in Nat /\ Programs[c] > 0
BootSound == Counted(Boot)

FileBlock == RoundUp(disk.dir[file].size)
WithFile == memman_alloc(Boot, FileBlock)

\* What the console holds at each of its places.
MemInv ==
    /\ disk \in Disks
    /\ ss0 # 0 => pc \in {"app", "breaking", "end"}
    /\ ~ fault =>
        /\ pc \in {"prompt", "loop", "run"} => man = Boot
        /\ pc \in {"typing", "free", "app", "breaking", "end"} =>
              /\ file \in Listed(disk.dir) /\ ~ disk.dir[file].special
              /\ Fits(Boot, FileBlock) # {} /\ p = AllocReturns(Boot, FileBlock)
        /\ pc \in {"typing", "free"} => man = WithFile
        /\ pc \in {"app", "breaking", "end"} =>
              /\ IsProgram(loaded) /\ Fits(WithFile, Segment(loaded)) # {}
              /\ q = AllocReturns(WithFile, Segment(loaded))
              /\ man = memman_alloc(WithFile, Segment(loaded))

\* The file's block is not empty.
LEMMA FileAsks ==
    ASSUME NoEmptyRequests, NEW d \in Disks, NEW f \in Listed(d.dir), ~ d.dir[f].special
    PROVE  RoundUp(d.dir[f].size) \in Nat /\ RoundUp(d.dir[f].size) > 0
<1>1. d.dir[f].size \in Nat /\ d.dir[f].size > 0
  BY DiskKnown DEF NoEmptyRequests
<1>2. QED
  BY <1>1, RoundUpType

\* The program's segment is not empty.
LEMMA ProgramAsks ==
    ASSUME NoEmptyRequests, NEW content, IsProgram(content)
    PROVE  Segment(content) \in Nat /\ Segment(content) > 0
<1>1. Programs[Head(content)] \in Nat /\ Programs[Head(content)] > 0
  BY DEF NoEmptyRequests, IsProgram
<1>2. QED
  BY <1>1, RoundUpType DEF Segment

\* Freeing the file's block restores the list of the boot, freeing the segment
\* the one with the file's block taken.
LEMMA GivesFileBack ==
    ASSUME NoEmptyRequests, BootSound, disk \in Disks,
           file \in Listed(disk.dir), ~ disk.dir[file].special, Fits(Boot, FileBlock) # {}
    PROVE  /\ memman_free(WithFile, AllocReturns(Boot, FileBlock), FileBlock) = Boot
           /\ Counted(WithFile)
<1>1. FileBlock \in Nat /\ FileBlock > 0
  BY FileAsks DEF FileBlock
<1>2. QED
  BY <1>1, FreeUndoesAlloc DEF BootSound, WithFile

\* Freeing the segment restores the list it was taken from.
LEMMA GivesSegmentBack ==
    ASSUME NoEmptyRequests, Counted(WithFile), IsProgram(loaded),
           Fits(WithFile, Segment(loaded)) # {}
    PROVE  memman_free(memman_alloc(WithFile, Segment(loaded)),
                       AllocReturns(WithFile, Segment(loaded)), Segment(loaded)) = WithFile
<1>1. Segment(loaded) \in Nat /\ Segment(loaded) > 0
  BY ProgramAsks
<1>2. QED
  BY <1>1, FreeUndoesAlloc

\* An address other than 0 is returned only for a request that fits.
LEMMA NothingFits ==
    ASSUME NEW m, NEW size, AllocReturns(m, size) # 0 PROVE Fits(m, size) # {}
BY DEF AllocReturns

\* Steps that neither allocate nor free.
Idle ==
    /\ UNCHANGED <<man, disk, file, loaded, p, q, fault, ss0>>
    /\ \/ pc' = pc
       \/ pc \in {"prompt", "loop", "run"} /\ pc' \in {"prompt", "loop", "run"}
       \/ pc \in {"app", "breaking", "end"} /\ pc' \in {"app", "breaking", "end"}

\* They leave what is held as it is.
LEMMA IdleKeepsMem == MemInv /\ Idle => MemInv'
BY DEF MemInv, Idle, FileBlock, WithFile

\* Nothing is held at boot.
LEMMA MemInit == Init => MemInv
BY DEF Init, MemInv

\* The command type takes a block for the file.
LEMMA RunTypeKeepsMem == MemInv /\ RunType => MemInv'
<1> SUFFICES ASSUME MemInv, RunType PROVE MemInv'
  OBVIOUS
<1>1. pc = "run" /\ ~ fault /\ man = Boot /\ disk \in Disks /\ disk' = disk
      /\ ss0' = ss0 /\ ss0 = 0
  BY DEF RunType, At, Quiet, MemInv
<1>2. CASE file' = 0
  BY <1>1, <1>2 DEF RunType, Prints, MemInv
<1>3. CASE file' # 0
  <2>1. file' \in Listed(disk.dir) /\ ~ disk.dir[file'].special
    BY <1>1, <1>3, FoundFile DEF RunType
  <2>2. /\ pc' = "typing" /\ p' = AllocReturns(Boot, RoundUp(disk.dir[file'].size))
        /\ man' = memman_alloc(Boot, RoundUp(disk.dir[file'].size))
        /\ fault' = (p' = 0)
    BY <1>1, <1>3 DEF RunType, Prints, Load
  <2>3. ~ fault' => Fits(Boot, RoundUp(disk.dir[file'].size)) # {}
    BY <2>2, NothingFits
  <2>4. QED
    BY <1>1, <2>1, <2>2, <2>3 DEF MemInv, FileBlock, WithFile
<1>4. QED
  BY <1>2, <1>3

\* A program's file is loaded, and its segment taken if it is a program.
LEMMA RunAppKeepsMem == MemInv /\ RunApp => MemInv'
<1> SUFFICES ASSUME MemInv, RunApp PROVE MemInv'
  OBVIOUS
<1>1. pc = "run" /\ ~ fault /\ man = Boot /\ disk \in Disks /\ disk' = disk /\ ss0 = 0
  BY DEF RunApp, At, Quiet, MemInv
<1>2. CASE file' = 0
  <2>1. /\ file' # 0 \/ (pc' = "prompt" /\ UNCHANGED <<man, p, q, loaded, ss0, fault>>)
    BY <1>2 DEF RunApp, Prints
  <2>2. QED
    BY <1>1, <1>2, <2>1 DEF MemInv
<1>3. CASE file' # 0
  <2>1. file' \in Listed(disk.dir) /\ ~ disk.dir[file'].special
    BY <1>1, <1>3, FoundApp DEF RunApp
  <2> DEFINE block == RoundUp(disk.dir[file'].size)
             man1 == memman_alloc(Boot, block)
  <2>2. /\ p' = AllocReturns(Boot, block)
        /\ \/ /\ man' = man1 /\ pc' = "free" /\ fault' = (p' = 0) /\ ss0' = ss0
           \/ /\ IsProgram(loaded') /\ q' = AllocReturns(man1, Segment(loaded'))
              /\ man' = memman_alloc(man1, Segment(loaded'))
              /\ pc' = "app" /\ fault' = (p' = 0 \/ q' = 0)
    BY <1>1, <1>3 DEF RunApp, Prints, Load
  <2>3. ~ fault' => Fits(Boot, block) # {}
    BY <2>2, NothingFits
  <2>4. ~ fault' /\ pc' = "app" => Fits(man1, Segment(loaded')) # {}
    BY <2>2, NothingFits
  <2>5. FileBlock' = block /\ WithFile' = man1
    BY <1>1 DEF FileBlock, WithFile
  <2>6. IsProgram(loaded)' = IsProgram(loaded') /\ Segment(loaded)' = Segment(loaded')
    BY DEF IsProgram, Segment
  <2> HIDE DEF block, man1
  <2>7. QED
    BY <1>1, <2>1, <2>2, <2>3, <2>4, <2>5, <2>6 DEF MemInv, IsProgram, Segment
<1>4. QED
  BY <1>2, <1>3

\* Every way out frees what was taken, the last block first.
LEMMA GivingBackKeepsMem ==
    ASSUME NoEmptyRequests, BootSound
    PROVE  MemInv /\ (TypeDone \/ EndApp \/ FreeFile) => MemInv'
<1> SUFFICES ASSUME MemInv, TypeDone \/ EndApp \/ FreeFile PROVE MemInv'
  OBVIOUS
<1>1. /\ ~ fault /\ UNCHANGED <<disk, file, loaded, p, q, fault>> /\ disk \in Disks
      /\ FileBlock' = FileBlock /\ WithFile' = WithFile
  BY DEF TypeDone, EndApp, FreeFile, At, Quiet, MemInv, FileBlock, WithFile
<1>2. CASE TypeDone \/ FreeFile
  <2>1. /\ pc \in {"typing", "free"} /\ pc' = "prompt" /\ ss0' = ss0
        /\ man' = memman_free(man, p, FileBlock)
    BY <1>2 DEF TypeDone, FreeFile, At, Prints, FileBlock
  <2>2. man' = Boot
    BY <1>1, <2>1, GivesFileBack DEF MemInv
  <2>3. QED
    BY <1>1, <2>1, <2>2 DEF MemInv
<1>3. CASE EndApp
  <2>1. pc = "end" /\ pc' = "free" /\ ss0' = 0 /\ man' = memman_free(man, q, Segment(loaded))
    BY <1>3 DEF EndApp, At
  <2>2. /\ file \in Listed(disk.dir) /\ ~ disk.dir[file].special
        /\ Fits(Boot, FileBlock) # {} /\ p = AllocReturns(Boot, FileBlock)
        /\ IsProgram(loaded) /\ Fits(WithFile, Segment(loaded)) # {}
        /\ q = AllocReturns(WithFile, Segment(loaded))
        /\ man = memman_alloc(WithFile, Segment(loaded))
    BY <1>1, <2>1 DEF MemInv
  <2>3. man' = WithFile
    BY <1>1, <2>1, <2>2, GivesFileBack, GivesSegmentBack
  <2>4. QED
    BY <1>1, <2>1, <2>2, <2>3 DEF MemInv
<1>4. QED
  BY <1>2, <1>3

\* At the prompt nothing is held.
LEMMA PromptKeepsMem == MemInv /\ Prompt => MemInv'
BY DEF MemInv, Prompt, At, Prints

\* Every step keeps the memory invariant.
LEMMA MemNext ==
    ASSUME NoEmptyRequests, BootSound
    PROVE  MemInv /\ [Next]_vars => MemInv'
<1> SUFFICES ASSUME MemInv, [Next]_vars PROVE MemInv'
  OBVIOUS
<1>1. CASE UNCHANGED vars \/ Down
  BY <1>1, IdleKeepsMem DEF vars, Down, Idle
<1>2. CASE PrintStep
  BY <1>2, IdleKeepsMem DEF PrintStep, NewlineRow, NewlineCol, console_putchar, Idle
<1>3. CASE Backspace \/ Enter \/ RunPrinting \/ \E c \in Letters : TypeLetter(c)
  <2>1. /\ UNCHANGED <<man, disk, file, loaded, p, q, fault, ss0>>
        /\ pc \in {"prompt", "loop", "run"} /\ pc' \in {"prompt", "loop", "run"}
    BY <1>3 DEF Backspace, Enter, RunPrinting, TypeLetter, At, Prints
  <2>2. QED
    BY <2>1, IdleKeepsMem DEF Idle
<1>4. CASE AppCall \/ AppEnds \/ AppFails \/ Redirect
  <2>1. /\ UNCHANGED <<man, disk, file, loaded, p, q, fault, ss0>>
        /\ pc \in {"app", "breaking", "end"} /\ pc' \in {"app", "breaking", "end"}
    BY <1>4 DEF AppCall, AppEnds, AppFails, Redirect, At, Prints, OnlyPrints
  <2>2. QED
    BY <2>1, IdleKeepsMem DEF Idle
<1>5. CASE ShiftAlt
  <2>1. /\ UNCHANGED <<man, disk, file, loaded, p, q, fault, ss0>> /\ ss0 # 0
        /\ pc' = "breaking"
    BY <1>5 DEF ShiftAlt, Prints
  <2>2. pc \in {"app", "breaking", "end"}
    BY <2>1 DEF MemInv
  <2>3. QED
    BY <2>1, <2>2, IdleKeepsMem DEF Idle
<1>6. CASE RunType
  BY <1>6, RunTypeKeepsMem
<1>7. CASE RunApp
  BY <1>7, RunAppKeepsMem
<1>8. CASE TypeDone \/ EndApp \/ FreeFile
  BY <1>8, GivingBackKeepsMem
<1>9. CASE Prompt
  BY <1>9, PromptKeepsMem
<1>10. QED
  BY <1>1, <1>2, <1>3, <1>4, <1>5, <1>6, <1>7, <1>8, <1>9 DEF Next, Work

\* At the prompt the free list is again as it was at boot, however the program
\* ended: by itself, by an exception, or by Shift+Alt at any point (cmd_type,
\* cmd_app, asm_end_app, memman_alloc_4k, memman_free_4k).
THEOREM MemoryCorrect ==
    ASSUME NoEmptyRequests, BootSound
    PROVE  Spec => []MemoryBalanced
<1>1. MemInv /\ [Next]_vars => MemInv'
  BY MemNext
<1>2. MemInv => MemoryBalanced
  BY DEF MemInv, MemoryBalanced
<1>3. QED
  BY <1>1, <1>2, MemInit, PTL DEF Spec

-----------------------------------------------------------------------------
(* The unpacked table.                                                      *)

\* Twelve bits are three nibbles.
Digits(a, a0, a1, a2) ==
    /\ a0 \in 0 .. 15 /\ a1 \in 0 .. 15 /\ a2 \in 0 .. 15
    /\ a = a0 + 16 * a1 + 256 * a2
    /\ (a \div 1) % 16 = a0 /\ (a \div 16) % 16 = a1 /\ (a \div 256) % 16 = a2

LEMMA ThreeNibbles ==
    ASSUME NEW a \in LinkValue
    PROVE  \E a0, a1, a2 : Digits(a, a0, a1, a2)
<1> DEFINE b == a \div 16
           a0 == a % 16
           a1 == b % 16
           a2 == b \div 16
<1>1. a \in Int /\ 0 <= a /\ a <= 4095
  BY DEF LinkValue
<1>2. \A x \in Int : x = 16 * (x \div 16) + (x % 16) /\ x % 16 \in 0 .. 15 /\ x \div 16 \in Int
  OBVIOUS
<1>3. a = 16 * b + a0 /\ a0 \in 0 .. 15 /\ b \in Int
  BY <1>1, <1>2
<1> HIDE DEF b
<1>4. b = 16 * a2 + a1 /\ a1 \in 0 .. 15 /\ a2 \in Int
  BY <1>2, <1>3
<1> HIDE DEF a0, a1, a2
<1>5. 0 <= b /\ b <= 255
  BY <1>1, <1>3
<1>6. a2 \in 0 .. 15
  BY <1>5, <1>4
<1>7. a \div 256 = a2 /\ a2 % 16 = a2 /\ a \div 1 = a
  <2>1. a = 256 * a2 + (16 * a1 + a0) /\ 16 * a1 + a0 \in 0 .. 255
    BY <1>3, <1>4, <1>6
  <2>2. QED
    BY <1>1, <1>6, <2>1
<1>8. a = a0 + 16 * a1 + 256 * a2
  BY <1>3, <1>4, <1>6
<1>9. b = a \div 16 /\ a0 = a % 16 /\ a1 = b % 16
  BY DEF a0, a1, b
<1>10. Digits(a, a0, a1, a2)
  <2>1. (a \div 1) % 16 = a0
    BY <1>7, <1>9
  <2>2. QED
    BY <1>3, <1>4, <1>6, <1>7, <1>8, <1>9, <2>1 DEF Digits
<1>11. QED
  BY <1>10, Zenon

\* file_ReadFat takes the nibbles of two entries from three bytes.
LEMMA PairUnpacked ==
    ASSUME NEW a \in LinkValue, NEW b \in LinkValue
    PROVE  LET byte0 == ((a \div 1) % 16) + 16 * ((a \div 16) % 16)
               byte1 == ((a \div 256) % 16) + 16 * ((b \div 1) % 16)
               byte2 == ((b \div 16) % 16) + 16 * ((b \div 256) % 16)
           IN  FirstOfPair(byte0, byte1) = a /\ SecondOfPair(byte1, byte2) = b
<1>1. PICK a0, a1, a2 : Digits(a, a0, a1, a2)
  BY ThreeNibbles, Zenon
<1>2. PICK b0, b1, b2 : Digits(b, b0, b1, b2)
  BY ThreeNibbles, Zenon
<1>3. FirstOfPair(a0 + 16 * a1, a2 + 16 * b0) = a
  BY <1>1, <1>2 DEF Digits, FirstOfPair
<1>4. SecondOfPair(a2 + 16 * b0, b1 + 16 * b2) = b
  BY <1>1, <1>2 DEF Digits, SecondOfPair
<1>5. QED
  BY <1>1, <1>2, <1>3, <1>4 DEF Digits

\* So it unpacks the table that is on the disk.
LEMMA FatUnpacked ==
    ASSUME NEW d \in Disks
    PROVE  file_ReadFat(FatOnDisk(d.links), Cardinality(DOMAIN d.links)) = d.links
<1>1. PICK n \in Nat : /\ n = Cardinality(DOMAIN d.links) /\ n % 2 = 0
                       /\ d.links \in [0 .. n - 1 -> LinkValue]
  BY DiskAssumption, Zenon
<1>2. PICK l \in [0 .. n - 1 -> LinkValue] : l = d.links
  BY <1>1, Zenon
<1>3. PICK img : img = FatOnDisk(l)
  OBVIOUS
<1>4. img = [k \in 0 .. (3 * n) \div 2 - 1 |-> Nibble(l, 2 * k) + 16 * Nibble(l, 2 * k + 1)]
  BY <1>1, <1>2, <1>3 DEF FatOnDisk
<1>5. ASSUME NEW i \in 0 .. n - 1
      PROVE  l[i] = LET j == 3 * (i \div 2)
                    IN  IF i % 2 = 0 THEN FirstOfPair(img[j], img[j + 1])
                        ELSE SecondOfPair(img[j + 1], img[j + 2])
  <2>1. PICK m \in Nat : m = i \div 2
    OBVIOUS
  <2>2. 2 * m + 1 \in 0 .. n - 1 /\ 2 * m \in 0 .. n - 1
    <3>1. n = 2 * (n \div 2) /\ n \div 2 \in Nat
      BY <1>1
    <3>2. 2 * m <= i /\ i <= 2 * m + 1
      BY <2>1
    <3>3. QED
      BY <3>1, <3>2
  <2>3. /\ 3 * m \in 0 .. (3 * n) \div 2 - 1
        /\ 3 * m + 1 \in 0 .. (3 * n) \div 2 - 1
        /\ 3 * m + 2 \in 0 .. (3 * n) \div 2 - 1
    BY <2>2
  <2>4. PICK a \in LinkValue, b \in LinkValue : a = l[2 * m] /\ b = l[2 * m + 1]
    <3>1. l[2 * m] \in LinkValue /\ l[2 * m + 1] \in LinkValue
      BY <2>2
    <3>2. QED
      BY <3>1, Zenon
  <2>5. ASSUME NEW r \in {0, 1, 2}
        PROVE  /\ Nibble(l, 6 * m + r) = (a \div <<1, 16, 256>>[r + 1]) % 16
               /\ Nibble(l, 6 * m + 3 + r) = (b \div <<1, 16, 256>>[r + 1]) % 16
    <3>1. ASSUME NEW x \in Nat
          PROVE  (3 * x + r) \div 3 = x /\ (3 * x + r) % 3 = r
      <4>1. r \in Int /\ 0 <= r /\ r <= 2
        OBVIOUS
      <4>2. QED
        BY <4>1
    <3>2. /\ 6 * m + r = 3 * (2 * m) + r /\ 6 * m + 3 + r = 3 * (2 * m + 1) + r
          /\ 2 * m \in Nat /\ 2 * m + 1 \in Nat
      OBVIOUS
    <3>3. /\ (6 * m + r) \div 3 = 2 * m /\ (6 * m + r) % 3 = r
          /\ (6 * m + 3 + r) \div 3 = 2 * m + 1 /\ (6 * m + 3 + r) % 3 = r
      BY <3>1, <3>2
    <3>4. QED
      BY <2>4, <3>3, Zenon DEF Nibble
  <2>6. /\ Nibble(l, 6 * m) = (a \div 1) % 16
        /\ Nibble(l, 6 * m + 1) = (a \div 16) % 16
        /\ Nibble(l, 6 * m + 2) = (a \div 256) % 16
        /\ Nibble(l, 6 * m + 3) = (b \div 1) % 16
        /\ Nibble(l, 6 * m + 4) = (b \div 16) % 16
        /\ Nibble(l, 6 * m + 5) = (b \div 256) % 16
    <3>1. <<1, 16, 256>>[0 + 1] = 1 /\ <<1, 16, 256>>[1 + 1] = 16 /\ <<1, 16, 256>>[2 + 1] = 256
      OBVIOUS
    <3>2. /\ 6 * m + 0 = 6 * m /\ 6 * m + 3 + 0 = 6 * m + 3
          /\ 6 * m + 3 + 1 = 6 * m + 4 /\ 6 * m + 3 + 2 = 6 * m + 5
      OBVIOUS
    <3>3. /\ Nibble(l, 6 * m + 0) = (a \div 1) % 16
          /\ Nibble(l, 6 * m + 1) = (a \div 16) % 16
          /\ Nibble(l, 6 * m + 2) = (a \div 256) % 16
          /\ Nibble(l, 6 * m + 3 + 0) = (b \div 1) % 16
          /\ Nibble(l, 6 * m + 3 + 1) = (b \div 16) % 16
          /\ Nibble(l, 6 * m + 3 + 2) = (b \div 256) % 16
      BY <2>5, <3>1
    <3>4. QED
      BY <3>2, <3>3
  <2>7. /\ img[3 * m] = ((a \div 1) % 16) + 16 * ((a \div 16) % 16)
        /\ img[3 * m + 1] = ((a \div 256) % 16) + 16 * ((b \div 1) % 16)
        /\ img[3 * m + 2] = ((b \div 16) % 16) + 16 * ((b \div 256) % 16)
    <3>1. /\ 2 * (3 * m) = 6 * m
          /\ 2 * (3 * m + 1) = 6 * m + 2 /\ 2 * (3 * m + 1) + 1 = 6 * m + 3
          /\ 2 * (3 * m + 2) = 6 * m + 4 /\ 2 * (3 * m + 2) + 1 = 6 * m + 5
      OBVIOUS
    <3>2. \A k \in 0 .. (3 * n) \div 2 - 1 :
              img[k] = Nibble(l, 2 * k) + 16 * Nibble(l, 2 * k + 1)
      BY <1>4
    <3>3. /\ img[3 * m] = Nibble(l, 2 * (3 * m)) + 16 * Nibble(l, 2 * (3 * m) + 1)
          /\ img[3 * m + 1] = Nibble(l, 2 * (3 * m + 1)) + 16 * Nibble(l, 2 * (3 * m + 1) + 1)
          /\ img[3 * m + 2] = Nibble(l, 2 * (3 * m + 2)) + 16 * Nibble(l, 2 * (3 * m + 2) + 1)
      BY <2>3, <3>2
    <3>4. QED
      BY <2>6, <3>1, <3>3
  <2>8. FirstOfPair(img[3 * m], img[3 * m + 1]) = a /\ SecondOfPair(img[3 * m + 1], img[3 * m + 2]) = b
    BY <2>7, PairUnpacked
  <2>9. i = IF i % 2 = 0 THEN 2 * m ELSE 2 * m + 1
    BY <2>1
  <2>10. QED
    BY <2>1, <2>4, <2>8, <2>9
<1>6. file_ReadFat(img, n) = [i \in 0 .. n - 1 |-> l[i]]
  BY <1>5 DEF file_ReadFat
<1>7. QED
  BY <1>1, <1>2, <1>3, <1>6

-----------------------------------------------------------------------------
(* Laying out a name.                                                       *)

\* A number that is the greatest of a set is its Max.
LEMMA MaxIs ==
    ASSUME NEW D, D \subseteq Int, NEW x \in D, \A i \in D : x >= i
    PROVE  Max(D) = x
<1>1. \E y \in D : \A i \in D : y >= i
  OBVIOUS
<1>2. Max(D) \in D /\ \A i \in D : Max(D) >= i
  BY <1>1, Zenon DEF Max
<1>3. PICK m \in D : m = Max(D)
  BY <1>2
<1>4. QED
  BY <1>2, <1>3

\* The last of some of n places.
LEMMA LastPlace ==
    ASSUME NEW n \in Nat, NEW D \in SUBSET (1 .. n), D # {}
    PROVE  Max(D) \in D
<1> DEFINE T == {n - i : i \in D}
<1>1. T \subseteq Nat /\ T # {}
  <2>1. \A i \in D : n - i \in Nat
    OBVIOUS
  <2>2. QED
    BY <2>1
<1> HIDE DEF T
<1>2. PICK x \in T : \A y \in T : x <= y
  BY <1>1, MinOfNats
<1>3. PICK i \in D : x = n - i
  BY DEF T
<1>4. \A j \in D : n - i <= n - j
  BY <1>2, <1>3 DEF T
<1>5. D \subseteq Int /\ \A j \in D : i >= j
  BY <1>4
<1>6. QED
  BY <1>5, MaxIs

\* A fold of LayOut over the characters at some of n places: the last of them
\* comes after the others.
NoName == [s |-> [i \in 1 .. FullLen |-> Blank], j |-> 0, tooLong |-> FALSE]
LaysOut(g, name, n) ==
    g = [D \in SUBSET (1 .. n) |->
            IF D = {} THEN NoName ELSE LayOut(g[D \ {Max(D)}], name[Max(D)])]

\* The fold for n + 1 places is made from the one for n.
LEMMA LaysOneMore ==
    ASSUME NEW name, NEW n \in Nat, NEW f, LaysOut(f, name, n)
    PROVE  \E g : LaysOut(g, name, n + 1)
<1> DEFINE P == SUBSET (1 .. n + 1)
           h == [D \in P |-> IF n + 1 \in D THEN LayOut(f[D \ {n + 1}], name[n + 1]) ELSE f[D]]
<1>1. ASSUME NEW D \in P, n + 1 \notin D PROVE h[D] = f[D] /\ D \in SUBSET (1 .. n)
  <2>1. \A i \in D : i \in 1 .. n
    BY <1>1
  <2>2. QED
    BY <1>1, <2>1
<1>2. ASSUME NEW D \in P
      PROVE  h[D] = IF D = {} THEN NoName ELSE LayOut(h[D \ {Max(D)}], name[Max(D)])
  <2>1. CASE D = {}
    <3>1. h[D] = f[{}] /\ {} \in SUBSET (1 .. n)
      BY <1>1, <2>1
    <3>2. f[{}] = NoName
      BY <3>1 DEF LaysOut
    <3>3. QED
      BY <2>1, <3>1, <3>2
  <2>2. CASE n + 1 \in D
    <3>1. D \subseteq Int /\ \A i \in D : n + 1 >= i
      OBVIOUS
    <3>2. Max(D) = n + 1
      BY <2>2, <3>1, MaxIs
    <3>3. h[D] = LayOut(f[D \ {n + 1}], name[n + 1])
      BY <2>2
    <3>4. h[D \ {n + 1}] = f[D \ {n + 1}]
      BY <1>1
    <3>5. QED
      BY <2>2, <3>2, <3>3, <3>4
  <2>3. CASE D # {} /\ n + 1 \notin D
    <3>1. h[D] = f[D] /\ D \in SUBSET (1 .. n)
      BY <1>1, <2>3
    <3>2. PICK x : x = Max(D)
      OBVIOUS
    <3>3. D \ {x} \in P /\ n + 1 \notin D \ {x}
      BY <2>3
    <3>4. h[D \ {x}] = f[D \ {x}]
      BY <1>1, <3>3
    <3>5. f[D] = LayOut(f[D \ {x}], name[x])
      BY <2>3, <3>1, <3>2 DEF LaysOut
    <3>6. QED
      BY <2>3, <3>1, <3>2, <3>4, <3>5
  <2>4. QED
    BY <2>1, <2>2, <2>3
<1>3. h = [D \in P |-> h[D]]
  OBVIOUS
<1> HIDE DEF h
<1>4. h = [D \in P |-> IF D = {} THEN NoName ELSE LayOut(h[D \ {Max(D)}], name[Max(D)])]
  BY <1>2, <1>3, Zenon
<1>5. LaysOut(h, name, n + 1)
  BY <1>4, Zenon DEF LaysOut
<1>6. QED
  BY <1>5, Zenon

\* So there is one for any number of places: no number is the least without.
LEMMA LayOutExists ==
    ASSUME NEW name, NEW n \in Nat
    PROVE  \E g : LaysOut(g, name, n)
<1> DEFINE Without == {m \in Nat : ~ \E g : LaysOut(g, name, m)}
<1>1. SUFFICES ASSUME Without # {} PROVE FALSE
  BY <1>1
<1>2. PICK m \in Without : \A k \in Without : m <= k
  <2>1. Without \subseteq Nat
    OBVIOUS
  <2> HIDE DEF Without
  <2>2. QED
    BY <1>1, <2>1, MinOfNats
<1>3. m \in Nat /\ ~ \E g : LaysOut(g, name, m)
  BY <1>2
<1>4. CASE m = 0
  <2> DEFINE g == [D \in SUBSET (1 .. 0) |-> NoName]
  <2>1. \A D \in SUBSET (1 .. 0) : D = {}
    OBVIOUS
  <2>2. g = [D \in SUBSET (1 .. 0) |->
                IF D = {} THEN NoName ELSE LayOut(g[D \ {Max(D)}], name[Max(D)])]
    BY <2>1
  <2> HIDE DEF g
  <2>3. LaysOut(g, name, 0)
    BY <2>2, Zenon DEF LaysOut
  <2>4. QED
    BY <1>3, <1>4, <2>3, Zenon
<1>5. CASE m # 0
  <2>1. m - 1 \in Nat /\ (m - 1) + 1 = m /\ m - 1 < m
    BY <1>3, <1>5
  <2>2. m - 1 \notin Without
    BY <1>2, <1>3, <2>1
  <2>3. \E g : LaysOut(g, name, m - 1)
    BY <2>1, <2>2
  <2>4. \E g : LaysOut(g, name, (m - 1) + 1)
    BY <2>1, <2>3, LaysOneMore
  <2>5. QED
    BY <1>3, <2>1, <2>4
<1>6. QED
  BY <1>4, <1>5

\* What is laid out of the name after each of its characters.
Layouts(t, name) ==
    /\ t[0] = NoName
    /\ \A i \in 1 .. Len(name) : t[i] = LayOut(t[i - 1], name[i])

LEMMA KeyIsLaidOut ==
    ASSUME NEW S, NEW name \in Seq(S)
    PROVE  \E t : Layouts(t, name) /\ Key(name) = t[Len(name)]
<1> DEFINE n == Len(name)
           IsFold(g) == g = [D \in SUBSET DOMAIN name |->
                               IF D = {} THEN [s |-> [i \in 1 .. FullLen |-> Blank], j |-> 0,
                                               tooLong |-> FALSE]
                               ELSE LayOut(g[D \ {Max(D)}], name[Max(D)])]
           g0 == CHOOSE g : IsFold(g)
           t == [i \in 0 .. n |-> g0[1 .. i]]
<1>1. n \in Nat /\ DOMAIN name = 1 .. n
  OBVIOUS
<1>2. Key(name) = g0[DOMAIN name]
  BY Zenon DEF Key, FoldLeft, MapThenFoldSet
<1>3. \E g : IsFold(g)
  <2>1. PICK g : LaysOut(g, name, n)
    BY <1>1, LayOutExists
  <2>2. IsFold(g)
    BY <1>1, <2>1, Zenon DEF LaysOut, NoName
  <2> HIDE DEF IsFold
  <2>3. QED
    BY <2>2, Zenon
<1>4. IsFold(g0)
  <2> HIDE DEF IsFold
  <2>1. QED
    BY <1>3, Zenon
<1> HIDE DEF g0
<1>5. ASSUME NEW D \in SUBSET (1 .. n)
      PROVE  g0[D] = IF D = {} THEN NoName ELSE LayOut(g0[D \ {Max(D)}], name[Max(D)])
  BY <1>1, <1>4, Zenon DEF NoName
<1> HIDE DEF n
<1>6. \A i \in 0 .. n : t[i] = g0[1 .. i]
  OBVIOUS
<1> HIDE DEF t
<1>7. t[0] = NoName
  <2>1. 1 .. 0 = {} /\ 0 \in 0 .. n
    BY <1>1
  <2>2. QED
    BY <1>5, <1>6, <2>1
<1>8. ASSUME NEW i \in 1 .. n PROVE t[i] = LayOut(t[i - 1], name[i])
  <2>1. i \in Nat /\ i \in 0 .. n /\ i - 1 \in 0 .. n /\ 1 .. i \in SUBSET (1 .. n) /\ i \in 1 .. i
    BY <1>1
  <2>2. 1 .. i \subseteq Int /\ \A k \in 1 .. i : i >= k
    OBVIOUS
  <2>3. Max(1 .. i) = i
    BY <2>1, <2>2, MaxIs
  <2>4. (1 .. i) \ {i} = 1 .. (i - 1)
    BY <2>1
  <2>5. g0[1 .. i] = LayOut(g0[(1 .. i) \ {i}], name[i])
    BY <1>5, <2>1, <2>3
  <2>6. QED
    BY <1>6, <2>1, <2>4, <2>5
<1>9. Key(name) = t[n]
  BY <1>1, <1>2, <1>6
<1>10. Layouts(t, name) /\ Key(name) = t[Len(name)]
  BY <1>7, <1>8, <1>9 DEF Layouts, n
<1>11. QED
  BY <1>10, Zenon

\* A name being laid out, and with another character put behind it.
Name(A, B, C) == [s |-> A, j |-> B, tooLong |-> C]
WithChar(A, B, c) == [A EXCEPT ![B + 1] = Capital(c)]

\* The three things LayOut does with a character: beyond the extension,
LEMMA LayOutLong ==
    ASSUME NEW A, NEW B, NEW C, NEW c, B >= FullLen
    PROVE  LayOut(Name(A, B, C), c) = Name(A, B, TRUE)
<1>1. PICK k : k = Name(A, B, C)
  OBVIOUS
<1>2. k.j = B
  BY <1>1 DEF Name
<1>3. LayOut(k, c) = [k EXCEPT !.tooLong = TRUE]
  BY <1>2, Zenon DEF LayOut
<1>4. QED
  BY <1>1, <1>3 DEF Name

\* with a dot in the base or behind it,
LEMMA LayOutDot ==
    ASSUME NEW A, NEW B, NEW C, ~ (B >= FullLen), B <= NameLen
    PROVE  LayOut(Name(A, B, C), Dot) = Name(A, NameLen, C)
<1>1. PICK k : k = Name(A, B, C)
  OBVIOUS
<1>2. k.j = B
  BY <1>1 DEF Name
<1>3. LayOut(k, Dot) = [k EXCEPT !.j = NameLen]
  BY <1>2, Zenon DEF LayOut
<1>4. QED
  BY <1>1, <1>3 DEF Name

\* and with any other.
LEMMA LayOutChar ==
    ASSUME NEW A, NEW B, NEW C, NEW c, ~ (B >= FullLen), ~ (c = Dot /\ B <= NameLen)
    PROVE  LayOut(Name(A, B, C), c) = Name(WithChar(A, B, c), B + 1, C)
<1>1. PICK k : k = Name(A, B, C)
  OBVIOUS
<1>2. k.j = B /\ k.s = A
  BY <1>1 DEF Name
<1>3. LayOut(k, c) = [k EXCEPT !.s = [@ EXCEPT ![k.j + 1] = Capital(c)], !.j = @ + 1]
  BY <1>2, Zenon DEF LayOut
<1>4. QED
  BY <1>1, <1>2, <1>3 DEF Name, WithChar

\* The lengths of the parts of a name.
LEMMA NameSizes == NameLen \in Nat \ {0} /\ ExtLen \in Nat \ {0} /\ FullLen = NameLen + ExtLen
BY FileSysAssumption DEF FullLen

\* The first i characters of a name laid out, when the dot is the d-th.
CharAt(name, d, i, m) ==
    IF m <= NameLen
    THEN IF m <= i /\ m < d THEN Capital(name[m]) ELSE Blank
    ELSE IF d + (m - NameLen) <= i THEN Capital(name[d + (m - NameLen)]) ELSE Blank
Laid(name, d, i) ==
    Name([m \in 1 .. FullLen |-> CharAt(name, d, i, m)],
         IF i < d THEN i ELSE NameLen + (i - d), FALSE)

\* Another character of a base or an extension that is not too long.
LEMMA LaidOneMore ==
    ASSUME NEW name, NEW d \in Nat \ {0}, d - 1 <= NameLen,
           NEW i \in Nat \ {0}, i <= d + ExtLen, name[i] = Dot <=> i = d
    PROVE  LayOut(Laid(name, d, i - 1), name[i]) = Laid(name, d, i)
<1> DEFINE A == [m \in 1 .. FullLen |-> CharAt(name, d, i - 1, m)]
           B == IF i - 1 < d THEN i - 1 ELSE NameLen + ((i - 1) - d)
           N == [m \in 1 .. FullLen |-> CharAt(name, d, i, m)]
<1>1. /\ Laid(name, d, i - 1) = Name(A, B, FALSE)
      /\ Laid(name, d, i) = Name(N, IF i < d THEN i ELSE NameLen + (i - d), FALSE)
  BY Zenon DEF Laid
<1>2. CASE i = d
  <2>1. B = i - 1 /\ ~ (B >= FullLen) /\ B <= NameLen
    BY <1>2, NameSizes
  <2>2. ASSUME NEW m \in 1 .. FullLen PROVE CharAt(name, d, i - 1, m) = CharAt(name, d, i, m)
    BY <1>2, NameSizes DEF CharAt
  <2>3. N = A
    BY <2>2
  <2> HIDE DEF A, B, N
  <2>4. LayOut(Laid(name, d, i - 1), name[i]) = Name(A, NameLen, FALSE)
    <3>1. name[i] = Dot
      BY <1>2
    <3>2. LayOut(Name(A, B, FALSE), Dot) = Name(A, NameLen, FALSE)
      BY <2>1, LayOutDot
    <3>3. QED
      BY <1>1, <3>1, <3>2
  <2>5. NameLen + (i - d) = NameLen /\ ~ (i < d)
    BY <1>2, NameSizes
  <2>6. QED
    BY <1>1, <2>3, <2>4, <2>5
<1>3. CASE i # d
  <2>1. ~ (B >= FullLen) /\ B \in Nat /\ (B + 1 = IF i < d THEN i ELSE NameLen + (i - d))
    BY <1>3, NameSizes
  <2>2. ASSUME NEW m \in 1 .. FullLen
        PROVE  CharAt(name, d, i, m) = IF m = B + 1 THEN Capital(name[i])
                                       ELSE CharAt(name, d, i - 1, m)
    <3>1. CASE i < d
      BY <3>1, NameSizes DEF CharAt
    <3>2. CASE i > d
      <4>1. B + 1 = NameLen + (i - d) /\ B + 1 > NameLen
        BY <3>2, NameSizes
      <4>2. CASE m = B + 1
        <5>1. d + (m - NameLen) = i /\ ~ (m <= NameLen)
          BY <4>1, <4>2, NameSizes
        <5>2. QED
          BY <4>2, <5>1 DEF CharAt
      <4>3. CASE m # B + 1
        <5>1. m <= NameLen => (m <= i /\ m < d <=> m <= i - 1 /\ m < d)
          BY <3>2
        <5>2. d + (m - NameLen) # i
          BY <4>1, <4>3, NameSizes
        <5>3. d + (m - NameLen) <= i <=> d + (m - NameLen) <= i - 1
          BY <5>2, NameSizes
        <5>4. QED
          BY <4>3, <5>1, <5>3 DEF CharAt
      <4>4. QED
        BY <4>2, <4>3
    <3>3. QED
      BY <1>3, <3>1, <3>2
  <2>3. N = WithChar(A, B, name[i])
    BY <2>2 DEF WithChar
  <2> HIDE DEF A, B, N
  <2>4. LayOut(Laid(name, d, i - 1), name[i]) = Name(WithChar(A, B, name[i]), B + 1, FALSE)
    <3>1. PICK c : c = name[i] /\ ~ (c = Dot /\ B <= NameLen)
      BY <1>3
    <3>2. LayOut(Name(A, B, FALSE), c) = Name(WithChar(A, B, c), B + 1, FALSE)
      <4>1. ~ (B >= FullLen) /\ ~ (c = Dot /\ B <= NameLen)
        BY <2>1, <3>1
      <4>2. QED
        BY ONLY <4>1, LayOutChar, Zenon
    <3>3. QED
      BY <1>1, <3>1, <3>2
  <2>5. QED
    BY <1>1, <2>1, <2>3, <2>4
<1>4. QED
  BY <1>2, <1>3

\* So a name with one dot at most is laid out as one expects.
LEMMA LaidSo ==
    ASSUME NEW t, NEW name, Layouts(t, name), NEW d \in Nat \ {0}, d - 1 <= NameLen,
           NEW n \in Nat, n <= Len(name), Len(name) \in Nat, n <= d + ExtLen,
           \A m \in 1 .. n : name[m] = Dot <=> m = d
    PROVE  t[n] = Laid(name, d, n)
<1> DEFINE Wrong == {i \in 0 .. n : t[i] # Laid(name, d, i)}
<1>1. SUFFICES ASSUME Wrong # {} PROVE FALSE
  <2>1. n \in 0 .. n
    OBVIOUS
  <2>2. QED
    BY <1>1, <2>1
<1>2. PICK i \in Wrong : \A k \in Wrong : i <= k
  <2>1. Wrong \subseteq Nat
    OBVIOUS
  <2> HIDE DEF Wrong
  <2>2. QED
    BY <1>1, <2>1, MinOfNats
<1>3. i \in 0 .. n /\ t[i] # Laid(name, d, i)
  BY <1>2
<1>4. CASE i = 0
  <2>1. ASSUME NEW m \in 1 .. FullLen PROVE CharAt(name, d, 0, m) = Blank
    BY NameSizes, <2>1 DEF CharAt
  <2>2. [m \in 1 .. FullLen |-> CharAt(name, d, 0, m)] = [m \in 1 .. FullLen |-> Blank]
    BY <2>1
  <2>3. Laid(name, d, 0) = NoName
    <3>1. 0 < d
      OBVIOUS
    <3>2. QED
      BY <2>2, <3>1, Zenon DEF Laid, NoName, Name
  <2>4. QED
    BY <1>3, <1>4, <2>3 DEF Layouts
<1>5. CASE i # 0
  <2>1. i \in Nat \ {0} /\ i \in 1 .. n /\ i \in 1 .. Len(name) /\ i - 1 \in 0 .. n /\ i <= d + ExtLen
    BY <1>3, <1>5, NameSizes
  <2>2. t[i - 1] = Laid(name, d, i - 1)
    <3>1. i - 1 \notin Wrong
      BY <1>2, <2>1
    <3>2. QED
      BY <2>1, <3>1
  <2>3. t[i] = LayOut(t[i - 1], name[i])
    BY <2>1 DEF Layouts
  <2>4. name[i] = Dot <=> i = d
    BY <2>1
  <2>5. QED
    BY <1>3, <2>1, <2>2, <2>3, <2>4, LaidOneMore
<1>6. QED
  BY <1>4, <1>5

\* A number that is the least of a set is its Min.
LEMMA MinIs ==
    ASSUME NEW D, D \subseteq Int, NEW x \in D, \A i \in D : x <= i
    PROVE  Min(D) = x
<1>1. \E y \in D : \A i \in D : y <= i
  OBVIOUS
<1>2. Min(D) \in D /\ \A i \in D : Min(D) <= i
  BY <1>1, Zenon DEF Min
<1>3. PICK m \in D : m = Min(D)
  BY <1>2
<1>4. QED
  BY <1>2, <1>3

\* Where a proper name has its dot, or would have it.
ProperAt(name, d) ==
    /\ d \in Nat \ {0} /\ d - 1 <= NameLen /\ d - 1 <= Len(name)
    /\ \A i \in 1 .. Len(name) : name[i] = Dot <=> i = d
    /\ Len(name) <= d + ExtLen

LEMMA ProperHasDot ==
    ASSUME NEW S, NEW name \in Seq(S)
    PROVE  /\ Proper(name) <=> \E d : ProperAt(name, d)
           /\ \A d : ProperAt(name, d) => DotAt(name) = d
<1>1. PICK L \in Nat : L = Len(name) /\ DOMAIN name = 1 .. L
  BY LenProperties
<1>2. PICK m \in Nat : m = Min({L, NameLen}) /\ m <= L /\ m <= NameLen /\ m \in {L, NameLen}
  <2>1. {L, NameLen} \subseteq Nat /\ {L, NameLen} # {}
    BY NameSizes
  <2>2. QED
    BY <2>1, MinOfNats
<1>3. \A n \in 0 .. m : n \in Nat /\ n <= L /\ n <= NameLen /\ n + 1 \in Nat \ {0} /\ n + 1 - 1 = n
  BY <1>1, <1>2, NameSizes
<1>4. ASSUME NEW n \in 0 .. m, \A i \in DOMAIN name : name[i] = Dot <=> i = n + 1,
             Len(name) <= n + 1 + ExtLen
      PROVE  ProperAt(name, n + 1)
  BY <1>1, <1>3, <1>4 DEF ProperAt
<1>5. ASSUME NEW d, ProperAt(name, d) PROVE Proper(name) /\ DotAt(name) = d
  <2>1. d \in Nat \ {0} /\ d - 1 \in 0 .. m /\ d - 1 + 1 = d
    BY <1>1, <1>2, <1>5, NameSizes DEF ProperAt
  <2>2. PICK n \in 0 .. Min({Len(name), NameLen}) : n = d - 1 /\ n + 1 = d
    BY <1>1, <1>2, <2>1
  <2>3. (\A i \in DOMAIN name : name[i] = Dot <=> i = n + 1) /\ Len(name) <= n + 1 + ExtLen
    BY <1>1, <1>5, <2>2 DEF ProperAt
  <2>4. Proper(name)
    BY <2>3, Zenon DEF Proper
  <2> DEFINE D == {i \in DOMAIN name : name[i] = Dot} \cup {L + 1}
  <2>5. d \in D /\ D \subseteq Int /\ \A i \in D : d <= i
    BY <1>1, <1>5, <2>1 DEF ProperAt
  <2> HIDE DEF D
  <2>6. Min(D) = d
    BY <2>5, MinIs
  <2>7. DotAt(name) = d
    BY <1>1, <2>6, Zenon DEF DotAt, D
  <2>8. QED
    BY <2>4, <2>7
<1>6. Proper(name) => \E d : ProperAt(name, d)
  <2>1. ASSUME Proper(name) PROVE \E d : ProperAt(name, d)
    <3>1. PICK n \in 0 .. m : /\ \A i \in DOMAIN name : name[i] = Dot <=> i = n + 1
                              /\ Len(name) <= n + 1 + ExtLen
      BY <1>1, <1>2, <2>1, Zenon DEF Proper
    <3>2. ProperAt(name, n + 1)
      BY <3>1, <1>4
    <3>3. QED
      BY <3>2, Zenon
  <2>2. QED
    BY <2>1
<1>7. QED
  BY <1>5, <1>6, Zenon

\* Its key is its base and its extension, each in its place.
LEMMA ProperKey ==
    ASSUME NEW S, NEW name \in Seq(S), NEW d, ProperAt(name, d)
    PROVE  /\ Key(name).s = Part(name, 1, NameLen) \o Part(name, d + 1, ExtLen)
           /\ Key(name).tooLong = FALSE
<1>1. PICK L \in Nat : L = Len(name) /\ DOMAIN name = 1 .. L
  BY LenProperties
<1>2. /\ d \in Nat \ {0} /\ d - 1 <= NameLen /\ d - 1 <= L /\ L <= d + ExtLen
      /\ \A i \in 1 .. L : name[i] = Dot <=> i = d
  BY <1>1 DEF ProperAt
<1>3. Key(name) = Laid(name, d, L)
  <2>1. PICK t : Layouts(t, name) /\ Key(name) = t[Len(name)]
    BY KeyIsLaidOut
  <2>2. t[L] = Laid(name, d, L)
    BY <1>1, <1>2, <2>1, LaidSo
  <2>3. QED
    BY <1>1, <2>1, <2>2
<1> DEFINE full == [m \in 1 .. FullLen |-> CharAt(name, d, L, m)]
<1>4. Key(name).s = full /\ Key(name).tooLong = FALSE
  BY <1>3 DEF Laid, Name
<1>5. ASSUME NEW i \in 1 .. NameLen
      PROVE  Part(name, 1, NameLen)[i] = CharAt(name, d, L, i)
  <2>1. 1 + i - 1 = i /\ i \in Nat \ {0} /\ i <= NameLen
    BY NameSizes
  <2>2. (i \in 1 .. L /\ \A k \in 1 .. i : name[k] # Dot) <=> (i <= L /\ i < d)
    <3>1. CASE i <= L /\ i < d
      <4>1. ASSUME NEW k \in 1 .. i PROVE name[k] # Dot
        BY <1>2, <2>1, <3>1
      <4>2. QED
        BY <2>1, <3>1, <4>1
    <3>2. CASE i > L
      BY <2>1, <3>2
    <3>3. CASE i <= L /\ i >= d
      BY <1>2, <2>1, <3>3
    <3>4. QED
      BY <1>1, <1>2, <2>1, <3>1, <3>2, <3>3
  <2>3. Part(name, 1, NameLen)[i]
            = IF i \in 1 .. L /\ \A k \in 1 .. i : name[k] # Dot THEN Capital(name[i]) ELSE Blank
    BY <1>1, <2>1 DEF Part
  <2>4. QED
    BY <2>1, <2>2, <2>3 DEF CharAt
<1>6. ASSUME NEW i \in 1 .. ExtLen
      PROVE  Part(name, d + 1, ExtLen)[i] = CharAt(name, d, L, NameLen + i)
  <2>1. /\ d + 1 + i - 1 = d + i /\ i \in Nat \ {0} /\ ~ (NameLen + i <= NameLen)
        /\ d + (NameLen + i - NameLen) = d + i
    BY <1>2, NameSizes
  <2>2. (d + i \in 1 .. L /\ \A k \in d + 1 .. d + i : name[k] # Dot) <=> d + i <= L
    BY <1>2, <2>1
  <2>3. Part(name, d + 1, ExtLen)[i]
            = IF d + i \in 1 .. L /\ \A k \in d + 1 .. d + i : name[k] # Dot
              THEN Capital(name[d + i]) ELSE Blank
    BY <1>1, <2>1 DEF Part
  <2>4. CharAt(name, d, L, NameLen + i) = IF d + i <= L THEN Capital(name[d + i]) ELSE Blank
    <3>1. PICK m, e : m = NameLen + i /\ e = d + i
      OBVIOUS
    <3>2. ~ (m <= NameLen) /\ d + (m - NameLen) = e
      BY <1>2, <2>1, <3>1, NameSizes
    <3>3. CharAt(name, d, L, m) = IF e <= L THEN Capital(name[e]) ELSE Blank
      BY <3>2, Zenon DEF CharAt
    <3>4. QED
      BY <3>1, <3>3
  <2>5. QED
    BY <2>2, <2>3, <2>4
<1> DEFINE T == {CharAt(name, d, L, m) : m \in 1 .. FullLen}
           base == Part(name, 1, NameLen)
           ext == Part(name, d + 1, ExtLen)
<1>7. full \in Seq(T) /\ Len(full) = FullLen
  <2>1. FullLen \in Nat
    BY NameSizes
  <2>2. full \in [1 .. FullLen -> T]
    BY Zenon
  <2> HIDE DEF full, T
  <2>3. QED
    BY <2>1, <2>2
<1>8. base = [i \in 1 .. NameLen |-> base[i]] /\ ext = [i \in 1 .. ExtLen |-> ext[i]]
  BY DEF Part
<1>9. /\ \A i \in 1 .. NameLen : base[i] = full[i] /\ base[i] \in T
      /\ \A i \in 1 .. ExtLen : ext[i] = full[NameLen + i] /\ ext[i] \in T
  <2>1. /\ \A i \in 1 .. NameLen : i \in 1 .. FullLen
        /\ \A i \in 1 .. ExtLen : NameLen + i \in 1 .. FullLen
    BY NameSizes
  <2>2. QED
    BY <1>5, <1>6, <2>1
<1> HIDE DEF full, T, base, ext
<1>10. base \in Seq(T) /\ Len(base) = NameLen /\ ext \in Seq(T) /\ Len(ext) = ExtLen
  <2>1. base \in [1 .. NameLen -> T] /\ ext \in [1 .. ExtLen -> T]
    BY <1>8, <1>9
  <2>2. QED
    BY <2>1, NameSizes
<1>11. /\ base \o ext \in Seq(T) /\ Len(base \o ext) = NameLen + ExtLen
       /\ \A i \in 1 .. NameLen + ExtLen :
              (base \o ext)[i] = IF i <= NameLen THEN base[i] ELSE ext[i - NameLen]
  BY <1>10, ConcatProperties
<1>12. ASSUME NEW i \in 1 .. Len(full) PROVE full[i] = (base \o ext)[i]
  <2>1. i \in 1 .. NameLen + ExtLen
    BY <1>7, NameSizes
  <2>2. CASE i <= NameLen
    <3>1. i \in 1 .. NameLen
      BY <2>1, <2>2, NameSizes
    <3>2. QED
      BY <1>9, <1>11, <2>1, <2>2, <3>1
  <2>3. CASE ~ (i <= NameLen)
    <3>1. i - NameLen \in 1 .. ExtLen /\ NameLen + (i - NameLen) = i
      BY <2>1, <2>3, NameSizes
    <3>2. QED
      BY <1>9, <1>11, <2>1, <2>3, <3>1
  <2>4. QED
    BY <2>2, <2>3
<1>13. full = base \o ext
  BY <1>7, <1>11, <1>12, SeqEqual, NameSizes
<1>14. QED
  BY <1>4, <1>13 DEF base, ext

\* file_Search finds the file that a proper name means.
LEMMA SearchIsNamed ==
    ASSUME NEW S, NEW name \in Seq(S), Proper(name), NEW dir
    PROVE  file_Search(name, dir) = Named(name, dir)
<1>1. PICK d : ProperAt(name, d) /\ DotAt(name) = d
  BY ProperHasDot, Zenon
<1>2. PICK full : full = Part(name, 1, NameLen) \o Part(name, DotAt(name) + 1, ExtLen)
  OBVIOUS
<1>3. Key(name).s = full /\ ~ Key(name).tooLong
  BY <1>1, <1>2, ProperKey
<1>4. file_Search(name, dir)
          = LET hits == {i \in Listed(dir) : ~ dir[i].special /\ dir[i].name = full}
            IN  IF hits = {} THEN 0 ELSE Min(hits)
  BY <1>3 DEF file_Search
<1>5. Named(name, dir)
          = LET hits == {i \in Listed(dir) : ~ dir[i].special /\ dir[i].name = full}
            IN  IF hits = {} THEN 0 ELSE Min(hits)
  BY <1>2 DEF Named
<1>6. QED
  BY <1>4, <1>5

\* Once the extension is full, or has to be for the characters that follow, the
\* name is too long.
Over(k, J) ==
    \/ \E A, B : k = Name(A, B, TRUE)
    \/ J <= FullLen /\ \E A : k = Name(A, J, FALSE)

LEMMA OverOneMore ==
    ASSUME NEW k, NEW J \in Nat, J > NameLen, Over(k, J), NEW c
    PROVE  Over(LayOut(k, c), J + 1)
<1>1. CASE \E A, B : k = Name(A, B, TRUE)
  <2>1. PICK A, B : k = Name(A, B, TRUE)
    BY <1>1
  <2>2. CASE B >= FullLen
    <3>1. LayOut(k, c) = Name(A, B, TRUE)
      BY <2>1, <2>2, LayOutLong
    <3>2. QED
      BY <3>1, Zenon DEF Over
  <2>3. CASE ~ (B >= FullLen) /\ c = Dot /\ B <= NameLen
    <3>1. LayOut(k, c) = Name(A, NameLen, TRUE)
      BY <2>1, <2>3, LayOutDot
    <3>2. QED
      BY <3>1, Zenon DEF Over
  <2>4. CASE ~ (B >= FullLen) /\ ~ (c = Dot /\ B <= NameLen)
    <3>1. LayOut(k, c) = Name(WithChar(A, B, c), B + 1, TRUE)
      BY <2>1, <2>4, LayOutChar, Zenon
    <3>2. QED
      BY <3>1, Zenon DEF Over
  <2>5. QED
    BY <2>2, <2>3, <2>4
<1>2. CASE J <= FullLen /\ \E A : k = Name(A, J, FALSE)
  <2>1. PICK A : k = Name(A, J, FALSE)
    BY <1>2
  <2>2. CASE J >= FullLen
    <3>1. LayOut(k, c) = Name(A, J, TRUE)
      BY <2>1, <2>2, LayOutLong
    <3>2. QED
      BY <3>1, Zenon DEF Over
  <2>3. CASE ~ (J >= FullLen)
    <3>1. ~ (c = Dot /\ J <= NameLen) /\ J + 1 <= FullLen
      BY <2>3, NameSizes
    <3>2. LayOut(k, c) = Name(WithChar(A, J, c), J + 1, FALSE)
      BY <2>1, <2>3, <3>1, LayOutChar, Zenon
    <3>3. QED
      BY <3>1, <3>2, Zenon DEF Over
  <2>4. QED
    BY <2>2, <2>3
<1>3. QED
  BY <1>1, <1>2, Zenon DEF Over

\* A name with an extension that is not empty, another dot and another extension
\* is too long.
LEMMA TwoExtensions ==
    ASSUME NEW S, NEW name \in Seq(S), NEW d \in Nat \ {0}, d - 1 <= NameLen,
           NEW n \in Nat, d < n, n <= d + ExtLen, Len(name) = n + 1 + ExtLen,
           \A m \in 1 .. n : name[m] = Dot <=> m = d
    PROVE  Key(name).tooLong = TRUE
<1>1. PICK L \in Nat : L = Len(name) /\ L = n + 1 + ExtLen
  BY LenProperties
<1>2. PICK t : Layouts(t, name) /\ Key(name) = t[L]
  BY <1>1, KeyIsLaidOut
<1>3. t[n] = Laid(name, d, n)
  <2>1. n <= Len(name) /\ Len(name) \in Nat
    BY <1>1, NameSizes
  <2>2. QED
    BY <1>2, <2>1, LaidSo
<1> DEFINE J(i) == NameLen + (i - d)
           Wrong == {i \in n .. L : ~ Over(t[i], J(i))}
<1>4. Over(t[n], J(n))
  <2>1. ~ (n < d) /\ J(n) <= FullLen
    BY NameSizes
  <2>2. PICK A : t[n] = Name(A, J(n), FALSE)
    BY <1>3, <2>1 DEF Laid
  <2>3. QED
    BY <2>1, <2>2, Zenon DEF Over
<1>5. Wrong = {}
  <2>1. SUFFICES ASSUME Wrong # {} PROVE FALSE
    OBVIOUS
  <2>2. PICK i \in Wrong : \A k \in Wrong : i <= k
    <3>1. Wrong \subseteq Nat
      OBVIOUS
    <3> HIDE DEF Wrong
    <3>2. QED
      BY <2>1, <3>1, MinOfNats
  <2>3. i \in n .. L /\ ~ Over(t[i], J(i))
    BY <2>2
  <2>4. i # n
    BY <1>4, <2>3
  <2>5. i - 1 \in n .. L /\ i - 1 < i /\ i \in 1 .. Len(name)
    BY <1>1, <2>3, <2>4
  <2>6. Over(t[i - 1], J(i - 1))
    <3>1. i - 1 \notin Wrong
      BY <2>2, <2>3, <2>5
    <3>2. QED
      BY <2>5, <3>1
  <2>7. J(i - 1) \in Nat /\ J(i - 1) > NameLen /\ J(i - 1) + 1 = J(i)
    BY <2>5, NameSizes
  <2>8. t[i] = LayOut(t[i - 1], name[i])
    BY <1>2, <2>5 DEF Layouts
  <2> HIDE DEF J
  <2>9. Over(LayOut(t[i - 1], name[i]), J(i - 1) + 1)
    BY <2>6, <2>7, OverOneMore
  <2>10. QED
    BY <2>3, <2>7, <2>8, <2>9
<1>6. Over(t[L], J(L)) /\ ~ (J(L) <= FullLen)
  <2>1. L \in n .. L
    BY <1>1, NameSizes
  <2>2. L \notin Wrong
    BY <1>5
  <2>3. QED
    BY <1>1, <2>1, <2>2, NameSizes
<1> HIDE DEF J
<1>7. PICK A, B : t[L] = Name(A, B, TRUE)
  BY <1>6, Zenon DEF Over
<1>8. QED
  BY <1>2, <1>7 DEF Name

\* What cmd_app searches for: the name as it is, then with ".HRB".
LEMMA WithHrb ==
    ASSUME NEW S, NEW name \in Seq(S)
    PROVE  \E T : LET hrb == name \o <<Dot>> \o HrbExt
                  IN  /\ hrb \in Seq(T) /\ Len(hrb) = Len(name) + 1 + ExtLen
                      /\ \A i \in 1 .. Len(name) : hrb[i] = name[i]
                      /\ hrb[Len(name) + 1] = Dot
                      /\ \A i \in Len(name) + 2 .. Len(name) + 1 + ExtLen : hrb[i] # Dot
<1>1. PICK L \in Nat : L = Len(name)
  BY LenProperties
<1>2. PICK W : HrbExt \in [1 .. ExtLen -> W \ {Dot}]
  BY ConsoleAssumption
<1> DEFINE T == S \cup {Dot} \cup W
           a == name \o <<Dot>>
           hrb == a \o HrbExt
<1>3. name \in Seq(T) /\ <<Dot>> \in Seq(T) /\ Len(<<Dot>>) = 1 /\ <<Dot>>[1] = Dot
  OBVIOUS
<1>4. HrbExt \in Seq(T) /\ Len(HrbExt) = ExtLen /\ \A i \in 1 .. ExtLen : HrbExt[i] # Dot
  <2>1. HrbExt \in [1 .. ExtLen -> T]
    BY <1>2
  <2>2. QED
    BY <1>2, <2>1, NameSizes
<1> HIDE DEF T
<1>5. /\ a \in Seq(T) /\ Len(a) = L + 1
      /\ \A i \in 1 .. L + 1 : a[i] = IF i <= L THEN name[i] ELSE <<Dot>>[i - L]
  BY <1>1, <1>3, ConcatProperties
<1> HIDE DEF a
<1>6. /\ hrb \in Seq(T) /\ Len(hrb) = L + 1 + ExtLen
      /\ \A i \in 1 .. L + 1 + ExtLen :
             hrb[i] = IF i <= L + 1 THEN a[i] ELSE HrbExt[i - (L + 1)]
  <2>1. /\ a \o HrbExt \in Seq(T) /\ Len(a \o HrbExt) = Len(a) + Len(HrbExt)
        /\ \A i \in 1 .. Len(a) + Len(HrbExt) :
               (a \o HrbExt)[i] = IF i <= Len(a) THEN a[i] ELSE HrbExt[i - Len(a)]
    BY <1>4, <1>5, ConcatProperties, Zenon
  <2>2. QED
    BY <1>1, <1>4, <1>5, <2>1, NameSizes
<1> HIDE DEF hrb
<1>7. ASSUME NEW i \in 1 .. L PROVE hrb[i] = name[i]
  BY <1>5, <1>6, NameSizes
<1>8. hrb[L + 1] = Dot
  <2>1. L + 1 \in 1 .. L + 1 /\ L + 1 \in 1 .. L + 1 + ExtLen /\ L + 1 - L = 1 /\ ~ (L + 1 <= L)
    BY NameSizes
  <2>2. QED
    BY <1>3, <1>5, <1>6, <2>1
<1>9. ASSUME NEW i \in L + 2 .. L + 1 + ExtLen PROVE hrb[i] # Dot
  <2>1. i \in 1 .. L + 1 + ExtLen /\ ~ (i <= L + 1) /\ i - (L + 1) \in 1 .. ExtLen
    BY NameSizes
  <2>2. QED
    BY <1>4, <1>6, <2>1
<1>10. hrb = name \o <<Dot>> \o HrbExt
  BY DEF hrb, a
<1>11. QED
  BY <1>1, <1>6, <1>7, <1>8, <1>9, <1>10, Zenon

\* cmd_app finds the file that a proper name means, or the one that it means with
\* ".HRB" behind it, if that is a proper name.
LEMMA AppIsNamed ==
    ASSUME NEW S, NEW name \in Seq(S), Proper(name)
    PROVE  LET hrb == name \o <<Dot>> \o HrbExt
           IN  SearchApp(name) = IF Named(name, disk.dir) # 0 THEN Named(name, disk.dir)
                                 ELSE IF Proper(hrb) THEN Named(hrb, disk.dir) ELSE 0
<1>1. PICK L \in Nat : L = Len(name) /\ DOMAIN name = 1 .. L
  BY LenProperties
<1>2. PICK hrb : hrb = name \o <<Dot>> \o HrbExt
  OBVIOUS
<1>3. PICK T : /\ hrb \in Seq(T) /\ Len(hrb) = L + 1 + ExtLen
               /\ \A i \in 1 .. L : hrb[i] = name[i]
               /\ hrb[L + 1] = Dot
               /\ \A i \in L + 2 .. L + 1 + ExtLen : hrb[i] # Dot
  BY <1>1, <1>2, WithHrb, Zenon
<1>4. PICK d : ProperAt(name, d)
  BY ProperHasDot, Zenon
<1>5. /\ d \in Nat \ {0} /\ d - 1 <= NameLen /\ d - 1 <= L /\ L <= d + ExtLen
      /\ \A i \in 1 .. L : name[i] = Dot <=> i = d
  BY <1>1, <1>4 DEF ProperAt
<1>6. PICK f : f = Named(name, disk.dir) /\ f = file_Search(name, disk.dir)
  BY SearchIsNamed
<1>7. SearchApp(name) = IF f = 0 /\ (name = << >> \/ Last(name) # Dot)
                        THEN file_Search(hrb, disk.dir) ELSE f
  BY <1>2, <1>6 DEF SearchApp
<1>8. /\ name = << >> <=> L = 0
      /\ L # 0 => Last(name) = name[L]
  <2>1. name = << >> <=> L = 0
    BY <1>1, EmptySeq
  <2>2. QED
    BY <1>1, <2>1 DEF Last
<1>9. CASE d = L + 1
  <2>1. name = << >> \/ Last(name) # Dot
    BY <1>5, <1>8, <1>9
  <2>2. ASSUME NEW i \in 1 .. L + 1 + ExtLen PROVE hrb[i] = Dot <=> i = d
    <3>1. CASE i \in 1 .. L
      BY <1>3, <1>5, <1>9, <3>1
    <3>2. CASE i = L + 1
      BY <1>3, <1>9, <3>2
    <3>3. CASE i \in L + 2 .. L + 1 + ExtLen
      BY <1>3, <1>9, <3>3, NameSizes
    <3>4. QED
      BY <3>1, <3>2, <3>3, NameSizes
  <2>3. d - 1 <= Len(hrb) /\ Len(hrb) <= d + ExtLen
    BY <1>3, <1>5, <1>9, NameSizes
  <2>4. ProperAt(hrb, d)
    BY <1>3, <1>5, <2>2, <2>3 DEF ProperAt
  <2>5. Proper(hrb)
    BY <1>3, <2>4, ProperHasDot, Zenon
  <2>6. file_Search(hrb, disk.dir) = Named(hrb, disk.dir)
    BY <1>3, <2>5, SearchIsNamed
  <2>7. QED
    BY <1>2, <1>6, <1>7, <2>1, <2>5, <2>6, Zenon
<1>10. CASE d # L + 1
  <2>1. d \in 1 .. L /\ d # L + 1 /\ L + 1 \in 1 .. Len(hrb) /\ d \in 1 .. Len(hrb)
    BY <1>3, <1>5, <1>10, NameSizes
  <2>2. hrb[d] = Dot /\ hrb[L + 1] = Dot
    BY <1>3, <1>5, <2>1
  <2>3. ~ Proper(hrb)
    <3>1. ASSUME NEW e, ProperAt(hrb, e) PROVE FALSE
      BY <2>1, <2>2, <3>1 DEF ProperAt
    <3>2. QED
      BY <1>3, <3>1, ProperHasDot, Zenon
  <2>4. CASE d = L
    <3>1. ~ (name = << >> \/ Last(name) # Dot)
      BY <1>5, <1>8, <2>1, <2>4
    <3>2. QED
      BY <1>2, <1>6, <1>7, <2>3, <3>1, Zenon
  <2>5. CASE d # L
    <3>1. d < L /\ Len(hrb) = L + 1 + ExtLen
      BY <1>3, <2>1, <2>5
    <3>2. \A m \in 1 .. L : hrb[m] = Dot <=> m = d
      BY <1>3, <1>5
    <3>3. Key(hrb).tooLong = TRUE
      BY <1>3, <1>5, <3>1, <3>2, TwoExtensions
    <3>4. file_Search(hrb, disk.dir) = 0
      BY <3>3, Zenon DEF file_Search
    <3>5. name # << >> /\ Last(name) # Dot
      BY <1>5, <1>8, <2>1, <2>5
    <3>6. QED
      BY <1>2, <1>6, <1>7, <2>3, <3>4, <3>5, Zenon
  <2>6. QED
    BY <2>4, <2>5
<1>11. QED
  BY <1>9, <1>10

-----------------------------------------------------------------------------
(* The content of a file of one cluster.                                    *)

\* The first n + 1 clusters of the chain that begins at cluster c.
Chain(g, n, c, links) == g = [k \in 0 .. n |-> IF k = 0 THEN c ELSE links[g[k - 1]]]

LEMMA ChainExists ==
    ASSUME NEW n \in Nat, NEW c, NEW links
    PROVE  \E g : Chain(g, n, c, links)
<1> DEFINE Without == {m \in Nat : ~ \E g : Chain(g, m, c, links)}
<1>1. SUFFICES ASSUME Without # {} PROVE FALSE
  BY <1>1
<1>2. PICK m \in Without : \A k \in Without : m <= k
  <2>1. Without \subseteq Nat
    OBVIOUS
  <2> HIDE DEF Without
  <2>2. QED
    BY <1>1, <2>1, MinOfNats
<1>3. m \in Nat /\ ~ \E g : Chain(g, m, c, links)
  BY <1>2
<1>4. CASE m = 0
  <2> DEFINE g == [k \in 0 .. 0 |-> c]
  <2>1. g = [k \in 0 .. 0 |-> IF k = 0 THEN c ELSE links[g[k - 1]]]
    OBVIOUS
  <2> HIDE DEF g
  <2>2. QED
    BY <1>3, <1>4, <2>1, Zenon DEF Chain
<1>5. CASE m # 0
  <2>1. m - 1 \in Nat /\ m - 1 < m
    BY <1>3, <1>5
  <2>2. PICK f : Chain(f, m - 1, c, links)
    <3>1. m - 1 \notin Without
      BY <1>2, <1>3, <2>1
    <3>2. QED
      BY <2>1, <3>1
  <2>3. \A k \in 0 .. m - 1 : f[k] = IF k = 0 THEN c ELSE links[f[k - 1]]
    BY <2>2 DEF Chain
  <2> DEFINE g == [k \in 0 .. m |-> IF k = m THEN links[f[m - 1]] ELSE f[k]]
  <2>4. ASSUME NEW k \in 0 .. m
        PROVE  g[k] = IF k = 0 THEN c ELSE links[g[k - 1]]
    <3>1. CASE k = 0
      <4>1. 0 \in 0 .. m /\ 0 \in 0 .. m - 1 /\ 0 # m
        BY <1>3, <1>5
      <4>2. QED
        BY <2>3, <3>1, <4>1
    <3>2. CASE k # 0
      <4>1. k - 1 \in 0 .. m /\ k - 1 # m /\ (k # m => k \in 0 .. m - 1) /\ (k = m => k - 1 = m - 1)
        BY <1>3, <3>2
      <4>2. QED
        BY <2>3, <3>2, <4>1
    <3>3. QED
      BY <3>1, <3>2
  <2>5. g = [k \in 0 .. m |-> g[k]]
    OBVIOUS
  <2> HIDE DEF g
  <2>6. g = [k \in 0 .. m |-> IF k = 0 THEN c ELSE links[g[k - 1]]]
    BY <2>4, <2>5, Zenon
  <2>7. QED
    BY <1>3, <2>6, Zenon DEF Chain
<1>6. QED
  BY <1>4, <1>5

\* Longer and shorter ones agree.
LEMMA ChainsAgree ==
    ASSUME NEW c, NEW links, NEW n \in Nat, NEW m \in Nat, n <= m,
           NEW g, Chain(g, n, c, links), NEW h, Chain(h, m, c, links)
    PROVE  \A k \in 0 .. n : g[k] = h[k]
<1> DEFINE Wrong == {k \in 0 .. n : g[k] # h[k]}
<1>1. SUFFICES ASSUME Wrong # {} PROVE FALSE
  OBVIOUS
<1>2. PICK k \in Wrong : \A l \in Wrong : k <= l
  <2>1. Wrong \subseteq Nat
    OBVIOUS
  <2> HIDE DEF Wrong
  <2>2. QED
    BY <1>1, <2>1, MinOfNats
<1>3. k \in 0 .. n /\ g[k] # h[k] /\ k \in 0 .. m
  BY <1>2
<1>4. /\ g[k] = IF k = 0 THEN c ELSE links[g[k - 1]]
      /\ h[k] = IF k = 0 THEN c ELSE links[h[k - 1]]
  BY <1>3 DEF Chain
<1>5. k # 0 => g[k - 1] = h[k - 1]
  <2>1. ASSUME k # 0 PROVE k - 1 \in 0 .. n /\ k - 1 \notin Wrong
    BY <1>2, <1>3, <2>1
  <2>2. QED
    BY <2>1
<1>6. QED
  BY <1>3, <1>4, <1>5

\* So there is a chain without an end.
Endless(at, c, links) == at = [k \in Nat |-> IF k = 0 THEN c ELSE links[at[k - 1]]]

LEMMA EndlessChain ==
    ASSUME NEW c, NEW links
    PROVE  \E at : Endless(at, c, links)
<1> DEFINE g(n) == CHOOSE f : Chain(f, n, c, links)
           at == [k \in Nat |-> g(k)[k]]
<1>1. ASSUME NEW n \in Nat PROVE Chain(g(n), n, c, links)
  BY ChainExists, Zenon
<1> HIDE DEF g
<1>2. ASSUME NEW k \in Nat PROVE at[k] = IF k = 0 THEN c ELSE links[at[k - 1]]
  <2>1. PICK f : f = g(k)
    OBVIOUS
  <2>2. Chain(f, k, c, links) /\ at[k] = f[k] /\ k \in 0 .. k
    BY <1>1, <2>1
  <2>3. f[k] = IF k = 0 THEN c ELSE links[f[k - 1]]
    BY <2>2 DEF Chain
  <2>4. ASSUME k # 0 PROVE at[k - 1] = f[k - 1]
    <3>1. k - 1 \in Nat /\ k - 1 <= k /\ k - 1 \in 0 .. k - 1
      BY <2>4
    <3>2. PICK h : h = g(k - 1)
      OBVIOUS
    <3>3. Chain(h, k - 1, c, links) /\ at[k - 1] = h[k - 1]
      BY <1>1, <3>1, <3>2
    <3>4. QED
      BY <2>2, <3>1, <3>3, ChainsAgree
  <2>5. QED
    BY <2>2, <2>3, <2>4
<1>3. at = [k \in Nat |-> at[k]]
  OBVIOUS
<1> HIDE DEF at
<1>4. at = [k \in Nat |-> IF k = 0 THEN c ELSE links[at[k - 1]]]
  BY <1>2, <1>3, Zenon
<1>5. QED
  BY <1>4, Zenon DEF Endless

\* file_LoadFile loads a file of one cluster as it is.
LEMMA OneCluster ==
    ASSUME NEW f, NEW links, NEW img, f.size \in Nat, f.size <= Cluster
    PROVE  file_LoadFile(f.clustno, f.size, img) = Content(f, links, img)
<1> DEFINE IsChain(at) == at = [k \in Nat |-> IF k = 0 THEN f.clustno ELSE links[at[k - 1]]]
           at0 == CHOOSE at : IsChain(at)
<1>1. PICK n \in Nat : n = f.size /\ n <= Cluster
  OBVIOUS
<1>2. IsChain(at0)
  <2>1. PICK at : Endless(at, f.clustno, links)
    BY EndlessChain, Zenon
  <2>2. IsChain(at)
    BY <2>1, Zenon DEF Endless
  <2> HIDE DEF IsChain
  <2>3. QED
    BY <2>2, Zenon
<1>3. Content(f, links, img)
          = [i \in 1 .. n |-> img[at0[(i - 1) \div Cluster]][((i - 1) % Cluster) + 1]]
  BY <1>1, Zenon DEF Content
<1> HIDE DEF at0
<1>4. at0[0] = f.clustno
  BY <1>2
<1>5. \A i \in 1 .. n : (i - 1) \div Cluster = 0
  BY <1>1, FileSysAssumption
<1>6. file_LoadFile(f.clustno, f.size, img)
          = [i \in 1 .. n |-> img[f.clustno][((i - 1) % Cluster) + 1]]
  BY <1>1, Zenon DEF file_LoadFile
<1>7. QED
  BY <1>3, <1>4, <1>5, <1>6

-----------------------------------------------------------------------------
(* What the commands read.                                                  *)

\* The file that a line's user means, as DiskRead says.
Meant(line, user, dir, f) ==
    IF \/ \E w \in {MemWord, ClsWord, DirWord} : Is(line, w)
       \/ Begins(line, TypeWord)
    THEN LET name == SubSeq(user, Len(TypeWord) + 2, Len(user))
         IN  (\A w \in {MemWord, ClsWord, DirWord, TypeWord} : ~ Is(line, w))
                 /\ Proper(name) => f = Named(name, dir)
    ELSE LET name == AppName(line)
             hrb == name \o <<Dot>> \o HrbExt
         IN  Proper(name) => f = IF Named(name, dir) # 0 THEN Named(name, dir)
                                 ELSE IF Proper(hrb) THEN Named(hrb, dir) ELSE 0

\* While a line is typed no file has been found; when it has been run, the file is
\* the one it means; and a file that was found has been loaded.
ReadInv ==
    /\ fat = disk.links
    /\ ~ fault =>
        /\ pc \in {"loop", "run"} => file = 0
        /\ pc \notin {"loop", "run"} /\ typed # << >> => Meant(cmdline, typed, disk.dir, file)
        /\ file # 0 => /\ file \in Listed(disk.dir) /\ ~ disk.dir[file].special
                       /\ loaded = Loaded(disk.dir[file])

\* That is enough.
LEMMA ReadEnough == LineInv /\ ReadInv => DiskRead
<1> SUFFICES ASSUME LineInv, ReadInv PROVE DiskRead
  OBVIOUS
<1>1. disk \in Disks /\ fat = disk.links
  BY DEF LineInv, ReadInv
<1>2. ASSUME ~ fault, file # 0 \/ pc = "prompt", typed # << >>
      PROVE  Meant(cmdline, typed, disk.dir, file)
  BY <1>2 DEF ReadInv
<1>3. ASSUME ~ fault, file # 0, disk.dir[file].size <= Cluster
      PROVE  loaded = Content(disk.dir[file], disk.links, disk.img)
  <2>1. file \in Listed(disk.dir) /\ ~ disk.dir[file].special /\ loaded = Loaded(disk.dir[file])
    BY <1>3 DEF ReadInv
  <2>2. PICK f : f = disk.dir[file] /\ f.size \in Nat /\ f.size <= Cluster
    BY <1>1, <1>3, <2>1, DiskKnown
  <2>3. QED
    BY <2>1, <2>2, OneCluster DEF Loaded
<1>4. QED
  BY <1>1, <1>2, <1>3, Zenon DEF DiskRead, Meant, IsCommand

\* At boot nothing was read but the table.
LEMMA ReadInit == Init => ReadInv
<1> SUFFICES ASSUME Init PROVE ReadInv
  OBVIOUS
<1>1. disk \in Disks /\ fat = file_ReadFat(FatOnDisk(disk.links), Cardinality(DOMAIN disk.links))
  BY DEF Init
<1>2. fat = disk.links
  BY <1>1, FatUnpacked, Zenon
<1>3. QED
  BY <1>2 DEF Init, ReadInv

\* Steps that neither read nor begin another line.
Reading == pc \notin {"loop", "run"}
Calm ==
    /\ UNCHANGED <<cmdline, disk, fat, file, loaded, typed>>
    /\ fault => fault'
    /\ Reading' = Reading

LEMMA CalmKeepsRead == ReadInv /\ Calm => ReadInv'
BY DEF ReadInv, Calm, Reading, Loaded

\* As long as no file has been found, the user may type.
LEMMA TypingKeepsRead ==
    ASSUME ReadInv, pc = "loop", pc' \in {"loop", "run"},
           UNCHANGED <<disk, fat, file, fault>>
    PROVE  ReadInv'
BY DEF ReadInv

\* A line that runs one of the printing commands means no file.
LEMMA RunPrintingKeepsRead == LineInv /\ ReadInv /\ RunPrinting => ReadInv'
<1> SUFFICES ASSUME LineInv, ReadInv, RunPrinting PROVE ReadInv'
  OBVIOUS
<1>1. /\ pc = "run" /\ pc' = "prompt" /\ ~ fault
      /\ UNCHANGED <<cmdline, disk, fat, file, loaded, typed, fault>>
      /\ Is(cmdline, MemWord) \/ Is(cmdline, ClsWord) \/ Is(cmdline, DirWord) \/ Is(cmdline, << >>)
  BY DEF RunPrinting, At, Quiet, Prints
<1>2. fat = disk.links /\ file = 0
  BY <1>1 DEF ReadInv
<1>3. ASSUME typed # << >> PROVE Meant(cmdline, typed, disk.dir, file)
  <2>1. ~ Is(cmdline, << >>)
    BY <1>1, <1>3, BufferString DEF Is
  <2>2. PICK w \in {MemWord, ClsWord, DirWord} : Is(cmdline, w)
    BY <1>1, <2>1
  <2>3. QED
    BY <2>2, Zenon DEF Meant
<1>4. QED
  BY <1>1, <1>2, <1>3 DEF ReadInv

\* What stands behind "type ".
LEMMA TypeName ==
    ASSUME LineInv, pc = "run", Begins(cmdline, TypeWord), ~ Is(cmdline, TypeWord)
    PROVE  /\ CString(cmdline, Len(TypeWord) + 1) = SubSeq(typed, Len(TypeWord) + 2, Len(typed))
           /\ SubSeq(typed, Len(TypeWord) + 2, Len(typed)) \in Seq(Letters)
<1>1. /\ typed \in Seq(Letters) /\ cmdline \in [0 .. Columns - 1 -> Letters \cup {NUL}]
      /\ Holds /\ cmdline[Len(typed)] = NUL /\ Len(typed) <= Columns - 2
  BY DEF LineInv, TypeOK
<1>2. PICK n \in Nat : n = Len(typed)
  BY <1>1, LenProperties
<1>3. PICK t \in Nat : t = Len(TypeWord) /\ TypeWord \in Seq(Letters) /\ DOMAIN TypeWord = 1 .. t
  BY ConsoleAssumption, LenProperties
<1>4. \A i \in 1 .. t : cmdline[i - 1] = TypeWord[i] /\ TypeWord[i] \in Letters
  BY <1>3, ElementOfSeq DEF Begins
<1>5. t <= n
  <2>1. ASSUME n < t PROVE FALSE
    <3>1. n + 1 \in 1 .. t /\ n + 1 - 1 = n
      BY <2>1
    <3>2. cmdline[n] \in Letters
      BY <1>4, <3>1
    <3>3. QED
      BY <1>1, <1>2, <3>2, CharsKnown
  <2>2. QED
    BY <2>1
<1>6. t # n
  <2>1. ASSUME t = n PROVE FALSE
    <3>1. ASSUME NEW i \in 1 .. n PROVE typed[i] = TypeWord[i]
      <4>1. PICK k \in 0 .. n - 1 : k = i - 1 /\ k + 1 = i
        OBVIOUS
      <4>2. cmdline[k] = typed[i]
        BY <1>1, <1>2, <4>1 DEF Holds
      <4>3. QED
        BY <1>4, <2>1, <4>1, <4>2
    <3>2. typed = TypeWord
      BY <1>1, <1>2, <1>3, <2>1, <3>1, SeqEqual
    <3>3. QED
      BY <3>2, BufferString DEF Is
  <2>2. QED
    BY <2>1
<1>7. t + 1 \in 0 .. n
  BY <1>5, <1>6
<1>8. CString(cmdline, t + 1) = [i \in 1 .. n - (t + 1) |-> typed[t + 1 + i]]
  BY <1>1, <1>2, <1>7, BufferFrom
<1> DEFINE s == SubSeq(typed, t + 2, n)
<1>9. PICK e \in Nat : e = n - (t + 1)
  BY <1>7
<1>10. s \in Seq(Letters) /\ Len(s) = e /\ \A i \in 1 .. e : s[i] = typed[t + 1 + i]
  <2>1. \A i \in t + 2 .. n : typed[i] \in Letters
    BY <1>1, <1>2, ElementOfSeq
  <2>2. t + 2 \in Int /\ n \in Int
    OBVIOUS
  <2>3. /\ s \in Seq(Letters) /\ Len(s) = IF t + 2 <= n THEN n - (t + 2) + 1 ELSE 0
        /\ \A i \in 1 .. n - (t + 2) + 1 : s[i] = typed[t + 2 + i - 1]
    BY <2>1, <2>2, SubSeqProperties
  <2>4. /\ e = IF t + 2 <= n THEN n - (t + 2) + 1 ELSE 0
        /\ n - (t + 2) + 1 = e
        /\ \A i \in 1 .. e : t + 2 + i - 1 = t + 1 + i
    BY <1>7, <1>9
  <2> HIDE DEF s
  <2>5. QED
    BY <2>3, <2>4
<1>11. s = [i \in 1 .. e |-> typed[t + 1 + i]]
  <2> HIDE DEF s
  <2>1. s = [i \in 1 .. e |-> s[i]]
    BY <1>10
  <2>2. QED
    BY <1>10, <2>1
<1>12. CString(cmdline, t + 1) = s
  BY <1>8, <1>9, <1>11
<1>13. QED
  BY <1>2, <1>3, <1>10, <1>12

\* The name of a program is a sequence of what was typed.
LEMMA AppNameType ==
    ASSUME LineInv, pc = "run" PROVE AppName(cmdline) \in Seq(Letters)
<1>1. CString(cmdline, 0) = typed /\ typed \in Seq(Letters)
  BY BufferString DEF LineInv, TypeOK
<1>2. PICK n \in Nat : n = Len(typed) /\ DOMAIN typed = 1 .. n
  BY <1>1, LenProperties
<1> DEFINE blanks == {i \in DOMAIN typed : typed[i] = Blank} \cup {n + 1}
<1>3. PICK b \in Nat : b = Min(blanks) /\ b <= n + 1 /\ b >= 1
  <2>1. blanks \subseteq Nat /\ blanks # {} /\ n + 1 \in blanks /\ \A y \in blanks : y >= 1
    BY <1>2
  <2> HIDE DEF blanks
  <2>2. Min(blanks) \in blanks /\ \A y \in blanks : Min(blanks) <= y
    BY <2>1, MinOfNats
  <2>3. QED
    BY <2>1, <2>2
<1>4. PICK m \in Nat : m = Min({b - 1, NameLen + ExtLen + 2}) /\ m <= n
  <2>1. {b - 1, NameLen + ExtLen + 2} \subseteq Nat /\ b - 1 <= n
    BY <1>3, NameSizes
  <2>2. PICK S : S = {b - 1, NameLen + ExtLen + 2}
    OBVIOUS
  <2>3. S \subseteq Nat /\ S # {} /\ b - 1 \in S
    BY <2>1, <2>2
  <2>4. Min(S) \in Nat /\ Min(S) <= b - 1
    BY <2>3, MinOfNats
  <2>5. Min(S) <= n
    BY <1>3, <2>1, <2>4
  <2>6. QED
    BY <2>2, <2>4, <2>5
<1>5. AppName(cmdline) = SubSeq(typed, 1, m)
  BY <1>1, <1>2, <1>3, <1>4, Zenon DEF AppName
<1>6. \A i \in 1 .. m : typed[i] \in Letters
  BY <1>1, <1>2, <1>4, ElementOfSeq
<1>7. 1 \in Int /\ m \in Int
  OBVIOUS
<1>8. QED
  BY <1>5, <1>6, <1>7, SubSeqProperties

\* A file that is loaded is what was searched for.
LEMMA FoundIsRead ==
    ASSUME LineInv, ReadInv, pc = "run", pc' \notin {"loop", "run"}, NEW f,
           UNCHANGED <<cmdline, disk, fat, typed>>, file' = f,
           Meant(cmdline, typed, disk.dir, f),
           f # 0 => f \in Listed(disk.dir) /\ ~ disk.dir[f].special /\ loaded' = Loaded(disk.dir[f])
    PROVE  ReadInv'
<1>1. fat = disk.links
  BY DEF ReadInv
<1>2. Meant(cmdline', typed', disk'.dir, file')
  BY Zenon
<1>3. file' # 0 => file' \in Listed(disk'.dir) /\ ~ disk'.dir[file'].special
  OBVIOUS
<1>4. file' # 0 => loaded' = Loaded(disk.dir[file])'
  BY DEF Loaded
<1>5. QED
  BY <1>1, <1>2, <1>3, <1>4 DEF ReadInv

LEMMA RunTypeKeepsRead == LineInv /\ ReadInv /\ RunType => ReadInv'
<1> SUFFICES ASSUME LineInv, ReadInv, RunType PROVE ReadInv'
  OBVIOUS
<1>1. PICK f : f = file_Search(CString(cmdline, Len(TypeWord) + 1), disk.dir)
  OBVIOUS
<1>2. /\ pc = "run" /\ pc' \notin {"loop", "run"} /\ file' = f
      /\ UNCHANGED <<cmdline, disk, fat, typed>>
      /\ \A w \in {MemWord, ClsWord, DirWord} : ~ Is(cmdline, w)
      /\ Begins(cmdline, TypeWord)
      /\ f # 0 => loaded' = Loaded(disk.dir[f])
  BY <1>1 DEF RunType, At, Quiet, Prints, Load
<1>3. f # 0 => f \in Listed(disk.dir) /\ ~ disk.dir[f].special
  BY <1>1, FoundFile DEF LineInv
<1>4. PICK name : name = SubSeq(typed, Len(TypeWord) + 2, Len(typed))
  OBVIOUS
<1>5. ASSUME ~ Is(cmdline, TypeWord), Proper(name) PROVE f = Named(name, disk.dir)
  <2>1. CString(cmdline, Len(TypeWord) + 1) = name /\ name \in Seq(Letters)
    BY <1>2, <1>4, <1>5, TypeName
  <2>2. QED
    BY <1>1, <1>5, <2>1, SearchIsNamed
<1>6. Meant(cmdline, typed, disk.dir, f)
  BY <1>2, <1>4, <1>5, Zenon DEF Meant
<1>7. QED
  BY <1>2, <1>3, <1>6, FoundIsRead

LEMMA RunAppKeepsRead == LineInv /\ ReadInv /\ RunApp => ReadInv'
<1> SUFFICES ASSUME LineInv, ReadInv, RunApp PROVE ReadInv'
  OBVIOUS
<1>1. PICK name, f : name = AppName(cmdline) /\ f = SearchApp(name)
  OBVIOUS
<1>2. /\ pc = "run" /\ pc' \notin {"loop", "run"} /\ file' = f
      /\ UNCHANGED <<cmdline, disk, fat, typed>>
      /\ ~ IsCommand
      /\ f # 0 => loaded' = Loaded(disk.dir[f])
  BY <1>1 DEF RunApp, At, Quiet, Prints, Load
<1>3. f # 0 => f \in Listed(disk.dir) /\ ~ disk.dir[f].special
  BY <1>1, FoundApp DEF LineInv
<1>4. name \in Seq(Letters)
  BY <1>1, <1>2, AppNameType
<1>5. PICK hrb : hrb = name \o <<Dot>> \o HrbExt
  OBVIOUS
<1>6. Proper(name) => f = IF Named(name, disk.dir) # 0 THEN Named(name, disk.dir)
                          ELSE IF Proper(hrb) THEN Named(hrb, disk.dir) ELSE 0
  BY <1>1, <1>4, <1>5, AppIsNamed, Zenon
<1>7. Meant(cmdline, typed, disk.dir, f)
  BY <1>1, <1>2, <1>5, <1>6, Zenon DEF Meant, IsCommand
<1>8. QED
  BY <1>2, <1>3, <1>7, FoundIsRead

\* Every step keeps it.
LEMMA ReadNext == LineInv /\ ReadInv /\ [Next]_vars => ReadInv'
<1> SUFFICES ASSUME LineInv, ReadInv, [Next]_vars PROVE ReadInv'
  OBVIOUS
<1>1. CASE UNCHANGED vars
  BY <1>1, CalmKeepsRead DEF vars, Calm, Reading
<1>2. CASE PrintStep
  BY <1>2, CalmKeepsRead DEF PrintStep, NewlineRow, NewlineCol, console_putchar, Calm, Reading
<1>3. CASE Prompt
  BY <1>3 DEF Prompt, At, Quiet, Prints, ReadInv
<1>4. CASE Enter
  BY <1>4, TypingKeepsRead DEF Enter, At, Quiet, Prints
<1>5. CASE Backspace
  BY <1>5, TypingKeepsRead DEF Backspace, At, Quiet
<1>6. CASE \E c \in Letters : TypeLetter(c)
  BY <1>6, TypingKeepsRead DEF TypeLetter, At, Quiet, Prints
<1>7. CASE TypeDone
  BY <1>7, CalmKeepsRead DEF TypeDone, At, Quiet, Prints, Calm, Reading
<1>8. CASE AppCall \/ AppEnds \/ AppFails \/ Redirect
  BY <1>8, CalmKeepsRead
  DEF AppCall, AppEnds, AppFails, Redirect, OnlyPrints, At, Quiet, Prints, Calm, Reading
<1>9. CASE ShiftAlt
  <2>1. pc \in {"app", "breaking", "end"}
    BY <1>9 DEF ShiftAlt, LineInv, TypeOK
  <2>2. QED
    BY <1>9, <2>1, CalmKeepsRead DEF ShiftAlt, Prints, Calm, Reading
<1>10. CASE EndApp
  BY <1>10, CalmKeepsRead DEF EndApp, At, Quiet, Calm, Reading
<1>11. CASE FreeFile
  BY <1>11, CalmKeepsRead DEF FreeFile, At, Quiet, Prints, Calm, Reading
<1>12. CASE Down
  BY <1>1, <1>12 DEF Down
<1>13. QED
  BY <1>1, <1>2, <1>3, <1>4, <1>5, <1>6, <1>7, <1>8, <1>9, <1>10, <1>11, <1>12,
     RunPrintingKeepsRead, RunTypeKeepsRead, RunAppKeepsRead
  DEF Next, Work

\* For any disk, any window and whatever the user types: the unpacked table is the
\* disk's, the file a command finds is the one that a proper name means, with
\* ".HRB" behind it if need be, and a file of one cluster is loaded as it is
\* (file_ReadFat, file_Search, file_LoadFile, cmd_type, cmd_app).
THEOREM DiskCorrect == Spec => []DiskRead
<1>1. Spec => []ReadInv
  BY ReadInit, ReadNext, LineAlways, PTL DEF Spec
<1>2. QED
  BY <1>1, ReadEnough, LineAlways, PTL
=============================================================================
