------------------------------ MODULE Console ------------------------------
(***************************************************************************)
(* The console's command line, its commands, and the application it runs   *)
(* (console.c; start_app, asm_hrb_api, asm_end_app and the exception       *)
(* handlers of naskfunc.nas), with task_a's Shift+Alt, which redirects the *)
(* console from wherever it stands.                                        *)
(*                                                                         *)
(* The model's column is cursor_x / 8 - 1, so that the prompt is in column *)
(* 0 and a line has Columns of them.  Characters are printed one by one,   *)
(* and a newline in its two assignments: between any two steps of a system *)
(* call task_a may come.  task_a itself outranks the console; its own      *)
(* printing is not interrupted by it.  After boot only the console         *)
(* allocates memory.                                                       *)
(***************************************************************************)
EXTENDS MemmanOps, FileSys

CONSTANTS Columns, Rows,    \* the size of the window in characters, 30 by 8
          Chars,            \* the characters that can be printed,
          Letters,          \* those that the user types
          MemWord, ClsWord, DirWord, TypeWord,  \* the words of the commands
          HrbExt,           \* "HRB"
          Boot,             \* struct MEMMAN when the console has started
          Disks,            \* dir, links (the table), img (cluster contents)
          Programs,         \* the first characters (headers) of programs, and
                            \* how much memory each asks for
          Outputs           \* what an application prints with one call

TabStop == 4
Text == "x"             \* the letters of the kernel's own messages
NL == "newline"
Tab == "tab"
CR == "return"

ASSUME ConsoleAssumption ==
    /\ Columns \in Nat /\ Columns >= 3 /\ Rows \in Nat \ {0}
    /\ \A w \in {MemWord, ClsWord, DirWord, TypeWord} :
           w \in Seq(Letters) /\ Len(w) \in 1 .. Columns - 2
    /\ HrbExt \in [1 .. ExtLen -> Range(HrbExt) \ {Dot}]
    /\ Letters \cup {Text, NL, Tab, CR} \subseteq Chars
    /\ NUL \notin Letters /\ {NL, Tab, CR} \cap Letters = {}
    /\ \A s \in Outputs : s \in Seq(Chars)

LinkValue == 0 .. 4095

\* The table's entries, an even number as in the code, have twelve bits; every
\* file can be read and printed.
ASSUME DiskAssumption ==
    \A d \in Disks :
        /\ LET n == Cardinality(DOMAIN d.links)
           IN  n \in Nat /\ n % 2 = 0 /\ d.links \in [0 .. n - 1 -> LinkValue]
        /\ Len(d.dir) \in Nat /\ DOMAIN d.dir = 1 .. Len(d.dir)
        /\ \A i \in Listed(d.dir) : ~ d.dir[i].special =>
               /\ d.dir[i].size \in Nat
               /\ file_LoadFile(d.dir[i].clustno, d.dir[i].size, d.img) \in Seq(Chars)

VARIABLES col, row,     \* struct CONSOLE
          cmdline,      \* the console's buffer, never initialised
          man,          \* struct MEMMAN
          disk, fat,    \* the disk and its unpacked table
          pc, out,      \* what the console does; what it still has to print
          wrap,         \* where console_newline is: "none", "row", "col"
          file, loaded, \* the file found by the command, and what was loaded
          p, q,         \* the addresses of cmd_type's and cmd_app's blocks
          ss0,          \* tss.ss0: 1 from start_app to asm_end_app
          typed,        \* what the user sees behind the prompt
          fault         \* TRUE once memory at address 0 is overwritten

vars == <<col, row, cmdline, man, disk, fat, pc, out, wrap, file, loaded, p, q, ss0,
          typed, fault>>

-----------------------------------------------------------------------------
MemText == <<Text, NL, Text, NL, NL>>
BadText == <<Text, NL, NL>>
NotFoundText == <<Text, NL, NL>>
FormatText == <<Text, NL>>
ExceptionText == <<NL, Text, NL, Text, NL, Text, NL>>
\* (A variant: the message does not begin with a newline.)
BreakTextInline == <<Text, NL>>
BreakText == <<NL, Text, NL>>

\* cmd_dir: a line for each file, and a newline.
DirText ==
    LET lines == {i \in Listed(disk.dir) : ~ disk.dir[i].special /\ ~ disk.dir[i].deleted}
    IN  [i \in 1 .. 2 * Cardinality(lines) + 1 |->
            IF i % 2 = 1 /\ i <= 2 * Cardinality(lines) THEN Text ELSE NL]

\* The string that begins at index from of the buffer.  What lies behind the
\* buffer is taken for a NUL.
CString(line, from) ==
    LET ends == {i \in DOMAIN line : i >= from /\ line[i] = NUL} \cup {Columns}
    IN  [i \in 1 .. Max({0, Min(ends) - from}) |-> line[from + i - 1]]

\* cmd_app's name: the line up to its first blank, 13 characters at most.
AppName(line) ==
    LET s == CString(line, 0)
        blanks == {i \in DOMAIN s : s[i] = Blank} \cup {Len(s) + 1}
    IN  SubSeq(s, 1, Min({Min(blanks) - 1, NameLen + ExtLen + 2}))

\* The name is tried as it is and, unless it ends with a dot, with ".HRB".
\* name[-1], looked at when the line begins with a blank, is taken for no dot.
SearchApp(name) ==
    LET found == file_Search(name, disk.dir)
    IN  IF found = 0 /\ (name = << >> \/ Last(name) # Dot)
        THEN file_Search(name \o <<Dot>> \o HrbExt, disk.dir)
        ELSE found

\* strcmp and strncmp of the line with a command's word.
Is(line, word) == CString(line, 0) = word
Begins(line, word) == \A i \in DOMAIN word : line[i - 1] = word[i]

-----------------------------------------------------------------------------
Init ==
    /\ col = 0 /\ row = 0
    /\ \E c \in Letters \cup {NUL} : cmdline = [i \in 0 .. Columns - 1 |-> c]
    /\ man = Boot
    /\ disk \in Disks
    /\ fat = file_ReadFat(FatOnDisk(disk.links), Cardinality(DOMAIN disk.links))
    /\ pc = "prompt" /\ out = << >> /\ wrap = "none"
    /\ file = 0 /\ loaded = << >> /\ p = 0 /\ q = 0
    /\ ss0 = 0 /\ typed = << >> /\ fault = FALSE

Quiet == out = << >> /\ wrap = "none" /\ ~ fault

\* Printing.  The two halves of console_newline:
NewlineRow ==
    /\ wrap = "row"
    /\ row' = IF row < Rows - 1 THEN row + 1 ELSE row
    /\ wrap' = "col"
    /\ UNCHANGED <<col, cmdline, man, disk, fat, pc, out, file, loaded, p, q, ss0, typed, fault>>

NewlineCol ==
    /\ wrap = "col"
    /\ col' = 0
    /\ wrap' = "none"
    /\ UNCHANGED <<row, cmdline, man, disk, fat, pc, out, file, loaded, p, q, ss0, typed, fault>>

\* console_putchar: a tab prints blanks up to the next stop or the next line.
Advance(c) ==
    /\ col' = col + 1
    /\ wrap' = IF col + 1 = Columns THEN "row" ELSE "none"
    /\ out' = IF c # Tab \/ col + 1 = Columns \/ (col + 1) % TabStop = 0
              THEN Tail(out) ELSE out

console_putchar ==
    /\ out # << >> /\ wrap = "none" /\ ~ fault
    /\ \/ Head(out) = NL /\ wrap' = "row" /\ out' = Tail(out) /\ UNCHANGED col
       \/ Head(out) = CR /\ out' = Tail(out) /\ UNCHANGED <<col, wrap>>
       \/ Head(out) \notin {NL, CR} /\ Advance(Head(out))
    /\ UNCHANGED <<row, cmdline, man, disk, fat, pc, file, loaded, p, q, ss0, typed, fault>>

-----------------------------------------------------------------------------
\* The console's loop.
At(where) == pc = where /\ Quiet
Prints(s, where) == out' = s /\ pc' = where

Prompt ==
    /\ At("prompt")
    /\ Prints(<<Text>>, "loop")
    /\ typed' = << >> /\ file' = 0 /\ loaded' = << >>
    /\ UNCHANGED <<col, row, cmdline, man, disk, fat, wrap, p, q, ss0, fault>>

\* (A variant admits a character in the last column too.)
RoomInAllColumns(c) == c < Columns
RoomInLine(c) == c < Columns - 1

TypeLetter(c) ==
    /\ At("loop")
    /\ RoomInLine(col)
    /\ cmdline' = [cmdline EXCEPT ![col - 1] = c]
    /\ typed' = Append(typed, c)
    /\ Prints(<<c>>, "loop")
    /\ UNCHANGED <<col, row, man, disk, fat, wrap, file, loaded, p, q, ss0, fault>>

Backspace ==
    /\ At("loop")
    /\ col > 1
    /\ col' = col - 1
    /\ typed' = Front(typed)
    /\ UNCHANGED <<row, cmdline, man, disk, fat, pc, out, wrap, file, loaded, p, q, ss0, fault>>

Enter ==
    /\ At("loop")
    /\ cmdline' = [cmdline EXCEPT ![col - 1] = NUL]
    /\ Prints(<<NL>>, "run")
    /\ UNCHANGED <<col, row, man, disk, fat, wrap, file, loaded, p, q, ss0, typed, fault>>

-----------------------------------------------------------------------------
\* console_runcmd.
IsCommand == \/ \E w \in {MemWord, ClsWord, DirWord} : Is(cmdline, w)
             \/ Begins(cmdline, TypeWord)

RunPrinting ==
    /\ At("run")
    /\ \/ Is(cmdline, MemWord) /\ Prints(MemText, "prompt") /\ UNCHANGED row
       \/ Is(cmdline, ClsWord) /\ Prints(<< >>, "prompt") /\ row' = 0
       \/ Is(cmdline, DirWord) /\ Prints(DirText, "prompt") /\ UNCHANGED row
       \/ Is(cmdline, << >>) /\ Prints(<< >>, "prompt") /\ UNCHANGED row
    /\ UNCHANGED <<col, cmdline, man, disk, fat, wrap, file, loaded, p, q, ss0, typed, fault>>

\* Memory for file f and its content; 0 from memman_alloc_4k is used as an
\* address like any other.
Loaded(f) == file_LoadFile(f.clustno, f.size, disk.img)
Load(f) == /\ p' = AllocReturns(man, RoundUp(f.size))
           /\ loaded' = Loaded(f)

\* cmd_type; the name begins one character after the word.
RunType ==
    /\ At("run")
    /\ \A w \in {MemWord, ClsWord, DirWord} : ~ Is(cmdline, w)
    /\ Begins(cmdline, TypeWord)
    /\ file' = file_Search(CString(cmdline, Len(TypeWord) + 1), disk.dir)
    /\ \/ /\ file' = 0
          /\ Prints(NotFoundText, "prompt")
          /\ UNCHANGED <<man, p, loaded, fault>>
       \/ /\ file' # 0
          /\ Load(disk.dir[file'])
          /\ man' = memman_alloc(man, RoundUp(disk.dir[file'].size))
          /\ Prints(loaded', "typing")
          /\ fault' = (p' = 0)
    /\ UNCHANGED <<col, row, cmdline, disk, fat, wrap, q, ss0, typed>>

\* cmd_app: what is no program is refused; a program gets its segment and runs.
IsProgram(content) == content # << >> /\ Head(content) \in DOMAIN Programs
Segment(content) == RoundUp(Programs[Head(content)])

RunApp ==
    /\ At("run")
    /\ ~ IsCommand /\ ~ Is(cmdline, << >>)
    /\ file' = SearchApp(AppName(cmdline))
    /\ \/ /\ file' = 0
          /\ Prints(BadText, "prompt")
          /\ UNCHANGED <<man, p, q, loaded, ss0, fault>>
       \/ /\ file' # 0
          /\ Load(disk.dir[file'])
          /\ LET man1 == memman_alloc(man, RoundUp(disk.dir[file'].size))
             IN  \/ /\ ~ IsProgram(loaded')
                    /\ man' = man1
                    /\ Prints(FormatText, "free")
                    /\ fault' = (p' = 0)
                    /\ UNCHANGED <<q, ss0>>
                 \/ /\ IsProgram(loaded')
                    /\ q' = AllocReturns(man1, Segment(loaded'))
                    /\ man' = memman_alloc(man1, Segment(loaded'))
                    /\ ss0' = 1
                    /\ Prints(<< >>, "app")
                    /\ fault' = (p' = 0 \/ q' = 0)
    /\ UNCHANGED <<col, row, cmdline, disk, fat, wrap, typed>>

TypeDone ==
    /\ At("typing")
    /\ man' = memman_free(man, p, RoundUp(disk.dir[file].size))
    /\ Prints(<<NL>>, "prompt")
    /\ UNCHANGED <<col, row, cmdline, disk, fat, wrap, file, loaded, p, q, ss0, typed, fault>>

-----------------------------------------------------------------------------
\* The application calls the system (it prints with calls 1 to 3; what the
\* others do is in Sheet), ends with call 4, or is stopped by an exception.
OnlyPrints == UNCHANGED <<col, row, cmdline, man, disk, fat, wrap, file, loaded, p, q, ss0,
                          typed, fault>>

AppCall == At("app") /\ (\E s \in Outputs : Prints(s, "app")) /\ OnlyPrints
AppEnds == At("app") /\ Prints(<< >>, "end") /\ OnlyPrints
AppFails == At("app") /\ Prints(ExceptionText, "end") /\ OnlyPrints

\* task_a on Shift+Alt: the test of ss0, the message, the new eip.
ShiftAlt ==
    /\ pc # "breaking" /\ ~ fault
    /\ ss0 # 0
    /\ Prints(BreakText, "breaking")
    /\ wrap' = "none"
    /\ UNCHANGED <<col, row, cmdline, man, disk, fat, file, loaded, p, q, ss0, typed, fault>>

\* (A variant leaves the eip as it was.)
RedirectForgotten == At("breaking") /\ Prints(<< >>, "app") /\ OnlyPrints
Redirect == At("breaking") /\ Prints(<< >>, "end") /\ OnlyPrints

\* asm_end_app and the way back through cmd_app.
EndApp ==
    /\ At("end")
    /\ ss0' = 0
    /\ man' = memman_free(man, q, Segment(loaded))
    /\ pc' = "free"
    /\ UNCHANGED <<col, row, cmdline, disk, fat, out, wrap, file, loaded, p, q, typed, fault>>

\* (A variant frees programs only.)
FreeProgram ==
    /\ At("free")
    /\ man' = IF IsProgram(loaded) THEN memman_free(man, p, RoundUp(disk.dir[file].size))
              ELSE man
    /\ Prints(<<NL>>, "prompt")
    /\ UNCHANGED <<col, row, cmdline, disk, fat, wrap, file, loaded, p, q, ss0, typed, fault>>
FreeFile ==
    /\ At("free")
    /\ man' = memman_free(man, p, RoundUp(disk.dir[file].size))
    /\ Prints(<<NL>>, "prompt")
    /\ UNCHANGED <<col, row, cmdline, disk, fat, wrap, file, loaded, p, q, ss0, typed, fault>>

\* After a fault nothing is modelled.
Down == fault /\ UNCHANGED vars

PrintStep == ~ fault /\ (NewlineRow \/ NewlineCol \/ console_putchar)
Work == Prompt \/ Enter \/ RunPrinting \/ RunType \/ RunApp \/ TypeDone
        \/ AppEnds \/ AppFails \/ Redirect \/ EndApp \/ FreeFile
Next == PrintStep \/ Work \/ AppCall \/ ShiftAlt \/ Backspace \/ Down
        \/ \E c \in Letters : TypeLetter(c)

\* The console and task_a execute their instructions.  Of the user and of the
\* application nothing is assumed, but that Shift+Alt is not struck for ever
\* within the few instructions between asm_end_app and its store to ss0.
Fairness == /\ WF_vars(PrintStep) /\ WF_vars(Redirect) /\ SF_vars(EndApp)
            /\ WF_vars(FreeFile) /\ WF_vars(Prompt)

Spec == Init /\ [][Next]_vars /\ Fairness

-----------------------------------------------------------------------------
TypeOK ==
    /\ col \in 0 .. Columns /\ row \in 0 .. Rows - 1
    /\ cmdline \in [0 .. Columns - 1 -> Letters \cup {NUL}]
    /\ wrap \in {"none", "row", "col"}
    /\ pc \in {"prompt", "loop", "run", "typing", "app", "breaking", "end", "free"}
    /\ file \in 0 .. Len(disk.dir)
    /\ ss0 \in {0, 1} /\ (ss0 = 1 => pc \in {"app", "breaking", "end"})
    /\ typed \in Seq(Letters) /\ Len(typed) <= Columns - 2

\* However the last program ended, the cursor stands behind what the user sees
\* behind the prompt, and that is what the buffer holds; Enter runs it.
LineIsTyped ==
    ~ fault =>
        /\ At("loop") => /\ col = Len(typed) + 1
                         /\ \A i \in DOMAIN typed : cmdline[i - 1] = typed[i]
        /\ pc = "run" => CString(cmdline, 0) = typed

\* At the prompt the memory is as at boot, the list's order and merges included:
\* every way out of a program or a command, Shift+Alt at any point among them,
\* gives back what was taken.  (A fault is an allocation that failed.)
MemoryBalanced == ~ fault /\ pc \in {"prompt", "loop", "run"} => man = Boot

\* The unpacked table is the disk's; the file found is the one that the user's
\* name means, with ".HRB" behind it if need be; and a file of one cluster is
\* loaded as it is.  (`type' with nothing behind it searches for a name left in
\* the buffer by an earlier line.)
DiskRead ==
    /\ fat = disk.links
    /\ ~ fault /\ (file # 0 \/ pc = "prompt") /\ typed # << >> =>
        IF IsCommand
        THEN LET name == SubSeq(typed, Len(TypeWord) + 2, Len(typed))
             IN  (\A w \in {MemWord, ClsWord, DirWord, TypeWord} : ~ Is(cmdline, w))
                     /\ Proper(name) => file = Named(name, disk.dir)
        ELSE LET name == AppName(cmdline)
                 hrb == name \o <<Dot>> \o HrbExt
             IN  Proper(name) => file = IF Named(name, disk.dir) # 0 THEN Named(name, disk.dir)
                                        ELSE IF Proper(hrb) THEN Named(hrb, disk.dir) ELSE 0
    /\ ~ fault /\ file # 0 /\ disk.dir[file].size <= Cluster =>
        loaded = Content(disk.dir[file], disk.links, disk.img)

\* Shift+Alt, an exception and the program's own end all lead to the prompt.
PromptReturns == (pc \in {"breaking", "end"} /\ ~ fault) ~> (pc = "loop")

\* console.c:187: "type" shows the content of the file.
TypeShowsFile ==
    pc = "typing" => loaded = Content(disk.dir[file], disk.links, disk.img)
=============================================================================
