----------------------------- MODULE MCConsole -----------------------------
(***************************************************************************)
(* A window of six columns, so that four characters can be typed; names    *)
(* of two and one.  The first disk has the label and a deleted file, a     *)
(* text of three characters in two clusters, a program, the directory's    *)
(* end and a name behind it; the second a program that asks for more       *)
(* memory than there is, and a text of one cluster.                        *)
(***************************************************************************)
EXTENDS Console

MCUpper == [c \in {"a", "t"} |-> IF c = "a" THEN "A" ELSE "T"]
MCMem == <<"a", "t">>
MCCls == <<"t", ".">>
MCDir == <<".">>
MCType == <<"t">>
MCHrb == <<"T">>
MCBoot == [free |-> <<[addr |-> 2, size |-> 2], [addr |-> 8, size |-> 6]>>,
           maxfrees |-> 2, losts |-> 0, lostsize |-> 0]
MCChars == {"a", "t", ".", " ", "x", "y", NL, Tab, CR, "hari", "huge"}
MCPrograms == [c \in {"hari", "huge"} |-> IF c = "hari" THEN 3 ELSE 9]
MCOutputs == {<< >>, <<Text, Tab, CR, Text>>, <<Text, NL>>}

Entry(name, clustno, size) ==
    [name |-> name, clustno |-> clustno, size |-> size, special |-> FALSE, deleted |-> FALSE]
Links == [c \in 0 .. 5 |-> IF c = 0 THEN 4080 ELSE IF c = 2 THEN 5 ELSE 4095]
Img == [c \in 2 .. 5 |-> CASE c = 2 -> <<"x", NL>> [] c = 3 -> <<"hari", "x">>
                           [] c = 4 -> <<"huge", "x">> [] c = 5 -> <<"y", "y">>]

MCDisks ==
    {[links |-> Links, img |-> Img,
      dir |-> <<[Entry(<<"A", " ", " ">>, 0, 0) EXCEPT !.special = TRUE],
                [Entry(<<"deleted", "A", " ">>, 3, 1) EXCEPT !.deleted = TRUE],
                Entry(<<"A", " ", " ">>, 2, 3), Entry(<<"A", "A", "T">>, 3, 2),
                Entry(<<NUL, " ", " ">>, 0, 0), Entry(<<"A", " ", "A">>, 2, 1)>>],
     [links |-> Links, img |-> Img,
      dir |-> <<Entry(<<"A", " ", "T">>, 4, 1), Entry(<<"T", "A", " ">>, 5, 2)>>]}
=============================================================================
