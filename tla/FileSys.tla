------------------------------- MODULE FileSys -------------------------------
(***************************************************************************)
(* The functions of file.c on the image of a FAT12 disk, which the boot    *)
(* loader has put into memory: unpacking the table of clusters, finding a  *)
(* file by its name, loading it.  After them, what they should compute.    *)
(***************************************************************************)
EXTENDS Integers, Sequences, SequencesExt, FiniteSetsExt

CONSTANTS NameLen, ExtLen,   \* lengths of the two parts of a name, 8 and 3
          Cluster,           \* characters of a cluster, 512
          Upper              \* the letters that have a capital, and it

ASSUME FileSysAssumption == {NameLen, ExtLen, Cluster} \subseteq Nat \ {0}

NUL == "nul"
Blank == " "
Dot == "."

FullLen == NameLen + ExtLen
Capital(c) == IF c \in DOMAIN Upper THEN Upper[c] ELSE c

-----------------------------------------------------------------------------
\* Three bytes hold two entries of twelve bits.
FirstOfPair(byte0, byte1) == (byte0 + 256 * byte1) % 4096
\* (A variant takes the wrong half of the byte that the two entries share.)
SecondLowHalf(byte1, byte2) == (byte1 % 16) + 16 * byte2
SecondOfPair(byte1, byte2) == byte1 \div 16 + 16 * byte2

file_ReadFat(img, entries) ==
    [i \in 0 .. entries - 1 |->
        LET j == 3 * (i \div 2)
        IN  IF i % 2 = 0 THEN FirstOfPair(img[j], img[j + 1])
            ELSE SecondOfPair(img[j + 1], img[j + 2])]

\* One turn of the loop that lays out a typed name as the directory does: a dot
\* skips to the extension, a character beyond it makes the search fail.
LayOut(k, c) ==
    IF k.j >= FullLen THEN [k EXCEPT !.tooLong = TRUE]
    ELSE IF c = Dot /\ k.j <= NameLen THEN [k EXCEPT !.j = NameLen]
    ELSE [k EXCEPT !.s = [@ EXCEPT ![k.j + 1] = Capital(c)], !.j = @ + 1]
Key(name) == FoldLeft(LayOut, [s |-> [i \in 1 .. FullLen |-> Blank], j |-> 0,
                               tooLong |-> FALSE], name)

\* The entries before the first whose name is NUL.
Listed(dir) == {i \in DOMAIN dir : \A k \in 1 .. i : dir[k].name[1] # NUL}

\* The first entry with that name that is neither a directory nor the disk's
\* label; 0 if there is none.
file_Search(name, dir) ==
    LET hits == {i \in Listed(dir) : ~ dir[i].special /\ dir[i].name = Key(name).s}
    IN  IF Key(name).tooLong \/ hits = {} THEN 0 ELSE Min(hits)

\* The loop moves on in buf but reads one cluster again and again.
file_LoadFile(clustno, size, img) ==
    [i \in 1 .. size |-> img[clustno][((i - 1) % Cluster) + 1]]

-----------------------------------------------------------------------------
\* The disk: the table's entries as a row of nibbles, two to the byte.
Nibble(links, n) == (links[n \div 3] \div <<1, 16, 256>>[(n % 3) + 1]) % 16
FatOnDisk(links) ==
    [k \in 0 .. (3 * Cardinality(DOMAIN links)) \div 2 - 1 |->
        Nibble(links, 2 * k) + 16 * Nibble(links, 2 * k + 1)]

\* A name as users write it: a base, and perhaps a dot and an extension.
Proper(name) ==
    \E n \in 0 .. Min({Len(name), NameLen}) :
        /\ \A i \in DOMAIN name : name[i] = Dot <=> i = n + 1
        /\ Len(name) <= n + 1 + ExtLen

Part(name, from, len) ==
    [i \in 1 .. len |-> IF from + i - 1 \in DOMAIN name /\ \A k \in from .. from + i - 1 : name[k] # Dot
                        THEN Capital(name[from + i - 1]) ELSE Blank]
DotAt(name) == Min({i \in DOMAIN name : name[i] = Dot} \cup {Len(name) + 1})

\* The file a proper name means.
Named(name, dir) ==
    LET full == Part(name, 1, NameLen) \o Part(name, DotAt(name) + 1, ExtLen)
        hits == {i \in Listed(dir) : ~ dir[i].special /\ dir[i].name = full}
    IN  IF hits = {} THEN 0 ELSE Min(hits)

\* A file's content: the characters of its chain of clusters.
Content(file, links, img) ==
    LET at[k \in Nat] == IF k = 0 THEN file.clustno ELSE links[at[k - 1]]
    IN  [i \in 1 .. file.size |-> img[at[(i - 1) \div Cluster]][((i - 1) % Cluster) + 1]]
=============================================================================
