---------------------------- MODULE MemmanProofs ----------------------------
(***************************************************************************)
(* Proofs about Memman.tla, for any regions, page size and list capacity,  *)
(* as long as nobody asks for an empty block: the free list stays ordered  *)
(* and merged, no byte has two owners, the list implements an allocator    *)
(* that knows only the set of free addresses, and no byte goes missing     *)
(* uncounted.  The first part is about the functions of memory.c alone:    *)
(* what they do to a list that is ordered and merged, and that giving a    *)
(* block back at once restores the list it was taken from.  The last part  *)
(* turns the sums of sizes into numbers of addresses.                      *)
(***************************************************************************)
EXTENDS Memman, SequenceTheorems, FiniteSetTheorems, WellFoundedInduction, TLAPS

USE PageAssumption, FreesAssumption

\* Two regions lie apart, and a region lies apart from every entry of a list.
Apart(r, s) == r.addr + r.size <= s.addr \/ s.addr + s.size <= r.addr
Clear(r, list) == \A i \in 1 .. Len(list) : Apart(r, list[i])

\* Entries are not empty, in address order, and do not touch.
Ordered(list) ==
    /\ \A i \in 1 .. Len(list) : list[i].size > 0
    /\ \A i, j \in 1 .. Len(list) :
           i < j => list[i].addr + list[i].size < list[j].addr

ManType == [free : Seq(Region), maxfrees : 0 .. Frees, losts : Nat, lostsize : Nat]
Sound(m) == m \in ManType /\ Len(m.free) <= Frees /\ Ordered(m.free)

-----------------------------------------------------------------------------
(* Sequences, maxima and minima.                                            *)

\* What RemoveAt returns.
LEMMA RemoveAtProperties ==
    ASSUME NEW S, NEW s \in Seq(S), NEW i \in 1 .. Len(s)
    PROVE  /\ RemoveAt(s, i) \in Seq(S)
           /\ Len(RemoveAt(s, i)) = Len(s) - 1
           /\ \A j \in 1 .. Len(s) - 1 :
                  RemoveAt(s, i)[j] = IF j < i THEN s[j] ELSE s[j + 1]
<1> DEFINE a == SubSeq(s, 1, i - 1)
           b == SubSeq(s, i + 1, Len(s))
<1>0. Len(s) \in Nat /\ \A j \in 1 .. Len(s) : s[j] \in S
  BY ElementOfSeq, LenProperties
<1>1. /\ a \in Seq(S) /\ Len(a) = i - 1
      /\ \A j \in 1 .. i - 1 : a[j] = s[j]
  <2>1. \A j \in 1 .. i - 1 : s[j] \in S
    BY <1>0
  <2>2. QED
    BY <1>0, <2>1, SubSeqProperties
<1>2. /\ b \in Seq(S) /\ Len(b) = Len(s) - i
      /\ \A j \in 1 .. Len(s) - i : b[j] = s[i + j]
  <2>1. \A j \in i + 1 .. Len(s) : s[j] \in S
    BY <1>0
  <2>2. /\ b \in Seq(S)
        /\ Len(b) = IF i + 1 <= Len(s) THEN Len(s) - (i + 1) + 1 ELSE 0
        /\ \A j \in 1 .. Len(s) - (i + 1) + 1 : b[j] = s[(i + 1) + j - 1]
    BY <1>0, <2>1, SubSeqProperties
  <2>3. QED
    BY <1>0, <2>2
<1>3. RemoveAt(s, i) = a \o b
  BY DEF RemoveAt
<1> HIDE DEF a, b
<1>4. /\ a \o b \in Seq(S)
      /\ Len(a \o b) = Len(a) + Len(b)
      /\ \A j \in 1 .. Len(a) + Len(b) :
             (a \o b)[j] = IF j <= Len(a) THEN a[j] ELSE b[j - Len(a)]
  BY <1>1, <1>2, ConcatProperties
<1>5. QED
  BY <1>0, <1>1, <1>2, <1>3, <1>4

\* What InsertAt returns.
LEMMA InsertAtProperties ==
    ASSUME NEW s \in Seq(Region), NEW i \in 1 .. Len(s) + 1, NEW e \in Region
    PROVE  /\ InsertAt(s, i, e) \in Seq(Region)
           /\ Len(InsertAt(s, i, e)) = Len(s) + 1
           /\ \A j \in 1 .. Len(s) + 1 :
                  InsertAt(s, i, e)[j] = IF j < i THEN s[j]
                                         ELSE IF j = i THEN e ELSE s[j - 1]
<1> DEFINE a == SubSeq(s, 1, i - 1)
           b == SubSeq(s, i, Len(s))
           c == <<e>>
<1>0. Len(s) \in Nat /\ \A j \in 1 .. Len(s) : s[j] \in Region
  BY ElementOfSeq, LenProperties
<1>1. /\ a \in Seq(Region) /\ Len(a) = i - 1
      /\ \A j \in 1 .. i - 1 : a[j] = s[j]
  <2>1. \A j \in 1 .. i - 1 : s[j] \in Region
    BY <1>0
  <2>2. QED
    BY <1>0, <2>1, SubSeqProperties
<1>2. /\ b \in Seq(Region) /\ Len(b) = Len(s) + 1 - i
      /\ \A j \in 1 .. Len(s) + 1 - i : b[j] = s[i + j - 1]
  <2>1. \A j \in i .. Len(s) : s[j] \in Region
    BY <1>0
  <2>2. /\ b \in Seq(Region)
        /\ Len(b) = IF i <= Len(s) THEN Len(s) - i + 1 ELSE 0
        /\ \A j \in 1 .. Len(s) - i + 1 : b[j] = s[i + j - 1]
    BY <1>0, <2>1, SubSeqProperties
  <2>3. QED
    BY <1>0, <2>2
<1>3. c \in Seq(Region) /\ Len(c) = 1 /\ c[1] = e
  OBVIOUS
<1>4. InsertAt(s, i, e) = a \o c \o b
  BY DEF InsertAt
<1> HIDE DEF a, b, c
<1>5. /\ a \o c \in Seq(Region)
      /\ Len(a \o c) = Len(a) + Len(c)
      /\ \A j \in 1 .. Len(a) + Len(c) :
             (a \o c)[j] = IF j <= Len(a) THEN a[j] ELSE c[j - Len(a)]
  BY <1>1, <1>3, ConcatProperties
<1> DEFINE ac == a \o c
<1>6. /\ ac \in Seq(Region) /\ Len(ac) = i
      /\ \A j \in 1 .. i : ac[j] = IF j < i THEN s[j] ELSE e
  BY <1>0, <1>1, <1>3, <1>5
<1> HIDE DEF ac
<1>7. /\ ac \o b \in Seq(Region)
      /\ Len(ac \o b) = Len(ac) + Len(b)
      /\ \A j \in 1 .. Len(ac) + Len(b) :
             (ac \o b)[j] = IF j <= Len(ac) THEN ac[j] ELSE b[j - Len(ac)]
  BY <1>2, <1>6, ConcatProperties
<1>8. InsertAt(s, i, e) = ac \o b
  BY <1>4 DEF ac
<1>9. QED
  BY <1>0, <1>2, <1>6, <1>7, <1>8

\* A non-empty set of natural numbers has a least element.
LEMMA MinOfNats ==
    ASSUME NEW T, T \subseteq Nat, T # {}
    PROVE  Min(T) \in T /\ \A y \in T : Min(T) <= y
<1>1. \E x \in T : \A y \in T : ~ (<<y, x>> \in OpToRel(<, Nat))
  BY WFMin, NatLessThanWellFounded, Zenon
<1>2. \A x, y \in Nat : y < x => <<y, x>> \in OpToRel(<, Nat)
  BY Zenon DEF OpToRel
<1>3. PICK x \in T : \A y \in T : ~ (y < x)
  BY <1>1, <1>2, Zenon
<1>4. \E z \in T : \A y \in T : z <= y
  BY <1>3
<1>5. QED
  BY <1>4 DEF Min

\* The greater of two numbers is one of them.
LEMMA MaxOfTwo ==
    ASSUME NEW a \in Nat, NEW b \in Nat
    PROVE  Max({a, b}) \in {a, b}
<1>1. \E x \in {a, b} : \A y \in {a, b} : x >= y
  OBVIOUS
<1>2. QED
  BY <1>1 DEF Max

\* Rounding up a size that is not 0 gives a size that is not 0.
LEMMA RoundUpType ==
    ASSUME NEW size \in Nat
    PROVE  /\ RoundUp(size) \in Nat
           /\ size > 0 => RoundUp(size) > 0
<1> DEFINE n == size + Page - 1
<1>1. n \in Nat
  OBVIOUS
<1>2. n \div Page \in Nat
  BY <1>1
<1>3. size > 0 => n \div Page >= 1
  BY <1>1
<1>4. QED
  BY <1>2, <1>3 DEF RoundUp

-----------------------------------------------------------------------------
(* Ordered lists of regions: replacing, removing and inserting an entry.    *)

\* The entries of a list are regions.
LEMMA Entries ==
    ASSUME NEW s \in Seq(Region)
    PROVE  /\ Len(s) \in Nat /\ DOMAIN s = 1 .. Len(s)
           /\ \A j \in 1 .. Len(s) :
                  s[j] \in Region /\ s[j].addr \in Nat /\ s[j].size \in Nat
<1>1. Len(s) \in Nat /\ DOMAIN s = 1 .. Len(s)
  BY LenProperties
<1>2. \A j \in 1 .. Len(s) : s[j] \in Region
  BY ElementOfSeq
<1>3. \A r \in Region : r.addr \in Nat /\ r.size \in Nat
  BY DEF Region
<1>4. QED
  BY <1>1, <1>2, <1>3

\* A record of an address and a size is a region.
LEMMA RegionMade ==
    ASSUME NEW a \in Nat, NEW n \in Nat
    PROVE  LET r == [addr |-> a, size |-> n]
           IN  r \in Region /\ r.addr = a /\ r.size = n
BY DEF Region

\* An entry that fits between its neighbours may take the place of another.
LEMMA ReplaceEntry ==
    ASSUME NEW s \in Seq(Region), Ordered(s),
           NEW i \in 1 .. Len(s), NEW e \in Region, e.size > 0,
           \A j \in 1 .. Len(s) : j < i => s[j].addr + s[j].size < e.addr,
           \A j \in 1 .. Len(s) : j > i => e.addr + e.size < s[j].addr
    PROVE  LET t == [s EXCEPT ![i] = e]
           IN  /\ t \in Seq(Region) /\ Len(t) = Len(s) /\ Ordered(t)
               /\ t[i] = e /\ \A j \in 1 .. Len(s) : j # i => t[j] = s[j]
               /\ \A c : Clear(c, s) /\ Apart(c, e) => Clear(c, t)
<1> DEFINE t == [s EXCEPT ![i] = e]
<1>1. /\ t \in Seq(Region) /\ Len(t) = Len(s)
      /\ \A j \in 1 .. Len(s) : t[j] = IF j = i THEN e ELSE s[j]
  BY ExceptSeq
<1> HIDE DEF t
<1>2. Ordered(t)
  <2>1. \A j \in 1 .. Len(t) : t[j].size > 0
    BY <1>1 DEF Ordered
  <2>2. ASSUME NEW j \in 1 .. Len(t), NEW k \in 1 .. Len(t), j < k
        PROVE  t[j].addr + t[j].size < t[k].addr
    BY <1>1, <2>2 DEF Ordered
  <2>3. QED
    BY <2>1, <2>2 DEF Ordered
<1>3. \A c : Clear(c, s) /\ Apart(c, e) => Clear(c, t)
  <2>1. ASSUME NEW c, Clear(c, s), Apart(c, e), NEW j \in 1 .. Len(t)
        PROVE  Apart(c, t[j])
    <3>1. CASE j = i
      BY <1>1, <2>1, <3>1
    <3>2. CASE j # i
      BY <1>1, <2>1, <3>2 DEF Clear
    <3>3. QED
      BY <3>1, <3>2
  <2>2. QED
    BY <2>1 DEF Clear
<1>4. QED
  BY <1>1, <1>2, <1>3 DEF t

\* Any entry may go.
LEMMA RemoveEntry ==
    ASSUME NEW s \in Seq(Region), Ordered(s), NEW i \in 1 .. Len(s)
    PROVE  LET t == RemoveAt(s, i)
           IN  /\ t \in Seq(Region) /\ Len(t) = Len(s) - 1 /\ Ordered(t)
               /\ \A c : (\A j \in 1 .. Len(s) : j # i => Apart(c, s[j])) => Clear(c, t)
<1> DEFINE t == RemoveAt(s, i)
<1>1. /\ t \in Seq(Region) /\ Len(t) = Len(s) - 1
      /\ \A j \in 1 .. Len(s) - 1 : t[j] = IF j < i THEN s[j] ELSE s[j + 1]
  BY RemoveAtProperties
<1>2. Len(s) \in Nat
  BY Entries
<1> HIDE DEF t
<1>3. Ordered(t)
  <2>1. \A j \in 1 .. Len(t) : t[j].size > 0
    BY <1>1, <1>2 DEF Ordered
  <2>2. ASSUME NEW j \in 1 .. Len(t), NEW k \in 1 .. Len(t), j < k
        PROVE  t[j].addr + t[j].size < t[k].addr
    BY <1>1, <1>2, <2>2, SMTT(30) DEF Ordered
  <2>3. QED
    BY <2>1, <2>2 DEF Ordered
<1>4. ASSUME NEW c, \A j \in 1 .. Len(s) : j # i => Apart(c, s[j]),
             NEW j \in 1 .. Len(t)
      PROVE  Apart(c, t[j])
  <2>1. CASE j < i
    BY <1>1, <1>2, <1>4, <2>1
  <2>2. CASE j >= i
    <3>1. j + 1 \in 1 .. Len(s) /\ j + 1 # i /\ t[j] = s[j + 1]
      BY <1>1, <1>2, <2>2
    <3>2. QED
      BY <1>4, <3>1
  <2>3. QED
    BY <1>1, <1>2, <2>1, <2>2
<1>5. QED
  BY <1>1, <1>3, <1>4 DEF t, Clear

\* An entry that fits between its neighbours may go between them.
LEMMA InsertEntry ==
    ASSUME NEW s \in Seq(Region), Ordered(s),
           NEW i \in 1 .. Len(s) + 1, NEW e \in Region, e.size > 0,
           \A j \in 1 .. Len(s) : j < i => s[j].addr + s[j].size < e.addr,
           \A j \in 1 .. Len(s) : j >= i => e.addr + e.size < s[j].addr
    PROVE  LET t == InsertAt(s, i, e)
           IN  /\ t \in Seq(Region) /\ Len(t) = Len(s) + 1 /\ Ordered(t)
               /\ \A c : Clear(c, s) /\ Apart(c, e) => Clear(c, t)
<1> DEFINE t == InsertAt(s, i, e)
<1>1. /\ t \in Seq(Region) /\ Len(t) = Len(s) + 1
      /\ \A j \in 1 .. Len(s) + 1 : t[j] = IF j < i THEN s[j]
                                           ELSE IF j = i THEN e ELSE s[j - 1]
  <2>1. /\ InsertAt(s, i, e) \in Seq(Region) /\ Len(InsertAt(s, i, e)) = Len(s) + 1
        /\ \A j \in 1 .. Len(s) + 1 :
               InsertAt(s, i, e)[j] = IF j < i THEN s[j] ELSE IF j = i THEN e ELSE s[j - 1]
    BY ONLY InsertAtProperties, s \in Seq(Region), i \in 1 .. Len(s) + 1, e \in Region, Zenon
  <2>2. QED
    BY <2>1
<1>2. Len(s) \in Nat
  BY Entries
<1> HIDE DEF t
<1>3. Ordered(t)
  <2>1. ASSUME NEW j \in 1 .. Len(t)
        PROVE  t[j].size > 0
    BY <1>1, <1>2, SMTT(30) DEF Ordered
  <2>2. ASSUME NEW j \in 1 .. Len(t), NEW k \in 1 .. Len(t), j < k
        PROVE  t[j].addr + t[j].size < t[k].addr
    <3>1. CASE k < i
      BY <1>1, <1>2, <2>2, <3>1 DEF Ordered
    <3>2. CASE k = i
      <4>1. j \in 1 .. Len(s) /\ j < i /\ t[j] = s[j] /\ t[k] = e
        BY <1>1, <1>2, <2>2, <3>2
      <4>2. QED
        BY <4>1
    <3>3. CASE j < i /\ i < k
      <4>1. /\ j \in 1 .. Len(s) /\ k - 1 \in 1 .. Len(s) /\ j < k - 1
            /\ t[j] = s[j] /\ t[k] = s[k - 1]
        BY <1>1, <1>2, <2>2, <3>3
      <4>2. QED
        BY <4>1 DEF Ordered
    <3>4. CASE j = i
      <4>1. /\ k - 1 \in 1 .. Len(s) /\ k - 1 >= i
            /\ t[j] = e /\ t[k] = s[k - 1]
        BY <1>1, <1>2, <2>2, <3>4
      <4>2. QED
        BY <4>1
    <3>5. CASE i < j
      <4>1. /\ j - 1 \in 1 .. Len(s) /\ k - 1 \in 1 .. Len(s) /\ j - 1 < k - 1
            /\ t[j] = s[j - 1] /\ t[k] = s[k - 1]
        BY <1>1, <1>2, <2>2, <3>5
      <4>2. QED
        BY <4>1 DEF Ordered
    <3>6. QED
      BY <1>1, <1>2, <2>2, <3>1, <3>2, <3>3, <3>4, <3>5
  <2>3. QED
    BY <2>1, <2>2 DEF Ordered
<1>4. ASSUME NEW c, Clear(c, s), Apart(c, e), NEW j \in 1 .. Len(t)
      PROVE  Apart(c, t[j])
  <2>1. CASE j < i
    BY <1>1, <1>2, <1>4, <2>1 DEF Clear
  <2>2. CASE j = i
    BY <1>1, <1>2, <1>4, <2>2
  <2>3. CASE j > i
    <3>1. j - 1 \in 1 .. Len(s) /\ t[j] = s[j - 1]
      BY <1>1, <1>2, <2>3
    <3>2. QED
      BY <1>4, <3>1 DEF Clear
  <2>4. QED
    BY <1>1, <1>2, <2>1, <2>2, <2>3
<1>5. QED
  BY <1>1, <1>3, <1>4 DEF t, Clear

-----------------------------------------------------------------------------
(* memman_alloc and memman_free on a sound list.                            *)

\* A sound list takes the place of another in struct MEMMAN.
LEMMA SetFree ==
    ASSUME NEW m, m \in ManType, NEW l \in Seq(Region), Len(l) <= Frees, Ordered(l)
    PROVE  LET n == [m EXCEPT !.free = l] IN Sound(n) /\ n.free = l
BY DEF ManType, Sound

\* Taking the front of an entry: the list stays sound, and what is taken lies
\* apart from what is left and from whatever lay apart from the list.
LEMMA TakeKeepsSound ==
    ASSUME NEW m, Sound(m), NEW size \in Nat, size > 0, NEW i \in Fits(m, size)
    PROVE  LET n == Take(m, i, size)
               b == [addr |-> m.free[i].addr, size |-> size]
           IN  /\ Sound(n) /\ b \in Region /\ Clear(b, n.free)
               /\ \A c \in Region :
                      Clear(c, m.free) => Clear(c, n.free) /\ Apart(c, b)
<1> DEFINE n == Take(m, i, size)
           l == m.free
           b == [addr |-> l[i].addr, size |-> size]
<1>1. /\ m \in ManType /\ l \in Seq(Region) /\ Len(l) <= Frees /\ Ordered(l)
  BY DEF Sound, ManType
<1>2. /\ Len(l) \in Nat /\ i \in 1 .. Len(l)
      /\ l[i].size >= size
      /\ \A j \in 1 .. Len(l) : l[j].addr \in Nat /\ l[j].size \in Nat
  BY <1>1, Entries DEF Fits
<1>3. b \in Region
  BY <1>2 DEF Region
<1>4. ASSUME NEW j \in 1 .. Len(l), j # i PROVE Apart(b, l[j])
  <2>1. CASE j < i
    <3>1. l[j].addr + l[j].size < l[i].addr
      BY <1>1, <1>2, <2>1 DEF Ordered
    <3>2. QED
      BY <1>2, <3>1 DEF Apart
  <2>2. CASE j > i
    <3>1. l[i].addr + l[i].size < l[j].addr
      BY <1>1, <1>2, <2>2 DEF Ordered
    <3>2. QED
      BY <1>2, <3>1 DEF Apart
  <2>3. QED
    BY <1>2, <1>4, <2>1, <2>2
<1>5. \A c \in Region : Clear(c, l) => Apart(c, b)
  BY <1>2, SMTT(30) DEF Region, Clear, Apart
<1>6. CASE l[i].size = size
  <2> DEFINE t == RemoveAt(l, i)
  <2>1. /\ t \in Seq(Region) /\ Len(t) = Len(l) - 1 /\ Ordered(t)
        /\ \A c : (\A j \in 1 .. Len(l) : j # i => Apart(c, l[j])) => Clear(c, t)
    BY <1>1, <1>2, RemoveEntry
  <2> HIDE DEF t
  <2>2. Len(t) <= Frees
    BY <1>1, <1>2, <2>1, FreesAssumption
  <2>3. Clear(b, t)
    BY <1>4, <2>1
  <2>4. \A c \in Region : Clear(c, l) => Clear(c, t)
    BY <2>1 DEF Clear
  <2>5. Sound([m EXCEPT !.free = t]) /\ [m EXCEPT !.free = t].free = t
    BY <1>1, <2>1, <2>2, SetFree
  <2>6. n = [m EXCEPT !.free = t]
    BY <1>6 DEF Take, t
  <2>7. QED
    BY <1>3, <1>5, <2>3, <2>4, <2>5, <2>6
<1>7. CASE l[i].size # size
  <2> DEFINE e == [addr |-> l[i].addr + size, size |-> l[i].size - size]
             t == [l EXCEPT ![i] = e]
  <2>1. e \in Region /\ e.size > 0
    BY <1>2, <1>7, SMTT(30) DEF Region
  <2>2. ASSUME NEW j \in 1 .. Len(l), j < i
        PROVE  l[j].addr + l[j].size < e.addr
    <3>1. l[j].addr + l[j].size < l[i].addr
      BY <1>1, <1>2, <2>2 DEF Ordered
    <3>2. l[j].addr \in Nat /\ l[j].size \in Nat /\ l[i].addr \in Nat
      BY <1>2
    <3>3. QED
      BY <3>1, <3>2
  <2>3. ASSUME NEW j \in 1 .. Len(l), j > i
        PROVE  e.addr + e.size < l[j].addr
    <3>1. l[i].addr + l[i].size < l[j].addr
      BY <1>1, <1>2, <2>3 DEF Ordered
    <3>2. l[i].addr \in Nat /\ l[i].size \in Nat
      BY <1>2
    <3>3. QED
      BY <3>1, <3>2
  <2>4. Apart(b, e)
    BY <1>2 DEF Apart
  <2>5. ASSUME NEW c \in Region, Clear(c, l) PROVE Apart(c, e)
    <3>1. Apart(c, l[i]) /\ c.addr \in Nat /\ c.size \in Nat
      BY <1>2, <2>5 DEF Region, Clear
    <3>2. QED
      BY <1>2, <3>1 DEF Apart
  <2>6. n = [m EXCEPT !.free = t]
    BY <1>7 DEF Take, ManType
  <2> HIDE DEF e
  <2>7. /\ t \in Seq(Region) /\ Len(t) = Len(l) /\ Ordered(t)
        /\ t[i] = e /\ \A j \in 1 .. Len(l) : j # i => t[j] = l[j]
        /\ \A c : Clear(c, l) /\ Apart(c, e) => Clear(c, t)
    BY <1>1, <1>2, <2>1, <2>2, <2>3, ReplaceEntry
  <2> HIDE DEF t
  <2>8. Clear(b, t)
    BY <1>4, <2>4, <2>7 DEF Clear
  <2>9. Sound([m EXCEPT !.free = t]) /\ [m EXCEPT !.free = t].free = t
    BY <1>1, <2>7, SetFree
  <2>10. QED
    BY <1>3, <1>5, <2>5, <2>6, <2>7, <2>8, <2>9
<1>8. QED
  BY <1>6, <1>7

\* The search of memman_free stops between the entries up to addr and those above.
LEMMA PlaceProperties ==
    ASSUME NEW m, m.free \in Seq(Region), Ordered(m.free), NEW addr \in Nat
    PROVE  LET i == Place(m, addr)
           IN  /\ i \in 1 .. Len(m.free) + 1
               /\ \A j \in 1 .. Len(m.free) : j < i => m.free[j].addr <= addr
               /\ \A j \in 1 .. Len(m.free) : j >= i => m.free[j].addr > addr
<1> DEFINE l == m.free
           above == {j \in DOMAIN l : l[j].addr > addr}
<1>1. /\ Len(l) \in Nat /\ DOMAIN l = 1 .. Len(l)
      /\ \A j \in 1 .. Len(l) : l[j].addr \in Nat /\ l[j].size \in Nat
  BY Entries
<1>2. Place(m, addr) = IF above = {} THEN Len(l) + 1 ELSE Min(above)
  BY DEF Place
<1>3. CASE above = {}
  BY <1>1, <1>2, <1>3
<1>4. CASE above # {}
  <2>1. above \subseteq Nat
    BY <1>1
  <2> DEFINE i == Min(above)
  <2>2. i \in above /\ \A y \in above : i <= y
    BY <1>4, <2>1, MinOfNats
  <2> HIDE DEF i
  <2>3. i \in 1 .. Len(l) /\ l[i].addr > addr
    BY <1>1, <2>2
  <2>4. ASSUME NEW j \in 1 .. Len(l), j < i PROVE l[j].addr <= addr
    <3>1. j \notin above
      BY <2>2, <2>3, <2>4
    <3>2. QED
      BY <1>1, <3>1
  <2>5. ASSUME NEW j \in 1 .. Len(l), j >= i PROVE l[j].addr > addr
    <3>1. j # i => l[i].addr + l[i].size < l[j].addr
      BY <2>3, <2>5 DEF Ordered
    <3>2. QED
      BY <1>1, <2>3, <2>5, <3>1
  <2>6. Place(m, addr) = i
    BY <1>2, <1>4 DEF i
  <2>7. QED
    BY <1>1, <2>3, <2>4, <2>5, <2>6
<1>5. QED
  BY <1>3, <1>4

-----------------------------------------------------------------------------
(* Allocating and freeing at once.                                          *)

\* A list with room behind it in struct MEMMAN: maxfrees has counted its entries.
Counted(m) == Sound(m) /\ Len(m.free) <= m.maxfrees

\* The place of a block whose left neighbours begin below it and whose right
\* neighbours begin above it.
LEMMA PlaceFound ==
    ASSUME NEW m, m.free \in Seq(Region), Ordered(m.free), NEW addr \in Nat,
           NEW i \in 1 .. Len(m.free) + 1,
           \A j \in 1 .. Len(m.free) : j < i => m.free[j].addr <= addr,
           \A j \in 1 .. Len(m.free) : j >= i => m.free[j].addr > addr
    PROVE  Place(m, addr) = i
<1>1. PICK n \in Nat : n = Len(m.free)
  BY LenProperties
<1>2. PICK k \in 1 .. n + 1 : k = Place(m, addr)
  BY <1>1, PlaceProperties
<1>3. /\ \A j \in 1 .. n : j < k => m.free[j].addr <= addr
      /\ \A j \in 1 .. n : j >= k => m.free[j].addr > addr
  BY <1>1, <1>2, PlaceProperties
<1>4. \A j \in 1 .. n : m.free[j].addr \in Nat
  BY <1>1, Entries
<1>5. ~ (k < i)
  <2>1. SUFFICES ASSUME k < i PROVE FALSE
    OBVIOUS
  <2>2. k \in 1 .. n
    BY <1>1, <2>1
  <2>3. m.free[k].addr <= addr /\ m.free[k].addr > addr /\ m.free[k].addr \in Nat
    BY <1>1, <1>3, <1>4, <2>1, <2>2
  <2>4. QED
    BY <2>3
<1>6. ~ (i < k)
  <2>1. SUFFICES ASSUME i < k PROVE FALSE
    OBVIOUS
  <2>2. i \in 1 .. n
    BY <1>1, <2>1
  <2>3. m.free[i].addr <= addr /\ m.free[i].addr > addr /\ m.free[i].addr \in Nat
    BY <1>1, <1>3, <1>4, <2>1, <2>2
  <2>4. QED
    BY <2>3
<1>7. i \in 1 .. n + 1
  BY <1>1
<1>8. QED
  BY <1>2, <1>5, <1>6, <1>7

\* An entry that is used up leaves the list, and comes back to where it was.
LEMMA FreeUndoesRemove ==
    ASSUME NEW m, Counted(m), NEW i \in 1 .. Len(m.free)
    PROVE  memman_free([m EXCEPT !.free = RemoveAt(m.free, i)],
                       m.free[i].addr, m.free[i].size) = m
<1> DEFINE l == m.free
           e == l[i]
           t == RemoveAt(l, i)
           o == [m EXCEPT !.free = t]
<1>1. /\ m \in ManType /\ l \in Seq(Region) /\ Len(l) <= Frees /\ Ordered(l)
      /\ Len(l) <= m.maxfrees
  BY DEF Counted, Sound, ManType
<1>2. PICK n \in Nat : n = Len(l)
  BY <1>1, LenProperties
<1>3. \A j \in 1 .. n : l[j] \in Region /\ l[j].addr \in Nat /\ l[j].size \in Nat
  BY <1>1, <1>2, Entries
<1>4. e \in Region /\ e.addr \in Nat /\ e.size \in Nat
  BY <1>2, <1>3
<1>5. /\ t \in Seq(Region) /\ Len(t) = n - 1 /\ Ordered(t)
      /\ \A j \in 1 .. n - 1 : t[j] = IF j < i THEN l[j] ELSE l[j + 1]
  BY <1>1, <1>2, RemoveAtProperties, RemoveEntry
<1>6. \A j \in 1 .. n : j < i => l[j].addr + l[j].size < e.addr
  BY <1>1, <1>2 DEF Ordered
<1>7. \A j \in 1 .. n : j > i => e.addr + e.size < l[j].addr
  BY <1>1, <1>2 DEF Ordered
<1> HIDE DEF e, t
<1>8. \A j \in 1 .. n - 1 : j < i => t[j].addr + t[j].size < e.addr
  <2>1. TAKE j \in 1 .. n - 1
  <2>2. j \in 1 .. n
    BY <1>2
  <2>3. QED
    BY <1>5, <1>6, <2>2
<1>9. \A j \in 1 .. n - 1 : j >= i => e.addr + e.size < t[j].addr
  <2>1. TAKE j \in 1 .. n - 1
  <2>2. j + 1 \in 1 .. n
    BY <1>2
  <2>3. QED
    BY <1>2, <1>5, <1>7, <2>2
<1>10. o.free = t /\ o.maxfrees = m.maxfrees
  BY <1>1 DEF ManType
<1>11. \A j \in 1 .. n - 1 : t[j].addr \in Nat /\ t[j].size \in Nat
  BY <1>5, Entries
<1>12. Place(o, e.addr) = i
  <2>1. i \in 1 .. Len(o.free) + 1
    BY <1>2, <1>5, <1>10
  <2>2. \A j \in 1 .. Len(o.free) : j < i => o.free[j].addr <= e.addr
    BY <1>2, <1>4, <1>5, <1>8, <1>10, <1>11
  <2>3. \A j \in 1 .. Len(o.free) : j >= i => o.free[j].addr > e.addr
    BY <1>2, <1>4, <1>5, <1>9, <1>10, <1>11
  <2>4. QED
    BY <1>4, <1>5, <1>10, <2>1, <2>2, <2>3, PlaceFound
<1>13. ~ JoinsPrevious(o, i, e.addr)
  <2>1. SUFFICES ASSUME i > 1 PROVE o.free[i - 1].addr + o.free[i - 1].size # e.addr
    BY DEF JoinsPrevious
  <2>2. PICK j \in 1 .. n - 1 : j = i - 1
    BY <1>2, <2>1
  <2>3. j < i /\ t[j].addr + t[j].size < e.addr
    BY <1>2, <1>8, <2>2
  <2>4. t[j].addr \in Nat /\ t[j].size \in Nat
    BY <1>11
  <2>5. t[j].addr + t[j].size # e.addr
    BY <1>4, <2>3, <2>4
  <2>6. QED
    BY <1>10, <2>2, <2>5
<1>14. ~ JoinsNext(o, i, e.addr, e.size)
  <2>1. SUFFICES ASSUME i <= n - 1 PROVE e.addr + e.size # o.free[i].addr
    BY <1>5, <1>10 DEF JoinsNext
  <2>2. i \in 1 .. n - 1
    BY <1>2, <2>1
  <2>3. e.addr + e.size < t[i].addr /\ t[i].addr \in Nat
    BY <1>2, <1>9, <1>11, <2>2
  <2>4. e.addr + e.size # t[i].addr
    BY <1>4, <2>3
  <2>5. QED
    BY <1>10, <2>4
<1>15. HasRoom(o)
  BY <1>1, <1>2, <1>5, <1>10 DEF HasRoom
<1>16. memman_free(o, e.addr, e.size) = Insert(o, i, e.addr, e.size)
  BY <1>12, <1>13, <1>14, <1>15 DEF memman_free
<1>17. InsertAt(t, i, e) = l
  <2>1. i \in 1 .. Len(t) + 1
    BY <1>2, <1>5
  <2>2. /\ InsertAt(t, i, e) \in Seq(Region)
        /\ Len(InsertAt(t, i, e)) = n
        /\ \A j \in 1 .. n :
               InsertAt(t, i, e)[j] = IF j < i THEN t[j] ELSE IF j = i THEN e ELSE t[j - 1]
    BY <1>2, <1>4, <1>5, <2>1, InsertAtProperties
  <2>3. ASSUME NEW j \in 1 .. n PROVE InsertAt(t, i, e)[j] = l[j]
    <3>1. CASE j < i
      <4>1. j \in 1 .. n - 1
        BY <1>2, <3>1
      <4>2. QED
        BY <1>5, <2>2, <3>1, <4>1
    <3>2. CASE j = i
      BY <2>2, <3>2 DEF e
    <3>3. CASE j > i
      <4>1. PICK k \in 1 .. n - 1 : k = j - 1
        BY <1>2, <3>3
      <4>2. t[k] = l[k + 1] /\ k + 1 = j
        BY <1>2, <1>5, <3>3, <4>1
      <4>3. QED
        BY <2>2, <3>3, <4>1, <4>2
    <3>4. QED
      BY <3>1, <3>2, <3>3
  <2>4. QED
    BY <1>1, <1>2, <2>2, <2>3, SeqEqual
<1>18. Max({m.maxfrees, n}) = m.maxfrees
  BY <1>1, <1>2 DEF Max, ManType
<1>19. Insert(o, i, e.addr, e.size) = m
  <2>1. [addr |-> e.addr, size |-> e.size] = e
    BY <1>4 DEF Region
  <2>2. Len(t) + 1 = n
    BY <1>2, <1>5
  <2>3. Insert(o, i, e.addr, e.size) = [o EXCEPT !.free = l, !.maxfrees = m.maxfrees]
    BY <1>10, <1>17, <1>18, <2>1, <2>2 DEF Insert
  <2>4. QED
    BY <1>1, <2>3 DEF ManType
<1>20. QED
  BY <1>16, <1>19 DEF e, t

\* What is taken from the front of a larger entry joins it again.
LEMMA FreeUndoesShrink ==
    ASSUME NEW m, Counted(m), NEW i \in 1 .. Len(m.free), NEW size \in Nat, size > 0,
           m.free[i].size > size
    PROVE  memman_free([m EXCEPT !.free[i] = [addr |-> m.free[i].addr + size,
                                              size |-> m.free[i].size - size]],
                       m.free[i].addr, size) = m
<1> DEFINE l == m.free
           e == l[i]
           f == [addr |-> e.addr + size, size |-> e.size - size]
           t == [l EXCEPT ![i] = f]
           o == [m EXCEPT !.free = t]
<1>1. /\ m \in ManType /\ l \in Seq(Region) /\ Len(l) <= Frees /\ Ordered(l)
  BY DEF Counted, Sound, ManType
<1>2. PICK n \in Nat : n = Len(l)
  BY <1>1, LenProperties
<1>3. \A j \in 1 .. n : l[j] \in Region /\ l[j].addr \in Nat /\ l[j].size \in Nat
  BY <1>1, <1>2, Entries
<1>4. e \in Region /\ e.addr \in Nat /\ e.size \in Nat /\ e.size > size
  BY <1>2, <1>3
<1>5. \A j \in 1 .. n : j < i => l[j].addr + l[j].size < e.addr
  BY <1>1, <1>2 DEF Ordered
<1>6. \A j \in 1 .. n : j > i => e.addr + e.size < l[j].addr
  BY <1>1, <1>2 DEF Ordered
<1> HIDE DEF e
<1>7. f \in Region /\ f.addr = e.addr + size /\ f.size = e.size - size /\ f.size > 0
  BY <1>4, RegionMade
<1>8. /\ \A j \in 1 .. Len(l) : j < i => l[j].addr + l[j].size < f.addr
      /\ \A j \in 1 .. Len(l) : j > i => f.addr + f.size < l[j].addr
  <2>1. \A j \in 1 .. n : j < i => l[j].addr + l[j].size < f.addr
    BY <1>3, <1>4, <1>5, <1>7
  <2>2. f.addr + f.size = e.addr + e.size
    BY <1>4, <1>7
  <2>3. QED
    BY <1>2, <1>6, <2>1, <2>2
<1> HIDE DEF f
<1>9. /\ t \in Seq(Region) /\ Len(t) = n /\ Ordered(t)
      /\ t[i] = f /\ \A j \in 1 .. n : j # i => t[j] = l[j]
  <2>1. /\ t \in Seq(Region) /\ Len(t) = Len(l) /\ Ordered(t)
        /\ t[i] = f /\ \A j \in 1 .. Len(l) : j # i => t[j] = l[j]
        /\ \A c : Clear(c, l) /\ Apart(c, f) => Clear(c, t)
    <3>1. i \in 1 .. Len(l) /\ f.size > 0 /\ f \in Region /\ l \in Seq(Region) /\ Ordered(l)
      BY <1>1, <1>7
    <3>2. QED
      BY <1>8, <3>1, ReplaceEntry
  <2>2. QED
    BY <1>2, <2>1
<1> HIDE DEF t
<1>10. o.free = t
  BY <1>1 DEF ManType
<1>11. Place(o, e.addr) = i
  <2>1. i \in 1 .. Len(o.free) + 1
    BY <1>2, <1>9, <1>10
  <2>2. ASSUME NEW j \in 1 .. n, j < i PROVE t[j].addr <= e.addr
    <3>1. t[j] = l[j] /\ l[j].addr \in Nat /\ l[j].size \in Nat
      BY <1>3, <1>9, <2>2
    <3>2. QED
      BY <1>4, <1>5, <2>2, <3>1
  <2>3. ASSUME NEW j \in 1 .. n, j >= i PROVE t[j].addr > e.addr
    <3>1. CASE j = i
      BY <1>4, <1>7, <1>9, <3>1
    <3>2. CASE j # i
      <4>1. t[j] = l[j] /\ l[j].addr \in Nat /\ e.addr + e.size < l[j].addr
        BY <1>2, <1>3, <1>6, <1>9, <2>3, <3>2
      <4>2. QED
        BY <1>4, <4>1
    <3>3. QED
      BY <3>1, <3>2
  <2>4. QED
    BY <1>4, <1>9, <1>10, <2>1, <2>2, <2>3, PlaceFound
<1>12. ~ JoinsPrevious(o, i, e.addr)
  <2>1. SUFFICES ASSUME i > 1 PROVE o.free[i - 1].addr + o.free[i - 1].size # e.addr
    BY DEF JoinsPrevious
  <2>2. PICK j \in 1 .. n : j = i - 1 /\ j < i
    BY <1>2, <2>1
  <2>3. t[j] = l[j] /\ l[j].addr + l[j].size < e.addr
    BY <1>5, <1>9, <2>2
  <2>4. QED
    BY <1>3, <1>4, <1>10, <2>2, <2>3
<1>13. JoinsNext(o, i, e.addr, size)
  BY <1>2, <1>7, <1>9, <1>10 DEF JoinsNext
<1>14. memman_free(o, e.addr, size) = JoinNext(o, i, e.addr, size)
  BY <1>11, <1>12, <1>13 DEF memman_free
<1>15. [t EXCEPT ![i] = e] = l
  <2>1. /\ [t EXCEPT ![i] = e] \in Seq(Region) /\ Len([t EXCEPT ![i] = e]) = n
        /\ \A j \in 1 .. n : [t EXCEPT ![i] = e][j] = IF j = i THEN e ELSE t[j]
    BY <1>2, <1>4, <1>9
  <2>2. \A j \in 1 .. n : [t EXCEPT ![i] = e][j] = l[j]
    BY <1>9, <2>1 DEF e
  <2>3. QED
    BY <1>1, <1>2, <2>1, <2>2, SeqEqual
<1>16. JoinNext(o, i, e.addr, size) = m
  <2>1. [addr |-> e.addr, size |-> t[i].size + size] = e
    <3>1. t[i].size + size = e.size
      BY <1>4, <1>7, <1>9
    <3>2. QED
      BY <1>4, <3>1 DEF Region
  <2>2. JoinNext(o, i, e.addr, size)
            = [o EXCEPT !.free = [t EXCEPT ![i] = [addr |-> e.addr, size |-> t[i].size + size]]]
    BY <1>1, <1>10 DEF JoinNext, ManType
  <2>3. JoinNext(o, i, e.addr, size) = [o EXCEPT !.free = l]
    BY <1>15, <2>1, <2>2
  <2>4. QED
    BY <1>1, <2>3 DEF ManType
<1>17. o = [m EXCEPT !.free[i] = [addr |-> e.addr + size, size |-> e.size - size]]
  BY <1>1 DEF ManType, t, f
<1>18. QED
  BY <1>14, <1>16, <1>17 DEF e

\* What memman_alloc did, memman_free of the same block undoes, the order of the
\* list and its merges included; and the list stays sound meanwhile.
LEMMA FreeUndoesAlloc ==
    ASSUME NEW m, Counted(m), NEW size \in Nat, size > 0, Fits(m, size) # {}
    PROVE  /\ memman_free(memman_alloc(m, size), AllocReturns(m, size), size) = m
           /\ Counted(memman_alloc(m, size))
<1>1. /\ m \in ManType /\ m.free \in Seq(Region) /\ Len(m.free) <= m.maxfrees
      /\ Len(m.free) \in Nat /\ DOMAIN m.free = 1 .. Len(m.free) /\ Sound(m)
  BY LenProperties DEF Counted, Sound, ManType
<1>2. \A j \in 1 .. Len(m.free) : m.free[j].addr \in Nat /\ m.free[j].size \in Nat
  BY <1>1, Entries
<1>3. Fits(m, size) \subseteq Nat
  BY <1>1 DEF Fits
<1>4. PICK i \in Fits(m, size) : i = Min(Fits(m, size))
  BY <1>3, MinOfNats
<1>5. i \in 1 .. Len(m.free) /\ m.free[i].size >= size
  BY <1>1 DEF Fits
<1>6. memman_alloc(m, size) = Take(m, i, size) /\ AllocReturns(m, size) = m.free[i].addr
  BY <1>4 DEF memman_alloc, AllocReturns
<1>7. memman_free(Take(m, i, size), m.free[i].addr, size) = m
  <2>1. CASE m.free[i].size = size
    <3>1. Take(m, i, size) = [m EXCEPT !.free = RemoveAt(m.free, i)]
      BY <2>1 DEF Take
    <3>2. QED
      BY <1>5, <2>1, <3>1, FreeUndoesRemove
  <2>2. CASE m.free[i].size # size
    <3>1. Take(m, i, size) = [m EXCEPT !.free[i] = [addr |-> m.free[i].addr + size,
                                                    size |-> m.free[i].size - size]]
      BY <1>1, <1>5, <2>2 DEF Take, ManType
    <3>2. m.free[i].size > size
      BY <1>2, <1>5, <2>2
    <3>3. QED
      BY <1>5, <3>1, <3>2, FreeUndoesShrink
  <2>3. QED
    BY <2>1, <2>2
<1>8. Sound(Take(m, i, size))
  BY <1>1, TakeKeepsSound
<1>9. Take(m, i, size).maxfrees = m.maxfrees /\ Len(Take(m, i, size).free) <= Len(m.free)
  <2>1. CASE m.free[i].size = size
    <3>1. Take(m, i, size) = [m EXCEPT !.free = RemoveAt(m.free, i)]
      BY <2>1 DEF Take
    <3>2. Len(RemoveAt(m.free, i)) = Len(m.free) - 1
      BY <1>1, <1>5, RemoveAtProperties
    <3>3. QED
      BY <1>1, <3>1, <3>2 DEF ManType
  <2>2. CASE m.free[i].size # size
    <3>1. Take(m, i, size)
              = [m EXCEPT !.free = [m.free EXCEPT ![i] = [addr |-> m.free[i].addr + size,
                                                          size |-> m.free[i].size - size]]]
      BY <1>1, <1>5, <2>2 DEF Take, ManType
    <3>2. QED
      BY <1>1, <3>1 DEF ManType
  <2>3. QED
    BY <2>1, <2>2
<1>10. Counted(Take(m, i, size))
  <2>1. Len(Take(m, i, size).free) \in Nat
    BY <1>8, LenProperties DEF Sound, ManType
  <2>2. m.maxfrees \in Nat
    BY <1>1 DEF ManType
  <2>3. QED
    BY <1>1, <1>8, <1>9, <2>1, <2>2 DEF Counted
<1>11. QED
  BY <1>6, <1>7, <1>10

-----------------------------------------------------------------------------
USE PageAssumption, FreesAssumption, RegionsAssumption, SizesAssumption

NoEmptyRequests == 0 \notin Sizes

-----------------------------------------------------------------------------
\* A block that lies apart from the list lies between the entries around its place.
LEMMA Gap ==
    ASSUME NEW l \in Seq(Region), Ordered(l),
           NEW b \in Region, b.size > 0, Clear(b, l),
           NEW i \in 1 .. Len(l) + 1,
           \A j \in 1 .. Len(l) : j < i => l[j].addr <= b.addr,
           \A j \in 1 .. Len(l) : j >= i => l[j].addr > b.addr
    PROVE  /\ \A j \in 1 .. Len(l) : j < i => l[j].addr + l[j].size <= b.addr
           /\ \A j \in 1 .. Len(l) : j >= i => b.addr + b.size <= l[j].addr
<1>1. /\ b.addr \in Nat /\ b.size \in Nat
      /\ \A j \in 1 .. Len(l) : l[j].addr \in Nat /\ l[j].size \in Nat
  BY Entries DEF Region
<1>2. ASSUME NEW j \in 1 .. Len(l)
      PROVE  /\ l[j].size > 0
             /\ b.addr + b.size <= l[j].addr \/ l[j].addr + l[j].size <= b.addr
  BY DEF Ordered, Clear, Apart
<1>3. ASSUME NEW j \in 1 .. Len(l), j < i
      PROVE  l[j].addr + l[j].size <= b.addr
  <2>1. l[j].addr <= b.addr
    BY <1>3
  <2>2. QED
    BY <1>1, <1>2, <2>1
<1>4. ASSUME NEW j \in 1 .. Len(l), j >= i
      PROVE  b.addr + b.size <= l[j].addr
  <2>1. l[j].addr > b.addr
    BY <1>4
  <2>2. QED
    BY <1>1, <1>2, <2>1
<1>5. QED
  BY <1>3, <1>4

\* What lies before the place ends strictly before the block, except that the
\* nearest entry may touch it; and likewise what lies behind.
LEMMA Before ==
    ASSUME NEW l \in Seq(Region), Ordered(l), NEW addr \in Nat,
           NEW k \in 0 .. Len(l),
           \A j \in 1 .. Len(l) : j <= k => l[j].addr + l[j].size <= addr
    PROVE  /\ \A j \in 1 .. Len(l) : j < k => l[j].addr + l[j].size < addr
           /\ ~ (k > 0 /\ l[k].addr + l[k].size = addr) =>
                  \A j \in 1 .. Len(l) : j <= k => l[j].addr + l[j].size < addr
<1>1. /\ Len(l) \in Nat
      /\ \A j \in 1 .. Len(l) : l[j].addr \in Nat /\ l[j].size \in Nat
  BY Entries
<1>2. ASSUME NEW j \in 1 .. Len(l), j < k
      PROVE  l[j].addr + l[j].size < addr
  <2>1. k \in 1 .. Len(l)
    BY <1>1, <1>2
  <2>2. l[j].addr + l[j].size < l[k].addr
    BY <1>2, <2>1 DEF Ordered
  <2>3. l[k].addr + l[k].size <= addr
    BY <2>1
  <2>4. QED
    BY <1>1, <2>1, <2>2, <2>3
<1>3. ASSUME ~ (k > 0 /\ l[k].addr + l[k].size = addr),
             NEW j \in 1 .. Len(l), j <= k
      PROVE  l[j].addr + l[j].size < addr
  <2>1. CASE j = k
    <3>1. l[j].addr + l[j].size <= addr
      BY <1>3
    <3>2. l[j].addr + l[j].size # addr
      BY <1>1, <1>3, <2>1
    <3>3. l[j].addr + l[j].size \in Nat
      BY <1>1
    <3>4. QED
      BY <3>1, <3>2, <3>3
  <2>2. CASE j < k
    BY <1>2, <2>2
  <2>3. QED
    BY <1>1, <1>3, <2>1, <2>2
<1>4. QED
  BY <1>2, <1>3

\* A block that ends before entry i ends before all that follow, apart from it.
LEMMA Behind ==
    ASSUME NEW l \in Seq(Region), Ordered(l), NEW end \in Nat,
           NEW i \in 1 .. Len(l) + 1,
           \A j \in 1 .. Len(l) : j >= i => end <= l[j].addr
    PROVE  /\ \A j \in 1 .. Len(l) : j > i => end < l[j].addr
           /\ ~ (i <= Len(l) /\ end = l[i].addr) =>
                  \A j \in 1 .. Len(l) : j >= i => end < l[j].addr
<1>1. /\ Len(l) \in Nat
      /\ \A j \in 1 .. Len(l) : l[j].addr \in Nat /\ l[j].size \in Nat
  BY Entries
<1>2. ASSUME NEW j \in 1 .. Len(l), j > i
      PROVE  end < l[j].addr
  <2>1. i \in 1 .. Len(l)
    BY <1>1, <1>2
  <2>2. l[i].addr + l[i].size < l[j].addr
    BY <1>2, <2>1 DEF Ordered
  <2>3. end <= l[i].addr
    BY <2>1
  <2>4. QED
    BY <1>1, <2>1, <2>2, <2>3
<1>3. ASSUME ~ (i <= Len(l) /\ end = l[i].addr),
             NEW j \in 1 .. Len(l), j >= i
      PROVE  end < l[j].addr
  <2>1. CASE j = i
    BY <1>1, <1>3, <2>1
  <2>2. CASE j > i
    BY <1>2, <2>2
  <2>3. QED
    BY <1>1, <1>3, <2>1, <2>2
<1>4. QED
  BY <1>2, <1>3

\* An entry grows by the block that touches it.
LEMMA GrowEntry ==
    ASSUME NEW l \in Seq(Region), Ordered(l), NEW b \in Region, b.size > 0,
           NEW k \in 1 .. Len(l), NEW e \in Region, e.size = l[k].size + b.size,
           \/ e.addr = l[k].addr /\ l[k].addr + l[k].size = b.addr
           \/ e.addr = b.addr /\ b.addr + b.size = l[k].addr,
           \A j \in 1 .. Len(l) : j < k => l[j].addr + l[j].size < b.addr,
           \A j \in 1 .. Len(l) : j > k => b.addr + b.size < l[j].addr
    PROVE  LET t == [l EXCEPT ![k] = e]
           IN  /\ t \in Seq(Region) /\ Len(t) = Len(l) /\ Ordered(t)
               /\ \A c \in Region :
                      c.size > 0 /\ Clear(c, l) /\ Apart(c, b) => Clear(c, t)
<1>1. /\ Len(l) \in Nat
      /\ b.addr \in Nat /\ b.size \in Nat /\ e.addr \in Nat /\ e.size \in Nat
      /\ \A j \in 1 .. Len(l) : l[j].addr \in Nat /\ l[j].size \in Nat
  BY Entries DEF Region
<1>2. e.size > 0
  BY <1>1
<1>3. ASSUME NEW j \in 1 .. Len(l), j < k
      PROVE  l[j].addr + l[j].size < e.addr
  <2>1. l[j].addr + l[j].size < l[k].addr
    BY <1>3 DEF Ordered
  <2>2. l[j].addr + l[j].size < b.addr
    BY <1>3
  <2>3. QED
    BY <2>1, <2>2
<1>4. ASSUME NEW j \in 1 .. Len(l), j > k
      PROVE  e.addr + e.size < l[j].addr
  <2>1. l[k].addr + l[k].size < l[j].addr
    BY <1>4 DEF Ordered
  <2>2. b.addr + b.size < l[j].addr
    BY <1>4
  <2>3. QED
    BY <1>1, <2>1, <2>2
<1>5. ASSUME NEW c \in Region, c.size > 0, Clear(c, l), Apart(c, b)
      PROVE  Apart(c, e)
  <2>1. Apart(c, l[k]) /\ c.addr \in Nat /\ c.size \in Nat
    BY <1>5 DEF Clear, Region
  <2>2. QED
    BY <1>1, <1>5, <2>1, SMTT(30) DEF Apart
<1>6. LET t == [l EXCEPT ![k] = e]
      IN  /\ t \in Seq(Region) /\ Len(t) = Len(l) /\ Ordered(t)
          /\ \A c : Clear(c, l) /\ Apart(c, e) => Clear(c, t)
  BY <1>2, <1>3, <1>4, ReplaceEntry
<1>7. QED
  BY <1>5, <1>6

\* The block closes the gap between two entries: they become one.
LEMMA BridgeEntries ==
    ASSUME NEW l \in Seq(Region), Ordered(l), NEW b \in Region, b.size > 0,
           NEW k \in 1 .. Len(l), NEW i \in 1 .. Len(l), i = k + 1, NEW e \in Region,
           e.addr = l[k].addr, e.size = l[k].size + b.size + l[i].size,
           l[k].addr + l[k].size = b.addr, b.addr + b.size = l[i].addr
    PROVE  LET t == RemoveAt([l EXCEPT ![k] = e], i)
           IN  /\ t \in Seq(Region) /\ Len(t) = Len(l) - 1 /\ Ordered(t)
               /\ \A c \in Region :
                      c.size > 0 /\ Clear(c, l) /\ Apart(c, b) => Clear(c, t)
<1> DEFINE r == RemoveAt(l, i)
           d == [addr |-> b.addr, size |-> b.size + l[i].size]
           u == [l EXCEPT ![k] = e]
           v == [r EXCEPT ![k] = e]
           t == RemoveAt(u, i)
<1>1. /\ Len(l) \in Nat
      /\ b.addr \in Nat /\ b.size \in Nat
      /\ \A j \in 1 .. Len(l) :
             l[j] \in Region /\ l[j].addr \in Nat /\ l[j].size \in Nat
  BY Entries DEF Region
<1>2. /\ r \in Seq(Region) /\ Len(r) = Len(l) - 1 /\ Ordered(r)
      /\ \A c : (\A j \in 1 .. Len(l) : j # i => Apart(c, l[j])) => Clear(c, r)
  BY <1>1, RemoveEntry
<1>3. \A j \in 1 .. Len(l) - 1 : r[j] = IF j < i THEN l[j] ELSE l[j + 1]
  BY <1>1, RemoveAtProperties
<1>4. /\ u \in Seq(Region) /\ Len(u) = Len(l)
      /\ \A j \in 1 .. Len(l) : u[j] = IF j = k THEN e ELSE l[j]
  BY <1>1, ExceptSeq, SMTT(30)
<1>5. d \in Region /\ d.size > 0 /\ d.addr = b.addr /\ d.size = b.size + l[i].size
  <2>1. b.addr \in Nat /\ b.size + l[i].size \in Nat /\ b.size + l[i].size > 0
    BY <1>1
  <2>2. QED
    BY <2>1, RegionMade
<1> HIDE DEF r, d, u
<1>6. k \in 1 .. Len(r) /\ r[k] = l[k]
  BY <1>1, <1>2, <1>3
<1>7. ASSUME NEW j \in 1 .. Len(r), j < k
      PROVE  r[j].addr + r[j].size < d.addr
  <2>1. j \in 1 .. Len(l) /\ r[j] = l[j]
    BY <1>1, <1>2, <1>3, <1>7
  <2>2. l[j].addr + l[j].size < l[k].addr
    BY <1>1, <1>7, <2>1 DEF Ordered
  <2>3. /\ l[k].addr \in Nat /\ l[j].addr + l[j].size \in Nat
        /\ b.addr \in Nat /\ l[k].addr <= b.addr
    <3>1. l[k].addr \in Nat /\ l[k].size \in Nat /\ l[j].addr \in Nat /\ l[j].size \in Nat
      BY <1>1, <2>1
    <3>2. b.addr \in Nat /\ l[k].addr + l[k].size = b.addr
      BY <1>1
    <3>3. QED
      BY <3>1, <3>2, SMTT(30)
  <2>4. QED
    BY <1>5, <2>1, <2>2, <2>3
<1>8. ASSUME NEW j \in 1 .. Len(r), j > k
      PROVE  d.addr + d.size < r[j].addr
  <2>1. j + 1 \in 1 .. Len(l) /\ r[j] = l[j + 1] /\ i < j + 1
    BY <1>1, <1>2, <1>3, <1>8
  <2>2. l[i].addr + l[i].size < l[j + 1].addr
    BY <1>1, <2>1 DEF Ordered
  <2>3. QED
    BY <1>1, <1>5, <2>1, <2>2, SMTT(30)
<1>9. /\ v \in Seq(Region) /\ Len(v) = Len(r) /\ Ordered(v)
      /\ \A c \in Region : c.size > 0 /\ Clear(c, r) /\ Apart(c, d) => Clear(c, v)
  <2>1. /\ e.size = r[k].size + d.size
        /\ e.addr = r[k].addr /\ r[k].addr + r[k].size = d.addr
    BY <1>1, <1>5, <1>6
  <2>2. QED
    BY <1>2, <1>5, <1>6, <1>7, <1>8, <2>1, GrowEntry
<1>10. \A j \in 1 .. Len(r) : v[j] = IF j = k THEN e ELSE r[j]
  BY <1>2, <1>6, ExceptSeq
<1>11. /\ t \in Seq(Region) /\ Len(t) = Len(u) - 1
       /\ \A j \in 1 .. Len(u) - 1 : t[j] = IF j < i THEN u[j] ELSE u[j + 1]
  BY <1>1, <1>4, RemoveAtProperties
<1> HIDE DEF v, t
<1>12. t = v
  <2>1. ASSUME NEW j \in 1 .. Len(t) PROVE t[j] = v[j]
    <3>1. CASE j < i
      BY <1>1, <1>2, <1>3, <1>4, <1>10, <1>11, <3>1, SMTT(30)
    <3>2. CASE j >= i
      BY <1>1, <1>2, <1>3, <1>4, <1>10, <1>11, <3>2
    <3>3. QED
      BY <1>1, <1>4, <1>11, <3>1, <3>2
  <2>2. Len(t) = Len(v)
    BY <1>2, <1>4, <1>9, <1>11
  <2>3. QED
    BY <1>9, <1>11, <2>1, <2>2, SeqEqual
<1>13. ASSUME NEW c \in Region, c.size > 0, Clear(c, l), Apart(c, b)
       PROVE  Clear(c, v)
  <2>1. Clear(c, r)
    BY <1>2, <1>13 DEF Clear
  <2>2. Apart(c, l[i]) /\ c.addr \in Nat /\ c.size \in Nat
    BY <1>1, <1>13 DEF Clear, Region
  <2>3. Apart(c, d)
    BY <1>1, <1>5, <1>13, <2>2, SMTT(30) DEF Apart
  <2>4. QED
    BY <1>9, <1>13, <2>1, <2>3
<1>14. QED
  BY <1>2, <1>9, <1>12, <1>13 DEF t, u

\* Setting the size of an entry.
LEMMA SizeSet ==
    ASSUME NEW l \in Seq(Region), NEW k \in 1 .. Len(l), NEW n \in Nat
    PROVE  [l EXCEPT ![k].size = n] = [l EXCEPT ![k] = [addr |-> l[k].addr, size |-> n]]
<1>1. l[k] \in Region
  BY Entries
<1>2. ASSUME NEW r \in Region
      PROVE  [r EXCEPT !.size = n] = [addr |-> r.addr, size |-> n]
  <2> DEFINE p == [r EXCEPT !.size = n]
  <2>1. p \in Region /\ p.addr = r.addr /\ p.size = n
    BY DEF Region
  <2> HIDE DEF p
  <2>2. p = [addr |-> p.addr, size |-> p.size]
    BY <2>1 DEF Region
  <2>3. QED
    BY <2>1, <2>2 DEF p
<1>3. [l[k] EXCEPT !.size = n] = [addr |-> l[k].addr, size |-> n]
  BY <1>1, <1>2
<1>4. QED
  BY <1>3

-----------------------------------------------------------------------------
(* The addresses of a list, and what memman_free adds to them.              *)

Holds(x, r) == r.addr <= x /\ x < r.addr + r.size
On(x, list) == \E i \in 1 .. Len(list) : Holds(x, list[i])

\* Three regions, each behind the one before it, make one.
LEMMA ThreeInOne ==
    ASSUME NEW r \in Region, NEW b \in Region, NEW s \in Region, NEW e \in Region,
           r.addr + r.size = b.addr, b.addr + b.size = s.addr,
           e.addr = r.addr, e.size = r.size + b.size + s.size
    PROVE  \A x \in Nat : Holds(x, r) \/ Holds(x, b) \/ Holds(x, s) => Holds(x, e)
<1>1. PICK n1 \in Nat, n2 \in Nat, n3 \in Nat : n1 = r.size /\ n2 = b.size /\ n3 = s.size
  BY DEF Region
<1>2. PICK a \in Nat : a = r.addr
  BY DEF Region
<1>3. /\ r.addr = a /\ b.addr = a + n1 /\ s.addr = a + n1 + n2
      /\ e.addr = a /\ e.size = n1 + n2 + n3
  BY <1>1, <1>2
<1>4. \A x \in Nat :
          ( \/ a <= x /\ x < a + n1
            \/ a + n1 <= x /\ x < a + n1 + n2
            \/ a + n1 + n2 <= x /\ x < a + n1 + n2 + n3 )
          => a <= x /\ x < a + (n1 + n2 + n3)
  BY ONLY a \in Nat, n1 \in Nat, n2 \in Nat, n3 \in Nat
<1>5. QED
  BY <1>1, <1>3, <1>4 DEF Holds

\* Nothing leaves the list, and b joins it.
Adds(l, t, b) ==
    /\ \A x \in Nat : On(x, l) => On(x, t)
    /\ \A x \in Nat : Holds(x, b) => On(x, t)
    /\ Len(t) <= Len(l) + 1

\* b joins the list, or the list is full and b is counted as lost.
GivenBack(m, n, b) ==
    \/ n.lostsize = m.lostsize /\ Adds(m.free, n.free, b)
    \/ /\ n.lostsize = m.lostsize + b.size
       /\ n.free = m.free /\ Len(m.free) >= Frees

\* An entry gives way to one that covers it and the block.
LEMMA GrowAdds ==
    ASSUME NEW l \in Seq(Region), NEW k \in 1 .. Len(l), NEW e \in Region, NEW b,
           \A x \in Nat : Holds(x, l[k]) \/ Holds(x, b) => Holds(x, e)
    PROVE  Adds(l, [l EXCEPT ![k] = e], b)
<1> DEFINE t == [l EXCEPT ![k] = e]
<1>1. /\ Len(t) = Len(l) /\ Len(l) \in Nat
      /\ \A j \in 1 .. Len(l) : t[j] = IF j = k THEN e ELSE l[j]
  BY ExceptSeq, Entries
<1> HIDE DEF t
<1>2. ASSUME NEW x \in Nat, On(x, l) PROVE On(x, t)
  <2>1. PICK j \in 1 .. Len(l) : Holds(x, l[j])
    BY <1>2 DEF On
  <2>2. Holds(x, t[j])
    BY <1>1, <2>1
  <2>3. QED
    BY <1>1, <2>2 DEF On
<1>3. ASSUME NEW x \in Nat, Holds(x, b) PROVE On(x, t)
  <2>1. Holds(x, t[k])
    BY <1>1, <1>3
  <2>2. QED
    BY <1>1, <2>1 DEF On
<1>4. Len(t) <= Len(l) + 1
  BY <1>1
<1>5. QED
  BY <1>2, <1>3, <1>4 DEF Adds, t

\* Two entries give way to one that covers them and the block between them.
LEMMA BridgeAdds ==
    ASSUME NEW l \in Seq(Region), NEW k \in 1 .. Len(l), NEW i \in 1 .. Len(l),
           i = k + 1, NEW e \in Region, NEW b,
           \A x \in Nat : Holds(x, l[k]) \/ Holds(x, b) \/ Holds(x, l[i]) => Holds(x, e)
    PROVE  Adds(l, RemoveAt([l EXCEPT ![k] = e], i), b)
<1> DEFINE u == [l EXCEPT ![k] = e]
           t == RemoveAt(u, i)
<1>1. /\ u \in Seq(Region) /\ Len(u) = Len(l) /\ Len(l) \in Nat
      /\ \A j \in 1 .. Len(l) : u[j] = IF j = k THEN e ELSE l[j]
  BY ExceptSeq, Entries
<1> HIDE DEF u
<1>2. /\ Len(t) = Len(l) - 1
      /\ \A j \in 1 .. Len(l) - 1 : t[j] = IF j < i THEN u[j] ELSE u[j + 1]
  BY <1>1, RemoveAtProperties
<1> HIDE DEF t
<1>3. k \in 1 .. Len(t) /\ t[k] = e
  <2>1. k \in 1 .. Len(l) - 1 /\ k < i
    BY <1>1
  <2>2. QED
    BY <1>1, <1>2, <2>1
<1>4. ASSUME NEW x \in Nat, On(x, l) PROVE On(x, t)
  <2>1. PICK j \in 1 .. Len(l) : Holds(x, l[j])
    BY <1>4 DEF On
  <2>2. CASE j = k \/ j = i
    <3>1. Holds(x, t[k])
      BY <1>3, <2>1, <2>2
    <3>2. QED
      BY <1>3, <3>1 DEF On
  <2>3. CASE j < k
    <3>1. j \in 1 .. Len(t) /\ j \in 1 .. Len(l) - 1 /\ j < i /\ j # k
      BY <1>1, <1>2, <2>3
    <3>2. t[j] = l[j]
      BY <1>1, <1>2, <3>1
    <3>3. QED
      BY <2>1, <3>1, <3>2 DEF On
  <2>4. CASE j > i
    <3>1. /\ j - 1 \in 1 .. Len(t) /\ j - 1 \in 1 .. Len(l) - 1
          /\ ~ (j - 1 < i) /\ (j - 1) + 1 = j /\ j # k
      BY <1>1, <1>2, <2>4
    <3>2. t[j - 1] = l[j]
      BY <1>1, <1>2, <3>1
    <3>3. QED
      BY <2>1, <3>1, <3>2 DEF On
  <2>5. j = k \/ j = i \/ j < k \/ j > i
    BY <1>1
  <2>6. QED
    BY <2>2, <2>3, <2>4, <2>5
<1>5. ASSUME NEW x \in Nat, Holds(x, b) PROVE On(x, t)
  <2>1. Holds(x, t[k])
    BY <1>3, <1>5
  <2>2. QED
    BY <1>3, <2>1 DEF On
<1>6. Len(t) <= Len(l) + 1
  BY <1>1, <1>2
<1>7. QED
  BY <1>4, <1>5, <1>6 DEF Adds, t, u

\* The block becomes an entry.
LEMMA InsertAdds ==
    ASSUME NEW l \in Seq(Region), NEW i \in 1 .. Len(l) + 1, NEW b \in Region
    PROVE  Adds(l, InsertAt(l, i, b), b)
<1> DEFINE t == InsertAt(l, i, b)
<1>1. /\ Len(t) = Len(l) + 1 /\ Len(l) \in Nat
      /\ \A j \in 1 .. Len(l) + 1 :
             t[j] = IF j < i THEN l[j] ELSE IF j = i THEN b ELSE l[j - 1]
  BY InsertAtProperties, Entries
<1> HIDE DEF t
<1>2. ASSUME NEW x \in Nat, On(x, l) PROVE On(x, t)
  <2>1. PICK j \in 1 .. Len(l) : Holds(x, l[j])
    BY <1>2 DEF On
  <2>2. CASE j < i
    <3>1. j \in 1 .. Len(l) + 1
      BY <1>1
    <3>2. t[j] = l[j] /\ j \in 1 .. Len(t)
      BY <1>1, <2>2, <3>1
    <3>3. QED
      BY <2>1, <3>2 DEF On
  <2>3. CASE ~ (j < i)
    <3>1. j + 1 \in 1 .. Len(l) + 1 /\ ~ (j + 1 < i) /\ j + 1 # i /\ (j + 1) - 1 = j
      BY <1>1, <2>3
    <3>2. t[j + 1] = l[j] /\ j + 1 \in 1 .. Len(t)
      BY <1>1, <3>1
    <3>3. QED
      BY <2>1, <3>2 DEF On
  <2>4. QED
    BY <2>2, <2>3
<1>3. ASSUME NEW x \in Nat, Holds(x, b) PROVE On(x, t)
  <2>1. t[i] = b /\ i \in 1 .. Len(t)
    BY <1>1
  <2>2. QED
    BY <1>3, <2>1 DEF On
<1>4. QED
  BY <1>1, <1>2, <1>3 DEF Adds, t

\* Giving back a block that lies apart from the list: the list stays sound, it
\* gets the block's addresses unless it is full, in which case their number is
\* added to lostsize, and what lay apart from both still does.
LEMMA FreeKeepsSound ==
    ASSUME NEW m, Sound(m), NEW b \in Region, b.size > 0, Clear(b, m.free)
    PROVE  LET n == memman_free(m, b.addr, b.size)
           IN  /\ Sound(n) /\ GivenBack(m, n, b)
               /\ \A c \in Region :
                      c.size > 0 /\ Clear(c, m.free) /\ Apart(c, b) => Clear(c, n.free)
<1> DEFINE n == memman_free(m, b.addr, b.size)
           Outcome == /\ Sound(n) /\ GivenBack(m, n, b)
                      /\ \A c \in Region : c.size > 0 /\ Clear(c, m.free) /\ Apart(c, b)
                             => Clear(c, n.free)
<1> SUFFICES Outcome
  OBVIOUS
<1>1. PICK l \in Seq(Region) : l = m.free /\ Len(l) <= Frees /\ Ordered(l) /\ Clear(b, l)
  BY DEF Sound, ManType
<1>2. /\ m \in ManType /\ Len(l) \in Nat /\ b.addr \in Nat /\ b.size \in Nat
      /\ \A j \in 1 .. Len(l) :
             l[j] \in Region /\ l[j].addr \in Nat /\ l[j].size \in Nat
  BY Entries DEF Sound, Region
<1>3. PICK i \in 1 .. Len(l) + 1 :
          /\ i = Place(m, b.addr)
          /\ \A j \in 1 .. Len(l) : j < i => l[j].addr <= b.addr
          /\ \A j \in 1 .. Len(l) : j >= i => l[j].addr > b.addr
  BY <1>1, <1>2, PlaceProperties
<1>4. PICK k \in 0 .. Len(l) : i = k + 1
  BY <1>2
<1>5. /\ \A j \in 1 .. Len(l) : j < i => l[j].addr + l[j].size <= b.addr
      /\ \A j \in 1 .. Len(l) : j >= i => b.addr + b.size <= l[j].addr
  BY <1>1, <1>3, Gap
<1> DEFINE P == k > 0 /\ l[k].addr + l[k].size = b.addr
           N == i <= Len(l) /\ b.addr + b.size = l[i].addr
<1>6. /\ JoinsPrevious(m, i, b.addr) <=> P
      /\ JoinsNext(m, i, b.addr, b.size) <=> N
  <2>1. i - 1 = k /\ (i > 1 <=> k > 0)
    BY <1>4
  <2>2. QED
    BY <1>1, <2>1 DEF JoinsPrevious, JoinsNext
<1>7. \A j \in 1 .. Len(l) : j < i <=> j <= k
  BY <1>4
<1>8. /\ \A j \in 1 .. Len(l) : j < k => l[j].addr + l[j].size < b.addr
      /\ ~ P => \A j \in 1 .. Len(l) : j <= k => l[j].addr + l[j].size < b.addr
  <2>1. \A j \in 1 .. Len(l) : j <= k => l[j].addr + l[j].size <= b.addr
    BY <1>5, <1>7
  <2>2. QED
    BY <1>1, <1>2, <2>1, Before
<1>9. /\ \A j \in 1 .. Len(l) : j > i => b.addr + b.size < l[j].addr
      /\ ~ N => \A j \in 1 .. Len(l) : j >= i => b.addr + b.size < l[j].addr
  <2>1. b.addr + b.size \in Nat
    BY <1>2
  <2>2. QED
    BY <1>1, <1>5, <2>1, Behind
<1>10. n = IF P /\ N THEN JoinBoth(m, i, b.size)
           ELSE IF P THEN JoinPrevious(m, i, b.size)
           ELSE IF N THEN JoinNext(m, i, b.addr, b.size)
           ELSE IF HasRoom(m) THEN Insert(m, i, b.addr, b.size)
           ELSE Lose(m, b.size)
  BY <1>3, <1>6 DEF memman_free
<1> HIDE DEF n, P, N
<1>11. ASSUME NEW t \in Seq(Region), Len(t) <= Frees, Ordered(t), Adds(l, t, b),
              \A c \in Region : c.size > 0 /\ Clear(c, l) /\ Apart(c, b) => Clear(c, t),
              n = [m EXCEPT !.free = t]
       PROVE  Outcome
  <2>1. Sound(n) /\ n.free = t
    BY <1>2, <1>11, SetFree
  <2>2. n.lostsize = m.lostsize
    BY <1>2, <1>11 DEF ManType
  <2>3. GivenBack(m, n, b)
    BY <1>1, <1>11, <2>1, <2>2 DEF GivenBack
  <2>4. QED
    BY <1>1, <1>11, <2>1, <2>3
<1>12. CASE P /\ N
  <2>1. /\ k \in 1 .. Len(l) /\ i \in 1 .. Len(l)
        /\ l[k].addr + l[k].size = b.addr /\ b.addr + b.size = l[i].addr
    BY <1>2, <1>4, <1>12 DEF P, N
  <2>2. l[k].addr \in Nat /\ l[k].size + b.size + l[i].size \in Nat
    BY <1>2, <2>1, SMTT(30)
  <2>3. PICK joined \in Nat : joined = l[k].size + b.size + l[i].size
    BY <2>2
  <2> DEFINE e == [addr |-> l[k].addr, size |-> joined]
             t == RemoveAt([l EXCEPT ![k] = e], i)
  <2>4. /\ e \in Region /\ e.addr = l[k].addr
        /\ e.size = l[k].size + b.size + l[i].size
    BY <2>2, <2>3, RegionMade
  <2>5. n = [m EXCEPT !.free = t]
    <3>1. n = JoinBoth(m, i, b.size)
      BY <1>10, <1>12
    <3>2. JoinBoth(m, i, b.size)
              = [m EXCEPT !.free =
                    RemoveAt([l EXCEPT ![k].size = joined], i)]
      <4>1. i - 1 = k
        BY <1>4
      <4>2. QED
        BY <1>1, <2>3, <4>1 DEF JoinBoth
    <3>3. [l EXCEPT ![k].size = joined] = [l EXCEPT ![k] = e]
      <4>1. k \in 1 .. Len(l) /\ joined \in Nat
        BY <2>1
      <4>2. [l EXCEPT ![k].size = joined]
                = [l EXCEPT ![k] = [addr |-> l[k].addr, size |-> joined]]
        BY <4>1, SizeSet
      <4>3. QED
        BY ONLY <4>2
    <3>4. QED
      BY <3>1, <3>2, <3>3
  <2> HIDE DEF e
  <2>6. /\ t \in Seq(Region) /\ Len(t) = Len(l) - 1 /\ Ordered(t)
        /\ \A c \in Region : c.size > 0 /\ Clear(c, l) /\ Apart(c, b) => Clear(c, t)
    <3>1. Ordered(l)
      BY <1>1
    <3>2. /\ k \in 1 .. Len(l) /\ i \in 1 .. Len(l) /\ i = k + 1 /\ e \in Region
          /\ e.addr = l[k].addr /\ e.size = l[k].size + b.size + l[i].size
          /\ l[k].addr + l[k].size = b.addr /\ b.addr + b.size = l[i].addr
      BY <1>4, <2>1, <2>4
    <3>3. QED
      <4>1. t \in Seq(Region)
        BY <3>1, <3>2, BridgeEntries
      <4>2. Len(t) = Len(l) - 1
        <5> DEFINE u == [l EXCEPT ![k] = e]
        <5>1. u \in Seq(Region) /\ Len(u) = Len(l) /\ i \in 1 .. Len(l)
          BY <3>2, ExceptSeq
        <5> HIDE DEF u
        <5>2. Len(RemoveAt(u, i)) = Len(u) - 1
          BY <5>1, RemoveAtProperties
        <5>3. QED
          BY ONLY <5>1, <5>2 DEF u, t
      <4>3. Ordered(t)
        BY <3>1, <3>2, BridgeEntries
      <4>4. ASSUME NEW c \in Region, c.size > 0, Clear(c, l), Apart(c, b) PROVE Clear(c, t)
        BY <3>1, <3>2, <4>4, BridgeEntries
      <4>5. QED
        BY <4>1, <4>2, <4>3, <4>4
  <2>7. Adds(l, t, b)
    <3>1. l[k] \in Region /\ l[i] \in Region
      BY <1>2, <2>1
    <3>2. \A x \in Nat : Holds(x, l[k]) \/ Holds(x, b) \/ Holds(x, l[i]) => Holds(x, e)
      BY <2>1, <2>4, <3>1, ThreeInOne
    <3>3. QED
      BY <1>4, <2>1, <2>4, <3>2, BridgeAdds
  <2> HIDE DEF t
  <2>8. Len(t) <= Frees
    BY <1>1, <1>2, <2>6, FreesAssumption
  <2>9. QED
    BY <1>11, <2>5, <2>6, <2>7, <2>8
<1>13. CASE P /\ ~ N
  <2>1. k \in 1 .. Len(l) /\ l[k].addr + l[k].size = b.addr
    BY <1>2, <1>4, <1>13 DEF P
  <2>2. l[k].addr \in Nat /\ l[k].size + b.size \in Nat
    BY <1>2, <2>1
  <2>3. PICK joined \in Nat : joined = l[k].size + b.size
    BY <2>2
  <2> DEFINE e == [addr |-> l[k].addr, size |-> joined]
             t == [l EXCEPT ![k] = e]
  <2>4. e \in Region /\ e.addr = l[k].addr /\ e.size = l[k].size + b.size
    BY <2>2, <2>3, RegionMade
  <2>5. n = [m EXCEPT !.free = t]
    <3>1. n = JoinPrevious(m, i, b.size)
      BY <1>10, <1>13
    <3>2. JoinPrevious(m, i, b.size)
              = [m EXCEPT !.free = [l EXCEPT ![k].size = joined]]
      <4>1. i - 1 = k
        BY <1>4
      <4>2. QED
        BY <1>1, <2>3, <4>1 DEF JoinPrevious
    <3>3. [l EXCEPT ![k].size = joined] = [l EXCEPT ![k] = e]
      <4>1. k \in 1 .. Len(l) /\ joined \in Nat
        BY <2>1
      <4>2. [l EXCEPT ![k].size = joined]
                = [l EXCEPT ![k] = [addr |-> l[k].addr, size |-> joined]]
        BY <4>1, SizeSet
      <4>3. QED
        BY ONLY <4>2
    <3>4. QED
      BY <3>1, <3>2, <3>3
  <2>6. \A j \in 1 .. Len(l) : j > k => b.addr + b.size < l[j].addr
    BY <1>4, <1>9, <1>13
  <2> HIDE DEF e
  <2>7. /\ t \in Seq(Region) /\ Len(t) = Len(l) /\ Ordered(t)
        /\ \A c \in Region : c.size > 0 /\ Clear(c, l) /\ Apart(c, b) => Clear(c, t)
    <3>1. \A j \in 1 .. Len(l) : j < k => l[j].addr + l[j].size < b.addr
      BY <1>8
    <3>2. Ordered(l)
      BY <1>1
    <3>3. QED
      BY <2>1, <2>4, <2>6, <3>1, <3>2, GrowEntry
  <2>8. Adds(l, t, b)
    <3>1. l[k].addr \in Nat /\ l[k].size \in Nat
      BY <1>2, <2>1
    <3>2. b.addr \in Nat /\ b.size \in Nat
      BY <1>2
    <3>3. \A x \in Nat : Holds(x, l[k]) \/ Holds(x, b) => Holds(x, e)
      BY ONLY <2>1, <2>4, <3>1, <3>2 DEF Holds
    <3>4. QED
      BY <2>1, <2>4, <3>3, GrowAdds
  <2> HIDE DEF t
  <2>9. QED
    BY <1>1, <1>11, <2>5, <2>7, <2>8
<1>14. CASE ~ P /\ N
  <2> DEFINE e == [addr |-> b.addr, size |-> l[i].size + b.size]
             t == [l EXCEPT ![i] = e]
  <2>1. i \in 1 .. Len(l) /\ b.addr + b.size = l[i].addr
    BY <1>2, <1>14 DEF N
  <2>2. l[i].size + b.size \in Nat
    BY <1>2, <2>1
  <2>3. e \in Region /\ e.addr = b.addr /\ e.size = l[i].size + b.size
    BY <1>2, <2>2, RegionMade
  <2>4. n = [m EXCEPT !.free = t]
    <3>1. n = JoinNext(m, i, b.addr, b.size)
      BY <1>10, <1>14
    <3>2. QED
      BY <1>1, <3>1 DEF JoinNext
  <2>5. \A j \in 1 .. Len(l) : j < i => l[j].addr + l[j].size < b.addr
    BY <1>7, <1>8, <1>14
  <2> HIDE DEF e
  <2>6. /\ t \in Seq(Region) /\ Len(t) = Len(l) /\ Ordered(t)
        /\ \A c \in Region : c.size > 0 /\ Clear(c, l) /\ Apart(c, b) => Clear(c, t)
    <3>1. \A j \in 1 .. Len(l) : j > i => b.addr + b.size < l[j].addr
      BY <1>9
    <3>2. Ordered(l)
      BY <1>1
    <3>3. QED
      BY <2>1, <2>3, <2>5, <3>1, <3>2, GrowEntry
  <2>7. Adds(l, t, b)
    <3>1. l[i].addr \in Nat /\ l[i].size \in Nat
      BY <1>2, <2>1
    <3>2. b.addr \in Nat /\ b.size \in Nat
      BY <1>2
    <3>3. \A x \in Nat : Holds(x, l[i]) \/ Holds(x, b) => Holds(x, e)
      BY ONLY <2>1, <2>3, <3>1, <3>2 DEF Holds
    <3>4. QED
      BY <2>1, <2>3, <3>3, GrowAdds
  <2> HIDE DEF t
  <2>8. QED
    BY <1>1, <1>11, <2>4, <2>6, <2>7
<1>15. CASE ~ P /\ ~ N /\ HasRoom(m)
  <2> DEFINE t == InsertAt(l, i, b)
             o == [m EXCEPT !.maxfrees = Max({m.maxfrees, Len(l) + 1})]
  <2>1. n = [o EXCEPT !.free = t]
    <3>1. n = Insert(m, i, b.addr, b.size)
      BY <1>10, <1>15
    <3>2. b = [addr |-> b.addr, size |-> b.size]
      BY DEF Region
    <3>3. QED
      BY <1>1, <1>2, <3>1, <3>2 DEF Insert, ManType
  <2>2. \A j \in 1 .. Len(l) : j < i => l[j].addr + l[j].size < b.addr
    BY <1>7, <1>8, <1>15
  <2>3. \A j \in 1 .. Len(l) : j >= i => b.addr + b.size < l[j].addr
    BY <1>9, <1>15
  <2>4. /\ t \in Seq(Region) /\ Len(t) = Len(l) + 1 /\ Ordered(t)
        /\ \A c : Clear(c, l) /\ Apart(c, b) => Clear(c, t)
    BY <1>1, <2>2, <2>3, InsertEntry
  <2>5. Adds(l, t, b)
    BY InsertAdds
  <2> HIDE DEF t
  <2>6. Len(t) <= Frees
    BY <1>1, <1>2, <1>15, <2>4, FreesAssumption DEF HasRoom
  <2>7. o \in ManType /\ o.lostsize = m.lostsize
    <3>1. m.maxfrees \in 0 .. Frees /\ Len(l) + 1 \in 0 .. Frees
      BY <1>1, <1>2, <2>4, <2>6 DEF ManType
    <3>2. Max({m.maxfrees, Len(l) + 1}) \in {m.maxfrees, Len(l) + 1}
      BY <3>1, FreesAssumption, MaxOfTwo
    <3>3. QED
      BY <1>2, <3>1, <3>2 DEF ManType
  <2> HIDE DEF o
  <2>8. Sound(n) /\ n.free = t
    BY <2>1, <2>4, <2>6, <2>7, SetFree
  <2>9. n.lostsize = m.lostsize
    BY <2>1, <2>7 DEF ManType
  <2>10. GivenBack(m, n, b)
    BY <1>1, <2>5, <2>8, <2>9 DEF GivenBack
  <2>11. QED
    BY <1>1, <2>4, <2>8, <2>10
<1>16. CASE ~ P /\ ~ N /\ ~ HasRoom(m)
  <2>1. n = Lose(m, b.size)
    BY <1>10, <1>16
  <2>2. n.free = l /\ n.lostsize = m.lostsize + b.size
    BY <1>1, <1>2, <2>1 DEF Lose, ManType
  <2>3. m.losts + 1 \in Nat /\ m.lostsize + b.size \in Nat
    BY <1>2 DEF ManType
  <2>4. n \in ManType
    BY <1>2, <2>1, <2>3 DEF Lose, ManType
  <2>5. GivenBack(m, n, b)
    BY <1>1, <1>2, <1>16, <2>2, FreesAssumption DEF GivenBack, HasRoom
  <2>6. QED
    BY <1>1, <2>2, <2>4, <2>5 DEF Sound
<1>17. QED
  BY <1>12, <1>13, <1>14, <1>15, <1>16

-----------------------------------------------------------------------------
(* The invariant.                                                           *)

Blocks ==
    /\ \A b \in held : b.size > 0 /\ Clear(Block(b), man.free)
    /\ \A b, c \in held : b # c => Apart(Block(b), Block(c))

IInv == TypeOK /\ Sound(man) /\ Blocks

\* A block rounded up to whole pages is a region.
LEMMA BlockType ==
    ASSUME NEW b \in Region, b.size > 0
    PROVE  /\ Block(b) \in Region /\ Block(b).size > 0
           /\ Block(b).addr = b.addr /\ Block(b).size = RoundUp(b.size)
<1>1. b.addr \in Nat /\ b.size \in Nat
  BY DEF Region
<1>2. RoundUp(b.size) \in Nat /\ RoundUp(b.size) > 0
  BY <1>1, RoundUpType
<1>3. QED
  BY <1>1, <1>2, RegionMade DEF Block

\* The two regions freed at boot make a proper list.
LEMMA InitIInv == Init => IInv
<1> SUFFICES ASSUME Init PROVE IInv
  OBVIOUS
<1> DEFINE m == memman_free(memman_init, Low.addr, Low.size)
<1>1. /\ Low \in Region /\ High \in Region /\ Low.size > 0 /\ High.size > 0
      /\ Low.addr + Low.size < High.addr
  BY RegionsAssumption
<1>2. memman_init.free = << >> /\ Len(<< >>) = 0
  BY DEF memman_init
<1>3. Sound(memman_init)
  <2>1. memman_init \in ManType
    BY FreesAssumption DEF memman_init, ManType
  <2>2. Ordered(memman_init.free)
    BY <1>2 DEF Ordered
  <2>3. Len(memman_init.free) <= Frees
    BY <1>2, FreesAssumption
  <2>4. QED
    BY <2>1, <2>2, <2>3 DEF Sound
<1>4. Clear(Low, memman_init.free) /\ Clear(High, memman_init.free)
  BY <1>2 DEF Clear
<1>5. Apart(High, Low)
  BY <1>1 DEF Apart, Region
<1>6. Sound(m) /\ Clear(High, m.free)
  BY <1>1, <1>3, <1>4, <1>5, FreeKeepsSound
<1> HIDE DEF m
<1>7. Sound(memman_free(m, High.addr, High.size))
  BY <1>1, <1>6, FreeKeepsSound
<1>8. Sound(man) /\ held = {} /\ last = 0
  BY <1>7 DEF Init, m
<1>9. TypeOK
  BY <1>8 DEF TypeOK, Sound, ManType
<1>10. QED
  BY <1>8, <1>9 DEF IInv, Blocks

\* The block handed out leaves its entry.
LEMMA AllocKeepsIInv ==
    ASSUME NoEmptyRequests, IInv, NEW size \in Sizes, Alloc(size)
    PROVE  IInv'
<1> DEFINE s == RoundUp(size)
           a == AllocReturns(man, s)
<1>1. size \in Nat /\ size > 0
  BY SizesAssumption DEF NoEmptyRequests
<1>2. s \in Nat /\ s > 0
  BY <1>1, RoundUpType
<1>3. /\ Sound(man) /\ held \subseteq Region
      /\ \A b \in held : b.size > 0 /\ Clear(Block(b), man.free)
      /\ \A b, c \in held : b # c => Apart(Block(b), Block(c))
  BY DEF IInv, TypeOK, Blocks
<1>4. /\ man' = memman_alloc(man, s) /\ last' = a
      /\ held' = IF a = 0 THEN held ELSE held \cup {[addr |-> a, size |-> size]}
  BY DEF Alloc
<1> HIDE DEF s
<1>5. CASE Fits(man, s) = {}
  <2>1. man' = man /\ a = 0
    BY <1>4, <1>5 DEF memman_alloc, AllocReturns
  <2>2. held' = held /\ last' = 0
    BY <1>4, <2>1
  <2>3. QED
    BY <2>1, <2>2 DEF IInv, TypeOK, Sound, Blocks, ManType
<1>6. CASE Fits(man, s) # {}
  <2> DEFINE i == Min(Fits(man, s))
             b == [addr |-> man.free[i].addr, size |-> s]
             r == [addr |-> a, size |-> size]
  <2>1. i \in Fits(man, s)
    <3>1. Fits(man, s) \subseteq Nat
      BY <1>3, Entries DEF Fits, Sound, ManType
    <3>2. QED
      BY <1>6, <3>1, MinOfNats
  <2>2. man' = Take(man, i, s) /\ a = man.free[i].addr
    BY <1>4, <1>6 DEF memman_alloc, AllocReturns
  <2> HIDE DEF i
  <2>3. /\ Sound(man') /\ b \in Region /\ Clear(b, man'.free)
        /\ \A c \in Region : Clear(c, man.free) => Clear(c, man'.free) /\ Apart(c, b)
    BY <1>2, <1>3, <2>1, <2>2, TakeKeepsSound
  <2>4. a \in Nat
    BY <2>2, <2>3 DEF Region
  <2> HIDE DEF a
  <2>5. r \in Region /\ r.size > 0
    BY <1>1, <2>4 DEF Region
  <2>6. Block(r) = b
    BY <2>2 DEF Block, s
  <2> HIDE DEF b, r
  <2>7. TypeOK'
    <3>1. held' \subseteq Region
      BY <1>3, <1>4, <2>5 DEF r
    <3>2. QED
      BY <1>4, <2>3, <2>4, <3>1 DEF TypeOK, Sound, ManType
  <2>8. ASSUME NEW c \in held
        PROVE  /\ c \in Region /\ c.size > 0
               /\ Clear(Block(c), man'.free) /\ Apart(Block(c), b)
    <3>1. c \in Region /\ c.size > 0 /\ Clear(Block(c), man.free)
      BY <1>3
    <3>2. Block(c) \in Region
      BY <3>1, BlockType
    <3>3. QED
      BY <2>3, <3>1, <3>2
  <2>9. \A c \in held' : c \in held \/ c = r
    BY <1>4 DEF r
  <2>10. \A c \in held' : c.size > 0 /\ Clear(Block(c), man'.free)
    BY <2>3, <2>5, <2>6, <2>8, <2>9
  <2>11. ASSUME NEW c \in held', NEW d \in held', c # d
         PROVE  Apart(Block(c), Block(d))
    <3>1. CASE c \in held /\ d \in held
      BY <1>3, <2>11, <3>1
    <3>2. CASE c \in held /\ d = r
      BY <2>6, <2>8, <3>2
    <3>3. CASE c = r /\ d \in held
      BY <2>6, <2>8, <3>3 DEF Apart
    <3>4. QED
      BY <2>9, <2>11, <3>1, <3>2, <3>3
  <2>12. Blocks'
    BY <2>10, <2>11 DEF Blocks, Block
  <2>13. QED
    BY <2>3, <2>7, <2>12 DEF IInv, Sound, ManType
<1>7. QED
  BY <1>5, <1>6

\* The block given back lies apart from every entry.
LEMMA FreeKeepsIInv ==
    ASSUME IInv, NEW b \in held, Free(b)
    PROVE  IInv'
<1>1. /\ Sound(man) /\ held \subseteq Region /\ last \in Nat
      /\ \A c \in held : c.size > 0 /\ Clear(Block(c), man.free)
      /\ \A c, d \in held : c # d => Apart(Block(c), Block(d))
  BY DEF IInv, TypeOK, Blocks
<1>2. /\ man' = memman_free(man, b.addr, RoundUp(b.size))
      /\ held' = held \ {b} /\ last' = last
  BY DEF Free
<1>3. /\ Block(b) \in Region /\ Block(b).size > 0
      /\ Block(b).addr = b.addr /\ Block(b).size = RoundUp(b.size)
  BY <1>1, BlockType
<1>4. /\ Sound(man')
      /\ \A c \in Region :
             c.size > 0 /\ Clear(c, man.free) /\ Apart(c, Block(b)) => Clear(c, man'.free)
  <2>1. man' = memman_free(man, Block(b).addr, Block(b).size)
    BY <1>2, <1>3
  <2>2. Clear(Block(b), man.free)
    BY <1>1
  <2>3. QED
    BY <1>1, <1>3, <2>1, <2>2, FreeKeepsSound
<1>5. TypeOK'
  BY <1>1, <1>2, <1>4 DEF TypeOK, Sound, ManType
<1>6. ASSUME NEW c \in held'
      PROVE  c.size > 0 /\ Clear(Block(c), man'.free)
  <2>1. /\ c \in Region /\ c.size > 0 /\ Clear(Block(c), man.free)
        /\ Apart(Block(c), Block(b))
    BY <1>1, <1>2, <1>6
  <2>2. Block(c) \in Region /\ Block(c).size > 0
    BY <2>1, BlockType
  <2>3. QED
    BY <1>4, <2>1, <2>2
<1>7. \A c, d \in held' : c # d => Apart(Block(c), Block(d))
  BY <1>1, <1>2
<1>8. Blocks'
  BY <1>6, <1>7 DEF Blocks, Block
<1>9. QED
  BY <1>4, <1>5, <1>8 DEF IInv, Sound, ManType

\* Every call preserves the invariant.
LEMMA NextIInv ==
    ASSUME NoEmptyRequests, IInv, [Next]_vars
    PROVE  IInv'
<1>1. ASSUME NEW size \in Sizes, Alloc(size) PROVE IInv'
  BY <1>1, AllocKeepsIInv
<1>2. ASSUME NEW b \in held, Free(b) PROVE IInv'
  BY <1>2, FreeKeepsIInv
<1>3. CASE UNCHANGED vars
  BY <1>3 DEF vars, IInv, TypeOK, Sound, ManType, Blocks, Block
<1>4. QED
  BY <1>1, <1>2, <1>3 DEF Next

\* The inductive invariant holds in every reachable state.
LEMMA Invariance ==
    ASSUME NoEmptyRequests
    PROVE  Spec => []IInv
<1>1. IInv /\ [Next]_vars => IInv'
  BY NextIInv
<1>2. QED
  BY InitIInv, <1>1, PTL DEF Spec

-----------------------------------------------------------------------------
(* The theorems.                                                            *)

\* The record, the blocks and the answers keep their types, and the list never
\* holds more than MEMMAN_FREES entries.
THEOREM TypeCorrect ==
    ASSUME NoEmptyRequests
    PROVE  Spec => []TypeOK
<1>1. IInv => TypeOK
  BY DEF IInv
<1>2. QED
  BY Invariance, <1>1, PTL

\* The list stays in address order with no two entries touching: memman_free
\* misses no merge (memory.c:87-124).
THEOREM ListStaysOrdered ==
    ASSUME NoEmptyRequests
    PROVE  Spec => []FreeListOrdered
<1>1. IInv => FreeListOrdered
  <2>1. ASSUME IInv PROVE DOMAIN man.free = 1 .. Len(man.free) /\ Ordered(man.free)
    BY <2>1, Entries DEF IInv, Sound, ManType
  <2>2. QED
    BY <2>1 DEF FreeListOrdered, Ordered
<1>2. QED
  BY Invariance, <1>1, PTL

\* Regions that lie apart share no address.
LEMMA SpansDisjoint ==
    ASSUME NEW r \in Region, NEW t \in Region, Apart(r, t)
    PROVE  Span(r) \cap Span(t) = {}
<1>1. /\ r.addr \in Nat /\ r.size \in Nat /\ t.addr \in Nat /\ t.size \in Nat
  BY DEF Region
<1>2. QED
  BY <1>1 DEF Apart, Span

\* No address has two owners: neither two callers, nor a caller and the list
\* (memman_alloc_4k and memman_free_4k together, memory.c:127-143).
THEOREM OwnersExclusive ==
    ASSUME NoEmptyRequests
    PROVE  Spec => []NoOverlap
<1>1. ASSUME IInv PROVE NoOverlap
  <2>1. /\ man.free \in Seq(Region) /\ held \subseteq Region
        /\ \A b \in held : b.size > 0 /\ Clear(Block(b), man.free)
        /\ \A b, c \in held : b # c => Apart(Block(b), Block(c))
    BY <1>1 DEF IInv, TypeOK, Blocks, Sound, ManType
  <2>2. \A b \in held : Block(b) \in Region
    BY <2>1, BlockType
  <2>3. ASSUME NEW b \in held, NEW c \in held, b # c
        PROVE  Span(Block(b)) \cap Span(Block(c)) = {}
    BY <2>1, <2>2, <2>3, SpansDisjoint
  <2>4. ASSUME NEW b \in held, NEW i \in DOMAIN man.free
        PROVE  Span(Block(b)) \cap Span(man.free[i]) = {}
    <3>1. i \in 1 .. Len(man.free) /\ man.free[i] \in Region
      BY <2>1, Entries
    <3>2. Apart(Block(b), man.free[i])
      BY <2>1, <3>1 DEF Clear
    <3>3. QED
      BY <2>2, <3>1, <3>2, SpansDisjoint
  <2>5. QED
    BY <2>3, <2>4 DEF NoOverlap
<1>2. QED
  BY Invariance, <1>1, PTL
-----------------------------------------------------------------------------
(* Memman implements PageAllocator: the list stands for a set of addresses. *)

Bytes(list) == {x \in Nat : On(x, list)}

\* The addresses of a region.
LEMMA SpanHolds ==
    ASSUME NEW r \in Region
    PROVE  Span(r) \subseteq Nat /\ \A x \in Nat : x \in Span(r) <=> Holds(x, r)
<1>1. r.addr \in Nat /\ r.size \in Nat
  BY DEF Region
<1>2. QED
  BY <1>1 DEF Span, Holds

\* The addresses of a list are those of its entries.
LEMMA BytesOfList ==
    ASSUME NEW l \in Seq(Region)
    PROVE  UNION {Span(l[i]) : i \in DOMAIN l} = Bytes(l)
<1>1. DOMAIN l = 1 .. Len(l) /\ \A i \in 1 .. Len(l) : l[i] \in Region
  BY Entries
<1>2. ASSUME NEW i \in 1 .. Len(l)
      PROVE  Span(l[i]) \subseteq Nat /\ \A x \in Nat : x \in Span(l[i]) <=> Holds(x, l[i])
  BY <1>1, SpanHolds
<1>3. QED
  BY <1>1, <1>2 DEF Bytes, On

\* An address lies on no entry when the region of that address alone lies apart
\* from all.
LEMMA OneByte ==
    ASSUME NEW x \in Nat
    PROVE  LET u == [addr |-> x, size |-> 1]
           IN  /\ u \in Region /\ u.size > 0
               /\ \A r \in Region : Apart(u, r) <=> ~ Holds(x, r)
               /\ \A l \in Seq(Region) : Clear(u, l) <=> ~ On(x, l)
<1> DEFINE u == [addr |-> x, size |-> 1]
<1>1. u \in Region /\ u.addr = x /\ u.size = 1
  BY RegionMade
<1> HIDE DEF u
<1>2. ASSUME NEW r \in Region PROVE Apart(u, r) <=> ~ Holds(x, r)
  <2>1. r.addr \in Nat /\ r.size \in Nat
    BY DEF Region
  <2>2. QED
    BY <1>1, <2>1 DEF Apart, Holds
<1>3. ASSUME NEW l \in Seq(Region) PROVE Clear(u, l) <=> ~ On(x, l)
  <2>1. \A i \in 1 .. Len(l) : Apart(u, l[i]) <=> ~ Holds(x, l[i])
    BY <1>2, Entries
  <2>2. QED
    BY <2>1 DEF Clear, On
<1>4. QED
  BY <1>1, <1>2, <1>3 DEF u

\* memman_free adds the block's addresses, or, when the list is full, none: then
\* it counts them.
LEMMA FreeAddsBytes ==
    ASSUME NEW m, Sound(m), NEW b \in Region, b.size > 0, Clear(b, m.free),
           NEW n, n = memman_free(m, b.addr, b.size)
    PROVE  /\ \/ Bytes(n.free) = Bytes(m.free) /\ n.lostsize = m.lostsize + b.size
              \/ /\ Bytes(n.free) = Bytes(m.free) \cup Span(b)
                 /\ n.lostsize = m.lostsize
           /\ Len(m.free) < Frees => Bytes(n.free) = Bytes(m.free) \cup Span(b)
           /\ Len(n.free) <= Len(m.free) + 1
<1>1. /\ Sound(n) /\ GivenBack(m, n, b)
      /\ \A c \in Region :
             c.size > 0 /\ Clear(c, m.free) /\ Apart(c, b) => Clear(c, n.free)
  BY FreeKeepsSound
<1>2. PICK l \in Seq(Region), t \in Seq(Region) :
          l = m.free /\ t = n.free /\ Len(l) \in Nat
  BY <1>1, Entries DEF Sound, ManType
<1>3. ASSUME NEW x \in Nat, On(x, t), ~ On(x, l) PROVE Holds(x, b)
  <2> DEFINE u == [addr |-> x, size |-> 1]
  <2>1. /\ u \in Region /\ u.size > 0
        /\ Apart(u, b) <=> ~ Holds(x, b)
        /\ Clear(u, l) <=> ~ On(x, l)
        /\ Clear(u, t) <=> ~ On(x, t)
    BY <1>2, OneByte
  <2> HIDE DEF u
  <2>2. QED
    BY <1>1, <1>2, <1>3, <2>1
<1>4. Span(b) \subseteq Nat /\ \A x \in Nat : x \in Span(b) <=> Holds(x, b)
  BY SpanHolds
<1>5. CASE n.lostsize = m.lostsize /\ Adds(l, t, b)
  <2>1. Bytes(t) = Bytes(l) \cup Span(b)
    BY <1>3, <1>4, <1>5 DEF Bytes, Adds
  <2>2. Len(t) <= Len(l) + 1
    BY <1>5 DEF Adds
  <2>3. QED
    BY <1>2, <1>5, <2>1, <2>2
<1>6. CASE n.lostsize = m.lostsize + b.size /\ t = l /\ Len(l) >= Frees
  <2>1. ~ (Len(l) < Frees) /\ Len(l) <= Len(l) + 1
    BY <1>2, <1>6, FreesAssumption
  <2>2. QED
    BY <1>2, <1>6, <2>1
<1>7. QED
  BY <1>1, <1>2, <1>5, <1>6 DEF GivenBack

\* memman_alloc takes the block's addresses off the list, all of them free before.
LEMMA TakeRemovesBytes ==
    ASSUME NEW m, Sound(m), NEW size \in Nat, size > 0, NEW i \in Fits(m, size),
           NEW n, n = Take(m, i, size),
           NEW b, b = [addr |-> m.free[i].addr, size |-> size]
    PROVE  /\ Bytes(n.free) = Bytes(m.free) \ Span(b)
           /\ Span(b) \subseteq Bytes(m.free) /\ b.addr \in Bytes(m.free)
<1>1. /\ Sound(n) /\ b \in Region /\ Clear(b, n.free)
      /\ \A c \in Region : Clear(c, m.free) => Clear(c, n.free) /\ Apart(c, b)
  BY TakeKeepsSound
<1>2. PICK l \in Seq(Region), t \in Seq(Region) : l = m.free /\ t = n.free
  BY <1>1 DEF Sound, ManType
<1>3. /\ i \in 1 .. Len(l) /\ l[i].size >= size /\ Len(l) \in Nat
      /\ \A j \in 1 .. Len(l) : l[j] \in Region /\ l[j].addr \in Nat /\ l[j].size \in Nat
  BY <1>2, Entries DEF Fits
<1>4. b.addr = l[i].addr /\ b.size = size
  BY <1>2
<1>5. Span(b) \subseteq Nat /\ \A x \in Nat : x \in Span(b) <=> Holds(x, b)
  BY <1>1, SpanHolds
<1>6. ASSUME NEW x \in Nat, On(x, t) PROVE On(x, l) /\ ~ Holds(x, b)
  <2> DEFINE u == [addr |-> x, size |-> 1]
  <2>1. /\ u \in Region
        /\ Clear(u, l) <=> ~ On(x, l)
        /\ Clear(u, t) <=> ~ On(x, t)
    BY OneByte
  <2> HIDE DEF u
  <2>2. On(x, l)
    BY <1>1, <1>2, <1>6, <2>1
  <2>3. PICK j \in 1 .. Len(t) : Holds(x, t[j])
    BY <1>6 DEF On
  <2>4. /\ b.addr \in Nat /\ b.size \in Nat
        /\ t[j].addr \in Nat /\ t[j].size \in Nat
    BY <1>1, <1>2, Entries DEF Region
  <2>5. Apart(b, t[j])
    BY <1>1, <1>2 DEF Clear
  <2>6. ~ Holds(x, b)
    BY <2>3, <2>4, <2>5 DEF Apart, Holds
  <2>7. QED
    BY <2>2, <2>6
<1>7. ASSUME NEW x \in Nat, On(x, l), ~ Holds(x, b) PROVE On(x, t)
  <2>1. PICK j \in 1 .. Len(l) : Holds(x, l[j])
    BY <1>7 DEF On
  <2>2. CASE l[i].size = size
    <3>1. t = RemoveAt(l, i)
      BY <1>1, <1>2, <2>2 DEF Take, Sound, ManType
    <3>2. /\ Len(t) = Len(l) - 1
          /\ \A k \in 1 .. Len(l) - 1 : t[k] = IF k < i THEN l[k] ELSE l[k + 1]
      BY ONLY <1>3, <3>1, l \in Seq(Region), RemoveAtProperties
    <3>3. j # i
      BY <1>4, <1>7, <2>1, <2>2 DEF Holds
    <3>4. CASE j < i
      <4>1. j \in 1 .. Len(l) - 1 /\ t[j] = l[j]
        BY <1>3, <3>2, <3>4
      <4>2. QED
        BY <2>1, <3>2, <4>1 DEF On
    <3>5. CASE j > i
      <4>1. /\ j - 1 \in 1 .. Len(l) - 1 /\ ~ (j - 1 < i) /\ (j - 1) + 1 = j
        BY <1>3, <3>5
      <4>2. t[j - 1] = l[j]
        BY <3>2, <4>1
      <4>3. QED
        BY <2>1, <3>2, <4>1, <4>2 DEF On
    <3>6. QED
      BY <1>3, <3>3, <3>4, <3>5
  <2>3. CASE l[i].size # size
    <3> DEFINE e == [addr |-> l[i].addr + size, size |-> l[i].size - size]
    <3>1. l[i].addr + size \in Nat /\ l[i].size - size \in Nat
      BY <1>3, <2>3
    <3>2. e \in Region /\ e.addr = l[i].addr + size /\ e.size = l[i].size - size
      BY <3>1, RegionMade
    <3>3. t = [l EXCEPT ![i] = e]
      BY <1>1, <1>2, <2>3 DEF Take, Sound, ManType
    <3> HIDE DEF e
    <3>4. Len(t) = Len(l) /\ t[j] = IF j = i THEN e ELSE l[j]
      BY <1>3, <3>2, <3>3, ExceptSeq
    <3>5. j = i => Holds(x, e)
      BY <1>3, <1>4, <1>7, <2>1, <3>2, SMTT(30) DEF Holds
    <3>6. Holds(x, t[j])
      BY <2>1, <3>4, <3>5
    <3>7. QED
      BY <3>4, <3>6 DEF On
  <2>4. QED
    BY <2>2, <2>3
<1>8. ASSUME NEW x \in Nat, Holds(x, b) PROVE On(x, l)
  <2>1. Holds(x, l[i])
    BY <1>3, <1>4, <1>8 DEF Holds
  <2>2. QED
    BY <1>3, <2>1 DEF On
<1>9. b.addr \in Nat /\ Holds(b.addr, b)
  BY <1>3, <1>4 DEF Holds
<1>10. QED
  BY <1>2, <1>5, <1>6, <1>7, <1>8, <1>9 DEF Bytes

\* Entries do not touch, so a run of free addresses lies in one of them.
LEMMA RunInOneEntry ==
    ASSUME NEW l \in Seq(Region), Ordered(l), NEW a \in Nat, NEW size \in Nat, size > 0,
           a .. a + size - 1 \subseteq Bytes(l)
    PROVE  \E i \in 1 .. Len(l) : l[i].size >= size
<1>1. /\ Len(l) \in Nat
      /\ \A j \in 1 .. Len(l) : l[j].addr \in Nat /\ l[j].size \in Nat
  BY Entries
<1>2. PICK i \in 1 .. Len(l) : Holds(a, l[i])
  <2>1. a \in a .. a + size - 1
    OBVIOUS
  <2>2. QED
    BY <2>1 DEF Bytes, On
<1>3. PICK end \in Nat : end = l[i].addr + l[i].size
  BY <1>1
<1>4. l[i].addr <= a /\ a < end
  BY <1>2, <1>3 DEF Holds
<1>5. CASE end < a + size
  <2>1. end \in a .. a + size - 1
    BY <1>3, <1>4, <1>5
  <2>2. PICK j \in 1 .. Len(l) : Holds(end, l[j])
    BY <2>1 DEF Bytes, On
  <2>3. l[j].addr <= end /\ end < l[j].addr + l[j].size
    BY <2>2 DEF Holds
  <2>4. CASE j < i
    <3>1. l[j].addr + l[j].size < l[i].addr
      BY <2>4 DEF Ordered
    <3>2. QED
      BY <1>1, <1>3, <2>3, <3>1
  <2>5. CASE i < j
    <3>1. end < l[j].addr
      BY <1>3, <2>5 DEF Ordered
    <3>2. QED
      BY <1>1, <2>3, <3>1
  <2>6. CASE i = j
    BY <1>1, <1>3, <2>3, <2>6
  <2>7. QED
    BY <1>1, <2>4, <2>5, <2>6
<1>6. CASE ~ (end < a + size)
  <2>1. l[i].size >= size
    BY <1>1, <1>3, <1>4, <1>6
  <2>2. QED
    BY <2>1
<1>7. QED
  BY <1>5, <1>6

\* Address 0, memman_alloc's answer for a refusal, is never handed out.
NeverZero == 0 \notin FreeBytes /\ \A b \in held : b.addr > 0

AInv == IInv /\ NeverZero

\* What the list of the invariant stands for, now and after a step.
LEMMA FreeBytesKnown ==
    /\ IInv => FreeBytes = Bytes(man.free)
    /\ IInv' => FreeBytes' = Bytes(man'.free)
<1>1. ASSUME IInv PROVE FreeBytes = Bytes(man.free)
  <2>1. man.free \in Seq(Region)
    BY <1>1 DEF IInv, Sound, ManType
  <2>2. QED
    BY <2>1, BytesOfList DEF FreeBytes
<1>2. ASSUME IInv' PROVE FreeBytes' = Bytes(man'.free)
  <2>1. man'.free \in Seq(Region)
    BY <1>2 DEF IInv, Sound, ManType
  <2>2. QED
    BY <2>1, BytesOfList DEF FreeBytes
<1>3. QED
  BY <1>1, <1>2

\* At boot the free addresses are those of the two regions.
LEMMA InitMaps == Init => NeverZero /\ Allocator!Init
<1> SUFFICES ASSUME Init PROVE NeverZero /\ Allocator!Init
  OBVIOUS
<1> DEFINE m == memman_free(memman_init, Low.addr, Low.size)
           n == memman_free(m, High.addr, High.size)
<1>1. /\ Low \in Region /\ High \in Region /\ Low.size > 0 /\ High.size > 0
      /\ Low.addr + Low.size < High.addr /\ Low.addr > 0 /\ High.addr > 0
  <2>1. Low.addr \in Nat /\ Low.size \in Nat /\ High.addr \in Nat
    BY RegionsAssumption DEF Region
  <2>2. QED
    BY <2>1, RegionsAssumption
<1>2. memman_init.free = << >> /\ Len(<< >>) = 0
  BY DEF memman_init
<1>3. Sound(memman_init)
  <2>1. memman_init \in ManType
    BY FreesAssumption DEF memman_init, ManType
  <2>2. Ordered(memman_init.free)
    BY <1>2 DEF Ordered
  <2>3. Len(memman_init.free) <= Frees
    BY <1>2, FreesAssumption
  <2>4. QED
    BY <2>1, <2>2, <2>3 DEF Sound
<1>4. Clear(Low, memman_init.free) /\ Clear(High, memman_init.free)
  BY <1>2 DEF Clear
<1>5. Apart(High, Low)
  BY <1>1 DEF Apart, Region
<1>6. Sound(m) /\ Clear(High, m.free)
  BY <1>1, <1>3, <1>4, <1>5, FreeKeepsSound
<1>7. Bytes(memman_init.free) = {}
  BY <1>2 DEF Bytes, On
<1>8. Bytes(m.free) = Span(Low) /\ Len(m.free) <= 1
  <2>1. Len(memman_init.free) < Frees
    BY <1>2, FreesAssumption
  <2>2. /\ Bytes(m.free) = Bytes(memman_init.free) \cup Span(Low)
        /\ Len(m.free) <= Len(memman_init.free) + 1
    BY <1>1, <1>3, <1>4, <2>1, FreeAddsBytes
  <2>3. QED
    BY <1>2, <1>7, <2>2
<1>9. Bytes(n.free) = Span(Low) \cup Span(High)
  <2>1. Len(m.free) < Frees
    <3>1. Len(m.free) \in Nat
      BY <1>6, Entries DEF Sound, ManType
    <3>2. QED
      BY <1>8, <3>1, FreesAssumption
  <2> HIDE DEF m
  <2>2. Bytes(n.free) = Bytes(m.free) \cup Span(High)
    BY <1>1, <1>6, <2>1, FreeAddsBytes
  <2>3. QED
    BY <1>8, <2>2
<1>10. man = n /\ held = {} /\ last = 0
  BY DEF Init
<1>11. FreeBytes = Span(Low) \cup Span(High)
  BY <1>9, <1>10, InitIInv, FreeBytesKnown
<1>12. 0 \notin Span(Low) /\ 0 \notin Span(High)
  <2>1. Low.addr \in Nat /\ High.addr \in Nat
    BY <1>1 DEF Region
  <2>2. QED
    BY <1>1, <2>1 DEF Span
<1>13. QED
  BY <1>10, <1>11, <1>12 DEF NeverZero, Allocator!Init

\* memman_alloc_4k grants a free run, or refuses because there is none.
LEMMA AllocMaps ==
    ASSUME NoEmptyRequests, AInv, NEW size \in Sizes, Alloc(size)
    PROVE  NeverZero' /\ (Allocator!Grant(size) \/ Allocator!Deny(size))
<1> DEFINE s == RoundUp(size)
           a == AllocReturns(man, s)
<1>1. size \in Nat /\ size > 0
  BY SizesAssumption DEF NoEmptyRequests
<1>2. s \in Nat /\ s > 0
  BY <1>1, RoundUpType
<1>3. /\ Sound(man) /\ man.free \in Seq(Region) /\ Ordered(man.free)
      /\ FreeBytes = Bytes(man.free) /\ FreeBytes' = Bytes(man'.free)
      /\ 0 \notin FreeBytes /\ \A b \in held : b.addr > 0
  BY AllocKeepsIInv, FreeBytesKnown DEF AInv, IInv, NeverZero, Sound, ManType
<1>4. /\ man' = memman_alloc(man, s) /\ last' = a
      /\ held' = IF a = 0 THEN held ELSE held \cup {[addr |-> a, size |-> size]}
  BY DEF Alloc
<1>5. \A x : Allocator!Run(x, size) = x .. x + s - 1
  BY DEF Allocator!Run, RoundUp
<1> HIDE DEF s
<1>6. CASE Fits(man, s) = {}
  <2>1. man' = man /\ a = 0
    BY <1>4, <1>6 DEF memman_alloc, AllocReturns
  <2>2. last' = 0 /\ held' = held /\ FreeBytes' = FreeBytes
    BY <1>3, <1>4, <2>1
  <2>3. ASSUME NEW x \in FreeBytes PROVE ~ (Allocator!Run(x, size) \subseteq FreeBytes)
    <3>1. x \in Nat
      BY <1>3 DEF Bytes
    <3>2. SUFFICES ASSUME x .. x + s - 1 \subseteq Bytes(man.free) PROVE FALSE
      BY <1>3, <1>5
    <3>3. \E i \in 1 .. Len(man.free) : man.free[i].size >= s
      BY <1>2, <1>3, <3>1, <3>2, RunInOneEntry
    <3>4. QED
      BY <1>3, <1>6, <3>3, Entries DEF Fits
  <2>4. Allocator!Deny(size)
    BY <2>2, <2>3 DEF Allocator!Deny
  <2>5. QED
    BY <1>3, <2>2, <2>4 DEF NeverZero
<1>7. CASE Fits(man, s) # {}
  <2> DEFINE i == Min(Fits(man, s))
             b == [addr |-> man.free[i].addr, size |-> s]
  <2>1. i \in Fits(man, s)
    <3>1. Fits(man, s) \subseteq Nat
      BY <1>3, Entries DEF Fits
    <3>2. QED
      BY <1>7, <3>1, MinOfNats
  <2>2. man' = Take(man, i, s) /\ a = man.free[i].addr
    BY <1>4, <1>7 DEF memman_alloc, AllocReturns
  <2> HIDE DEF i, a
  <2>3. /\ Bytes(man'.free) = Bytes(man.free) \ Span(b)
        /\ Span(b) \subseteq Bytes(man.free) /\ b.addr \in Bytes(man.free)
    BY <1>2, <1>3, <2>1, <2>2, TakeRemovesBytes
  <2>4. a \in FreeBytes /\ a # 0 /\ a \in Nat /\ Span(b) = a .. a + s - 1
    BY <1>3, <2>2, <2>3 DEF Bytes, Span
  <2>5. held' = held \cup {[addr |-> a, size |-> size]} /\ last' = a
    BY <1>4, <2>4
  <2> HIDE DEF b
  <2>6. Allocator!Run(a, size) = Span(b)
    BY <1>5, <2>4
  <2>7. FreeBytes' = FreeBytes \ Span(b) /\ Span(b) \subseteq FreeBytes
    BY <1>3, <2>3
  <2>8. Allocator!Grant(size)
    BY <2>4, <2>5, <2>6, <2>7 DEF Allocator!Grant
  <2>9. \A c \in held' : c.addr > 0
    <3>1. [addr |-> a, size |-> size].addr > 0
      BY <2>4
    <3>2. QED
      BY <1>3, <2>5, <3>1
  <2>10. QED
    BY <1>3, <2>7, <2>8, <2>9 DEF NeverZero
<1>8. QED
  BY <1>6, <1>7

\* memman_free_4k gives the run back, or gives it up.
LEMMA FreeMaps ==
    ASSUME AInv, NEW b \in held, Free(b)
    PROVE  NeverZero' /\ Allocator!Release(b)
<1>1. /\ Sound(man) /\ b \in Region /\ b.size > 0 /\ Clear(Block(b), man.free)
      /\ FreeBytes = Bytes(man.free) /\ FreeBytes' = Bytes(man'.free)
      /\ 0 \notin FreeBytes /\ \A c \in held : c.addr > 0
  BY FreeKeepsIInv, FreeBytesKnown DEF AInv, IInv, NeverZero, TypeOK, Blocks
<1>2. /\ man' = memman_free(man, b.addr, RoundUp(b.size))
      /\ held' = held \ {b} /\ last' = last
  BY DEF Free
<1>3. /\ Block(b) \in Region /\ Block(b).size > 0
      /\ Block(b).addr = b.addr /\ Block(b).size = RoundUp(b.size)
  BY <1>1, BlockType
<1>4. Bytes(man'.free) \in {Bytes(man.free), Bytes(man.free) \cup Span(Block(b))}
  <2>1. man' = memman_free(man, Block(b).addr, Block(b).size)
    BY <1>2, <1>3
  <2>2. QED
    BY <1>1, <1>3, <2>1, FreeAddsBytes
<1>5. Allocator!Run(b.addr, b.size) = Span(Block(b))
  BY <1>3 DEF Allocator!Run, Span, RoundUp
<1>6. Allocator!Release(b)
  BY <1>1, <1>2, <1>4, <1>5 DEF Allocator!Release
<1>7. 0 \notin Span(Block(b))
  <2>1. b.addr \in Nat /\ b.addr > 0
    BY <1>1 DEF Region
  <2>2. QED
    BY <1>3, <2>1 DEF Span
<1>8. 0 \notin FreeBytes'
  BY <1>1, <1>4, <1>7
<1>9. QED
  BY <1>1, <1>2, <1>6, <1>8 DEF NeverZero

\* Every step of the manager is one of the allocator, or a stutter.
LEMMA NextMaps ==
    ASSUME NoEmptyRequests, AInv, [Next]_vars
    PROVE  AInv' /\ [Allocator!Next]_(Allocator!vars)
<1>1. IInv'
  BY NextIInv DEF AInv
<1>2. ASSUME NEW size \in Sizes, Alloc(size)
      PROVE  NeverZero' /\ [Allocator!Next]_(Allocator!vars)
  BY <1>2, AllocMaps DEF Allocator!Next
<1>3. ASSUME NEW b \in held, Free(b)
      PROVE  NeverZero' /\ [Allocator!Next]_(Allocator!vars)
  BY <1>3, FreeMaps DEF Allocator!Next
<1>4. CASE UNCHANGED vars
  <2>1. FreeBytes' = FreeBytes
    BY <1>4 DEF vars, FreeBytes, Span
  <2>2. held' = held /\ last' = last
    BY <1>4 DEF vars
  <2>3. NeverZero'
    BY <2>1, <2>2 DEF AInv, NeverZero
  <2>4. [Allocator!Next]_(Allocator!vars)
    BY ONLY <2>1, <2>2 DEF Allocator!vars
  <2>5. QED
    BY <1>1, <2>3, <2>4 DEF AInv
<1>5. QED
  BY <1>1, <1>2, <1>3, <1>4 DEF AInv, Next

\* memory.c implements an allocator of addresses: a request is granted a free run
\* of its rounded size whenever there is one, and a release gives back exactly
\* that run, whichever entries it merges with (memory.c:57-125).
THEOREM AllocatesFreeRuns ==
    ASSUME NoEmptyRequests
    PROVE  Spec => Implements
<1>1. Init => AInv /\ Allocator!Init
  BY InitIInv, InitMaps DEF AInv
<1>2. AInv /\ [Next]_vars => AInv' /\ [Allocator!Next]_(Allocator!vars)
  BY NextMaps
<1>3. QED
  BY <1>1, <1>2, PTL DEF Spec, Implements, Allocator!Spec

-----------------------------------------------------------------------------
(* Sums of sizes are numbers of addresses.                                  *)

\* The sum over a set, as MapThenSumSet computes it: an element, then the rest.
Pick(s) == CHOOSE x \in s : TRUE
Sums(g, w, S) ==
    \A s \in SUBSET S : g[s] = IF s = {} THEN 0 ELSE w[Pick(s)] + g[s \ {Pick(s)}]

\* The addresses of some of the spans.
Covered(P, s) == UNION {P[x] : x \in s}

\* Finitely many spans, apart from each other, of known sizes.
Tiles(P, w, S) ==
    /\ IsFiniteSet(S)
    /\ \A x \in S : w[x] \in Nat /\ IsFiniteSet(P[x]) /\ Cardinality(P[x]) = w[x]
    /\ \A x, y \in S : x # y => P[x] \cap P[y] = {}

\* Finitely many spans cover finitely many addresses.
LEMMA CoverFinite ==
    ASSUME NEW P, NEW w, NEW S, Tiles(P, w, S), NEW s \in SUBSET S
    PROVE  IsFiniteSet(Covered(P, s))
<1> DEFINE Q == {P[y] : y \in s}
           f == [y \in s |-> P[y]]
<1>1. IsFiniteSet(s)
  BY FS_Subset DEF Tiles
<1>2. f \in Surjection(s, Q)
  BY DEF Surjection
<1>3. IsFiniteSet(Q)
  BY <1>1, <1>2, FS_Surjection, Zenon
<1>4. \A T \in Q : IsFiniteSet(T)
  BY DEF Tiles
<1> HIDE DEF Q
<1>5. IsFiniteSet(UNION Q)
  BY <1>3, <1>4, FS_UNION
<1>6. QED
  BY <1>5 DEF Covered, Q

\* Taking one span away takes its size away.
LEMMA CoverOneLess ==
    ASSUME NEW P, NEW w, NEW S, Tiles(P, w, S), NEW s \in SUBSET S, NEW x \in s
    PROVE  Cardinality(Covered(P, s)) = w[x] + Cardinality(Covered(P, s \ {x}))
<1>1. PICK A, B : A = Covered(P, s \ {x}) /\ B = P[x]
  OBVIOUS
<1>2. s \ {x} \in SUBSET S
  OBVIOUS
<1>3. IsFiniteSet(A) /\ Cardinality(A) \in Nat
  BY <1>1, <1>2, CoverFinite, FS_CardinalityType
<1>4. IsFiniteSet(B) /\ Cardinality(B) = w[x] /\ w[x] \in Nat
  BY <1>1 DEF Tiles
<1>5. Covered(P, s) = A \cup B
  BY <1>1 DEF Covered
<1>6. A \cap B = {}
  BY <1>1 DEF Covered, Tiles
<1>7. Cardinality(A \cap B) = 0
  BY <1>6, FS_EmptySet
<1>8. Cardinality(A \cup B) = Cardinality(A) + Cardinality(B) - Cardinality(A \cap B)
  BY <1>3, <1>4, FS_Union
<1>9. Cardinality(A \cup B) = w[x] + Cardinality(A)
  BY <1>3, <1>4, <1>7, <1>8
<1>10. QED
  BY ONLY <1>1, <1>5, <1>9

\* Counting addresses is a way to sum the sizes.
LEMMA CountingSums ==
    ASSUME NEW P, NEW w, NEW S, Tiles(P, w, S)
    PROVE  Sums([s \in SUBSET S |-> Cardinality(Covered(P, s))], w, S)
<1> DEFINE g == [s \in SUBSET S |-> Cardinality(Covered(P, s))]
<1>1. ASSUME NEW s \in SUBSET S
      PROVE  g[s] = IF s = {} THEN 0 ELSE w[Pick(s)] + g[s \ {Pick(s)}]
  <2>1. CASE s = {}
    <3>1. Covered(P, s) = {}
      BY <2>1 DEF Covered
    <3>2. QED
      BY <2>1, <3>1, FS_EmptySet
  <2>2. CASE s # {}
    <3>1. Pick(s) \in s
      BY <2>2, Zenon DEF Pick
    <3>2. Cardinality(Covered(P, s)) = w[Pick(s)] + Cardinality(Covered(P, s \ {Pick(s)}))
      BY <3>1, CoverOneLess
    <3>3. s \ {Pick(s)} \in SUBSET S
      OBVIOUS
    <3>4. g[s] = Cardinality(Covered(P, s)) /\ g[s \ {Pick(s)}] = Cardinality(Covered(P, s \ {Pick(s)}))
      BY <3>3
    <3>5. QED
      BY <2>2, <3>2, <3>4
  <2>3. QED
    BY <2>1, <2>2
<1>2. QED
  BY <1>1, Zenon DEF Sums

\* It is the only one.
LEMMA SumIsCount ==
    ASSUME NEW P, NEW w, NEW S, Tiles(P, w, S), NEW g, Sums(g, w, S)
    PROVE  g[S] = Cardinality(Covered(P, S))
<1> DEFINE c == [s \in SUBSET S |-> Cardinality(Covered(P, s))]
           Wrong == {n \in Nat : \E s \in SUBSET S : Cardinality(s) = n /\ g[s] # c[s]}
<1>1. Sums(c, w, S)
  BY CountingSums
<1>2. \A s \in SUBSET S : IsFiniteSet(s) /\ Cardinality(s) \in Nat
  BY FS_Subset, FS_CardinalityType DEF Tiles
<1>3. c[S] = Cardinality(Covered(P, S))
  OBVIOUS
<1> HIDE DEF c
<1>4. SUFFICES ASSUME Wrong # {} PROVE FALSE
  <2>1. S \in SUBSET S
    OBVIOUS
  <2>2. g[S] = c[S]
    BY <1>2, <1>4, <2>1
  <2>3. QED
    BY <1>3, <2>2
<1>5. Min(Wrong) \in Wrong /\ \A n \in Wrong : Min(Wrong) <= n
  BY <1>4, MinOfNats
<1>6. PICK least : least \in Wrong /\ \A n \in Wrong : least <= n
  BY <1>5
<1>7. PICK s \in SUBSET S : Cardinality(s) = least /\ g[s] # c[s]
  BY <1>6
<1>8. s # {}
  BY <1>1, <1>7 DEF Sums
<1>9. PICK x \in s : x = Pick(s)
  BY <1>8, Zenon DEF Pick
<1>10. /\ g[s] = w[x] + g[s \ {x}]
       /\ c[s] = w[x] + c[s \ {x}]
  BY <1>1, <1>8, <1>9 DEF Sums
<1>11. g[s \ {x}] # c[s \ {x}]
  BY <1>7, <1>10
<1>12. s \ {x} \in SUBSET S
  OBVIOUS
<1>13. Cardinality(s \ {x}) \in Wrong
  BY <1>2, <1>11, <1>12
<1>14. Cardinality(s \ {x}) = Cardinality(s) - 1
  BY <1>2, FS_RemoveElement
<1>15. least <= Cardinality(s \ {x})
  BY <1>6, <1>13
<1>16. Cardinality(s) \in Nat
  BY <1>2
<1>17. QED
  BY ONLY <1>7, <1>14, <1>15, <1>16

\* The addresses of a region are as many as its size.
LEMMA SpanSize ==
    ASSUME NEW r \in Region
    PROVE  r.size \in Nat /\ IsFiniteSet(Span(r)) /\ Cardinality(Span(r)) = r.size
<1>1. PICK a \in Nat, n \in Nat : a = r.addr /\ n = r.size
  BY DEF Region
<1>2. Span(r) = a .. (a + n - 1)
  BY <1>1 DEF Span
<1>3. a \in Int /\ a + n - 1 \in Int
  OBVIOUS
<1>4. /\ IsFiniteSet(a .. (a + n - 1))
      /\ Cardinality(a .. (a + n - 1)) = IF a > a + n - 1 THEN 0 ELSE (a + n - 1) - a + 1
  BY ONLY <1>3, FS_Interval
<1>5. (IF a > a + n - 1 THEN 0 ELSE (a + n - 1) - a + 1) = n
  OBVIOUS
<1>6. QED
  BY <1>1, <1>2, <1>4, <1>5

\* memman_total counts the addresses of the list.
LEMMA TotalIsCount ==
    ASSUME NEW m, Sound(m)
    PROVE  /\ IsFiniteSet(Bytes(m.free))
           /\ memman_total(m) = Cardinality(Bytes(m.free))
<1>1. PICK l \in Seq(Region) : l = m.free /\ Ordered(l)
  BY DEF Sound, ManType
<1>2. /\ Len(l) \in Nat /\ DOMAIN l = 1 .. Len(l)
      /\ \A i \in 1 .. Len(l) : l[i] \in Region /\ l[i].addr \in Nat /\ l[i].size \in Nat
  BY Entries
<1> DEFINE D == DOMAIN l
           P == [i \in D |-> Span(l[i])]
           w == [i \in D |-> l[i].size]
           c == [s \in SUBSET D |-> Cardinality(Covered(P, s))]
           IsSum(g) == g = [s \in SUBSET D |-> IF s = {} THEN 0
                                ELSE m.free[Pick(s)].size + g[s \ {Pick(s)}]]
           g0 == CHOOSE g : IsSum(g)
<1>3. Tiles(P, w, D)
  <2>1. IsFiniteSet(1 .. Len(l))
    BY <1>2, FS_Interval
  <2>2. IsFiniteSet(D)
    BY <1>2, <2>1
  <2>3. ASSUME NEW i \in D
        PROVE  w[i] \in Nat /\ IsFiniteSet(P[i]) /\ Cardinality(P[i]) = w[i]
    <3>1. l[i] \in Region
      BY <1>2
    <3>2. l[i].size \in Nat /\ IsFiniteSet(Span(l[i])) /\ Cardinality(Span(l[i])) = l[i].size
      BY <3>1, SpanSize
    <3>3. w[i] = l[i].size /\ P[i] = Span(l[i])
      OBVIOUS
    <3>4. QED
      BY <3>2, <3>3
  <2>4. ASSUME NEW i \in D, NEW j \in D, i # j PROVE P[i] \cap P[j] = {}
    <3>1. l[i] \in Region /\ l[j] \in Region /\ P[i] = Span(l[i]) /\ P[j] = Span(l[j])
      BY <1>2
    <3>2. /\ l[i].addr \in Nat /\ l[i].size \in Nat
          /\ l[j].addr \in Nat /\ l[j].size \in Nat
          /\ i \in 1 .. Len(l) /\ j \in 1 .. Len(l)
      BY <1>2
    <3>3. Apart(l[i], l[j])
      <4>1. CASE i < j
        <5>1. l[i].addr + l[i].size < l[j].addr
          BY <1>1, <3>2, <4>1 DEF Ordered
        <5>2. QED
          BY <3>2, <5>1 DEF Apart
      <4>2. CASE j < i
        <5>1. l[j].addr + l[j].size < l[i].addr
          BY <1>1, <3>2, <4>2 DEF Ordered
        <5>2. QED
          BY <3>2, <5>1 DEF Apart
      <4>3. QED
        BY <1>2, <2>4, <3>2, <4>1, <4>2
    <3>4. QED
      BY <3>1, <3>3, SpansDisjoint
  <2> HIDE DEF D, P, w
  <2>5. QED
    BY <2>2, <2>3, <2>4 DEF Tiles
<1>4. Covered(P, D) = Bytes(l)
  <2>1. UNION {Span(l[i]) : i \in DOMAIN l} = Bytes(l)
    BY BytesOfList
  <2>2. QED
    BY <2>1 DEF Covered
<1>5. \A s \in SUBSET D : s # {} => w[Pick(s)] = m.free[Pick(s)].size
  <2>1. ASSUME NEW s \in SUBSET D, s # {} PROVE w[Pick(s)] = m.free[Pick(s)].size
    <3>1. Pick(s) \in D
      BY <2>1, Zenon DEF Pick
    <3>2. QED
      BY <1>1, <3>1
  <2>2. QED
    BY <2>1
<1>6. memman_total(m) = g0[D]
  BY <1>1, Zenon DEF memman_total, MapThenSumSet, MapThenFoldSet, Pick
<1> HIDE DEF P, w, D
<1>7. IsSum(c)
  <2>1. Sums(c, w, D)
    BY <1>3, CountingSums
  <2>2. ASSUME NEW s \in SUBSET D
        PROVE  c[s] = IF s = {} THEN 0 ELSE m.free[Pick(s)].size + c[s \ {Pick(s)}]
    BY <1>5, <2>1 DEF Sums
  <2>3. c = [s \in SUBSET D |-> c[s]]
    OBVIOUS
  <2> HIDE DEF c
  <2>4. QED
    BY <2>2, <2>3, Zenon
<1>8. IsSum(g0)
  <2> HIDE DEF c, IsSum
  <2>1. QED
    BY <1>7, Zenon
<1>9. Sums(g0, w, D)
  <2>1. g0 = [s \in SUBSET D |-> IF s = {} THEN 0
                                ELSE m.free[Pick(s)].size + g0[s \ {Pick(s)}]]
    BY <1>8, Zenon
  <2> HIDE DEF g0
  <2>2. \A s \in SUBSET D : g0[s] = IF s = {} THEN 0 ELSE m.free[Pick(s)].size + g0[s \ {Pick(s)}]
    BY ONLY <2>1, Zenon
  <2>3. QED
    BY <1>5, <2>2 DEF Sums
<1> HIDE DEF g0, IsSum, c
<1>10. g0[D] = Cardinality(Covered(P, D))
  BY <1>3, <1>9, SumIsCount
<1>11. IsFiniteSet(Covered(P, D))
  <2>1. D \in SUBSET D
    OBVIOUS
  <2>2. QED
    BY <1>3, <2>1, CoverFinite
<1>12. QED
  BY <1>1, <1>4, <1>6, <1>10, <1>11

\* The addresses that callers hold, and how many they are.
Taken(B) == UNION {Span(Block(b)) : b \in B}
HeldSum(B) == MapThenSumSet(LAMBDA b : RoundUp(b.size), B)

\* What the blocks of callers add up to is the number of their addresses.
LEMMA HeldIsCount ==
    ASSUME NEW B \in SUBSET Region, IsFiniteSet(B), \A b \in B : b.size > 0,
           \A b, c \in B : b # c => Apart(Block(b), Block(c))
    PROVE  /\ IsFiniteSet(Taken(B))
           /\ HeldSum(B) = Cardinality(Taken(B))
<1>1. \A b \in B : Block(b) \in Region /\ Block(b).size = RoundUp(b.size)
  BY BlockType
<1> DEFINE P == [b \in B |-> Span(Block(b))]
           w == [b \in B |-> RoundUp(b.size)]
           c == [s \in SUBSET B |-> Cardinality(Covered(P, s))]
           IsSum(g) == g = [s \in SUBSET B |-> IF s = {} THEN 0
                                ELSE RoundUp(Pick(s).size) + g[s \ {Pick(s)}]]
           g0 == CHOOSE g : IsSum(g)
<1>3. Tiles(P, w, B)
  <2>1. ASSUME NEW b \in B
        PROVE  w[b] \in Nat /\ IsFiniteSet(P[b]) /\ Cardinality(P[b]) = w[b]
    <3>1. Block(b) \in Region /\ Block(b).size = RoundUp(b.size)
      BY <1>1
    <3>2. /\ Block(b).size \in Nat /\ IsFiniteSet(Span(Block(b)))
          /\ Cardinality(Span(Block(b))) = Block(b).size
      BY <3>1, SpanSize
    <3>3. w[b] = RoundUp(b.size) /\ P[b] = Span(Block(b))
      OBVIOUS
    <3>4. QED
      BY <3>1, <3>2, <3>3
  <2>2. ASSUME NEW b \in B, NEW d \in B, b # d PROVE P[b] \cap P[d] = {}
    <3>1. /\ Block(b) \in Region /\ Block(d) \in Region
          /\ P[b] = Span(Block(b)) /\ P[d] = Span(Block(d)) /\ Apart(Block(b), Block(d))
      BY <1>1, <2>2
    <3>2. QED
      BY <3>1, SpansDisjoint
  <2> HIDE DEF P, w
  <2>3. QED
    BY <2>1, <2>2 DEF Tiles
<1>4. Covered(P, B) = Taken(B)
  BY DEF Covered, Taken
<1>5. \A s \in SUBSET B : s # {} => w[Pick(s)] = RoundUp(Pick(s).size)
  <2>1. ASSUME NEW s \in SUBSET B, s # {} PROVE w[Pick(s)] = RoundUp(Pick(s).size)
    <3>1. Pick(s) \in B
      BY <2>1, Zenon DEF Pick
    <3>2. QED
      BY <3>1
  <2>2. QED
    BY <2>1
<1>6. HeldSum(B) = g0[B]
  BY Zenon DEF HeldSum, MapThenSumSet, MapThenFoldSet, Pick
<1> HIDE DEF P, w
<1>7. IsSum(c)
  <2>1. Sums(c, w, B)
    BY <1>3, CountingSums
  <2>2. ASSUME NEW s \in SUBSET B
        PROVE  c[s] = IF s = {} THEN 0 ELSE RoundUp(Pick(s).size) + c[s \ {Pick(s)}]
    BY <1>5, <2>1 DEF Sums
  <2>3. c = [s \in SUBSET B |-> c[s]]
    OBVIOUS
  <2> HIDE DEF c
  <2>4. QED
    BY <2>2, <2>3, Zenon
<1>8. IsSum(g0)
  <2> HIDE DEF c, IsSum
  <2>1. QED
    BY <1>7, Zenon
<1>9. Sums(g0, w, B)
  <2>1. g0 = [s \in SUBSET B |-> IF s = {} THEN 0
                                ELSE RoundUp(Pick(s).size) + g0[s \ {Pick(s)}]]
    BY <1>8, Zenon
  <2> HIDE DEF g0
  <2>2. \A s \in SUBSET B : g0[s] = IF s = {} THEN 0 ELSE RoundUp(Pick(s).size) + g0[s \ {Pick(s)}]
    BY ONLY <2>1, Zenon
  <2>3. QED
    BY <1>5, <2>2 DEF Sums
<1> HIDE DEF g0, IsSum, c
<1>10. g0[B] = Cardinality(Covered(P, B))
  BY <1>3, <1>9, SumIsCount
<1>11. IsFiniteSet(Covered(P, B))
  <2>1. B \in SUBSET B
    OBVIOUS
  <2>2. QED
    BY <1>3, <2>1, CoverFinite
<1>12. QED
  BY <1>4, <1>6, <1>10, <1>11

\* Regions apart from a list share no address with it.
LEMMA ClearDisjoint ==
    ASSUME NEW l \in Seq(Region), NEW b \in Region, Clear(b, l)
    PROVE  Bytes(l) \cap Span(b) = {}
<1>1. SUFFICES ASSUME NEW x \in Bytes(l), x \in Span(b) PROVE FALSE
  OBVIOUS
<1>2. x \in Nat /\ Holds(x, b)
  BY <1>1, SpanHolds
<1>3. PICK i \in 1 .. Len(l) : Holds(x, l[i])
  BY <1>1 DEF Bytes, On
<1>4. /\ b.addr \in Nat /\ b.size \in Nat
      /\ l[i].addr \in Nat /\ l[i].size \in Nat
  BY Entries DEF Region
<1>5. Apart(b, l[i])
  BY DEF Clear
<1>6. QED
  BY <1>2, <1>3, <1>4, <1>5 DEF Apart, Holds

\* memman_free: the block's size goes to the total or to lostsize.
LEMMA FreeCounts ==
    ASSUME NEW m, Sound(m), NEW b \in Region, b.size > 0, Clear(b, m.free),
           NEW n, n = memman_free(m, b.addr, b.size)
    PROVE  /\ memman_total(m) \in Nat /\ memman_total(n) \in Nat
           /\ memman_total(n) + n.lostsize = memman_total(m) + b.size + m.lostsize
<1>1. Sound(n) /\ m.free \in Seq(Region) /\ m.lostsize \in Nat /\ n.lostsize \in Nat
  BY FreeKeepsSound DEF Sound, ManType
<1>2. PICK A, B, C : A = Bytes(m.free) /\ B = Span(b) /\ C = Bytes(n.free)
  OBVIOUS
<1>3. IsFiniteSet(A) /\ memman_total(m) = Cardinality(A) /\ Cardinality(A) \in Nat
  BY <1>2, TotalIsCount, FS_CardinalityType
<1>4. IsFiniteSet(C) /\ memman_total(n) = Cardinality(C) /\ Cardinality(C) \in Nat
  BY <1>1, <1>2, TotalIsCount, FS_CardinalityType
<1>5. IsFiniteSet(B) /\ Cardinality(B) = b.size /\ b.size \in Nat
  BY <1>2, SpanSize
<1>6. A \cap B = {}
  BY <1>1, <1>2, ClearDisjoint
<1>7. Cardinality(A \cap B) = 0
  BY <1>6, FS_EmptySet
<1>8. Cardinality(A \cup B) = Cardinality(A) + Cardinality(B) - Cardinality(A \cap B)
  BY <1>3, <1>5, FS_Union
<1>9. \/ C = A /\ n.lostsize = m.lostsize + b.size
      \/ C = A \cup B /\ n.lostsize = m.lostsize
  BY <1>2, FreeAddsBytes
<1>10. CASE C = A /\ n.lostsize = m.lostsize + b.size
  BY <1>1, <1>3, <1>4, <1>5, <1>10
<1>11. CASE C = A \cup B /\ n.lostsize = m.lostsize
  <2>1. Cardinality(C) = Cardinality(A) + b.size
    BY <1>3, <1>5, <1>7, <1>8, <1>11
  <2>2. QED
    BY <1>1, <1>3, <1>4, <1>5, <1>11, <2>1
<1>12. QED
  BY <1>9, <1>10, <1>11

\* memman_alloc: the total goes down by the size of the block.
LEMMA TakeCounts ==
    ASSUME NEW m, Sound(m), NEW size \in Nat, size > 0, NEW i \in Fits(m, size),
           NEW n, n = Take(m, i, size)
    PROVE  /\ memman_total(m) \in Nat /\ memman_total(n) \in Nat
           /\ memman_total(n) + size = memman_total(m)
           /\ n.lostsize = m.lostsize
<1>1. PICK b : b = [addr |-> m.free[i].addr, size |-> size]
  OBVIOUS
<1>2. Sound(n) /\ b \in Region /\ b.size = size /\ m \in ManType
  BY <1>1, TakeKeepsSound DEF Sound
<1>3. PICK A, B, C : A = Bytes(m.free) /\ B = Span(b) /\ C = Bytes(n.free)
  OBVIOUS
<1>4. C = A \ B /\ B \subseteq A
  BY <1>1, <1>3, TakeRemovesBytes
<1>5. IsFiniteSet(A) /\ memman_total(m) = Cardinality(A) /\ Cardinality(A) \in Nat
  BY <1>3, TotalIsCount, FS_CardinalityType
<1>6. IsFiniteSet(C) /\ memman_total(n) = Cardinality(C) /\ Cardinality(C) \in Nat
  BY <1>2, <1>3, TotalIsCount, FS_CardinalityType
<1>7. Cardinality(B) = size
  BY <1>2, <1>3, SpanSize
<1>8. A \cap B = B
  BY <1>4
<1>9. Cardinality(A \ B) = Cardinality(A) - Cardinality(A \cap B)
  BY <1>5, FS_Difference
<1>10. Cardinality(C) + size = Cardinality(A)
  <2>1. Cardinality(C) = Cardinality(A) - size
    BY <1>4, <1>7, <1>8, <1>9
  <2>2. QED
    BY ONLY <1>5, <2>1, size \in Nat
<1>11. n.lostsize = m.lostsize
  BY <1>2 DEF Take, ManType
<1>12. QED
  BY <1>5, <1>6, <1>10, <1>11

\* One block more adds its rounded size.
LEMMA HeldOneMore ==
    ASSUME NEW B, NEW r, r \notin B, B \cup {r} \subseteq Region, IsFiniteSet(B),
           \A b \in B \cup {r} : b.size > 0,
           \A b, c \in B \cup {r} : b # c => Apart(Block(b), Block(c))
    PROVE  /\ HeldSum(B) \in Nat
           /\ HeldSum(B \cup {r}) = HeldSum(B) + RoundUp(r.size)
<1>1. /\ B \in SUBSET Region /\ \A b \in B : b.size > 0
      /\ \A b, c \in B : b # c => Apart(Block(b), Block(c))
  OBVIOUS
<1>2. PICK T, U, R : T = Taken(B) /\ U = Taken(B \cup {r}) /\ R = Span(Block(r))
  OBVIOUS
<1>3. IsFiniteSet(T) /\ HeldSum(B) = Cardinality(T) /\ Cardinality(T) \in Nat
  BY <1>1, <1>2, HeldIsCount, FS_CardinalityType
<1>4. HeldSum(B \cup {r}) = Cardinality(U)
  <2>1. IsFiniteSet(B \cup {r})
    BY FS_AddElement
  <2>2. B \cup {r} \in SUBSET Region
    OBVIOUS
  <2>3. QED
    BY <1>2, <2>1, <2>2, HeldIsCount
<1>5. /\ Block(r) \in Region /\ Block(r).size = RoundUp(r.size)
      /\ \A b \in B : Block(b) \in Region
  BY BlockType
<1>6. IsFiniteSet(R) /\ Cardinality(R) = RoundUp(r.size) /\ RoundUp(r.size) \in Nat
  BY <1>2, <1>5, SpanSize
<1>7. U = T \cup R
  BY <1>2 DEF Taken
<1>8. T \cap R = {}
  <2>1. ASSUME NEW b \in B PROVE Span(Block(b)) \cap R = {}
    <3>1. Apart(Block(b), Block(r))
      OBVIOUS
    <3>2. QED
      BY <1>2, <1>5, <3>1, SpansDisjoint
  <2>2. QED
    BY <1>2, <2>1 DEF Taken
<1>9. Cardinality(T \cap R) = 0
  BY <1>8, FS_EmptySet
<1>10. Cardinality(T \cup R) = Cardinality(T) + Cardinality(R) - Cardinality(T \cap R)
  BY <1>3, <1>6, FS_Union
<1>11. Cardinality(U) = Cardinality(T) + RoundUp(r.size)
  BY <1>3, <1>6, <1>7, <1>9, <1>10
<1>12. QED
  BY ONLY <1>3, <1>4, <1>11

-----------------------------------------------------------------------------
(* Nothing is lost uncounted.                                               *)

\* What a step needs besides the account itself.
CInv == AInv /\ IsFiniteSet(held) /\ Conserved

\* The account, in terms of the two sums.
LEMMA ConservedMeans ==
    /\ Conserved <=> memman_total(man) + HeldSum(held) + man.lostsize = Low.size + High.size
    /\ Conserved' <=> memman_total(man') + HeldSum(held') + man'.lostsize = Low.size + High.size
<1>1. Conserved <=> memman_total(man) + HeldSum(held) + man.lostsize = Low.size + High.size
  BY DEF Conserved, HeldSum, MapThenSumSet, MapThenFoldSet
<1>2. Conserved' <=> memman_total(man') + HeldSum(held') + man'.lostsize = Low.size + High.size
  BY DEF Conserved, HeldSum, MapThenSumSet, MapThenFoldSet
<1>3. QED
  BY <1>1, <1>2

\* At boot everything is free.
LEMMA InitCInv == Init => CInv
<1> SUFFICES ASSUME Init PROVE CInv
  OBVIOUS
<1>1. PICK m, n : m = memman_free(memman_init, Low.addr, Low.size)
                  /\ n = memman_free(m, High.addr, High.size)
  OBVIOUS
<1>2. man = n /\ held = {}
  BY <1>1 DEF Init
<1>3. /\ Low \in Region /\ High \in Region /\ Low.size > 0 /\ High.size > 0
      /\ Low.addr + Low.size < High.addr /\ Low.size \in Nat /\ High.size \in Nat
  BY RegionsAssumption DEF Region
<1>4. memman_init.free = << >> /\ Len(<< >>) = 0 /\ memman_init.lostsize = 0
  BY DEF memman_init
<1>5. Sound(memman_init)
  <2>1. memman_init \in ManType
    BY FreesAssumption DEF memman_init, ManType
  <2>2. Ordered(memman_init.free)
    BY <1>4 DEF Ordered
  <2>3. Len(memman_init.free) <= Frees
    BY <1>4, FreesAssumption
  <2>4. QED
    BY <2>1, <2>2, <2>3 DEF Sound
<1>6. Clear(Low, memman_init.free) /\ Clear(High, memman_init.free)
  BY <1>4 DEF Clear
<1>7. Apart(High, Low)
  BY <1>3 DEF Apart, Region
<1>8. Sound(m) /\ Clear(High, m.free)
  BY <1>1, <1>3, <1>5, <1>6, <1>7, FreeKeepsSound
<1>9. memman_total(memman_init) = 0
  <2>1. Bytes(memman_init.free) = {}
    BY <1>4 DEF Bytes, On
  <2>2. QED
    BY <1>5, <2>1, TotalIsCount, FS_EmptySet
<1>10. memman_total(m) + m.lostsize = memman_total(memman_init) + Low.size + memman_init.lostsize
  BY <1>1, <1>3, <1>5, <1>6, FreeCounts
<1>11. /\ memman_total(n) \in Nat /\ memman_total(m) \in Nat
       /\ memman_total(n) + n.lostsize = memman_total(m) + High.size + m.lostsize
  BY <1>1, <1>3, <1>8, FreeCounts
<1>12. m.lostsize \in Nat /\ n.lostsize \in Nat
  <2>1. IInv
    BY InitIInv
  <2>2. QED
    BY <1>2, <1>8, <2>1 DEF IInv, Sound, ManType
<1>13. HeldSum({}) = 0
  <2>1. Taken({}) = {}
    BY DEF Taken
  <2>2. IsFiniteSet({}) /\ Cardinality({}) = 0
    BY FS_EmptySet
  <2>3. HeldSum({}) = Cardinality(Taken({}))
    BY <2>2, HeldIsCount
  <2>4. QED
    BY <2>1, <2>2, <2>3
<1>14. memman_total(n) + 0 + n.lostsize = Low.size + High.size
  BY <1>3, <1>4, <1>9, <1>10, <1>11, <1>12
<1>15. Conserved
  BY <1>2, <1>13, <1>14, ConservedMeans
<1>16. QED
  BY <1>2, <1>15, InitIInv, InitMaps, FS_EmptySet DEF CInv, AInv

\* What memman_alloc_4k hands out leaves the list.
LEMMA AllocConserves ==
    ASSUME NoEmptyRequests, CInv, NEW size \in Sizes, Alloc(size)
    PROVE  IsFiniteSet(held') /\ Conserved'
<1>1. /\ IsFiniteSet(held) /\ Conserved /\ 0 \notin FreeBytes
      /\ Sound(man) /\ man.free \in Seq(Region) /\ man.lostsize \in Nat
      /\ FreeBytes = Bytes(man.free)
      /\ held \subseteq Region
      /\ \A b \in held : b.size > 0 /\ Clear(Block(b), man.free)
      /\ \A b, c \in held : b # c => Apart(Block(b), Block(c))
  BY FreeBytesKnown DEF CInv, AInv, NeverZero, IInv, TypeOK, Blocks, Sound, ManType
<1>2. PICK s, a : s = RoundUp(size) /\ a = AllocReturns(man, s)
  OBVIOUS
<1>3. size \in Nat /\ size > 0 /\ s \in Nat /\ s > 0
  BY <1>2, SizesAssumption, RoundUpType DEF NoEmptyRequests
<1>4. /\ man' = memman_alloc(man, s)
      /\ held' = IF a = 0 THEN held ELSE held \cup {[addr |-> a, size |-> size]}
  BY <1>2 DEF Alloc
<1>5. CASE Fits(man, s) = {}
  <2>1. man' = man /\ held' = held
    BY <1>2, <1>4, <1>5 DEF memman_alloc, AllocReturns
  <2>2. QED
    BY <1>1, <2>1, ConservedMeans
<1>6. CASE Fits(man, s) # {}
  <2>1. Fits(man, s) \subseteq Nat
    BY <1>1, Entries DEF Fits
  <2>2. Min(Fits(man, s)) \in Fits(man, s)
    BY <1>6, <2>1, MinOfNats
  <2>3. PICK i \in Fits(man, s) : i = Min(Fits(man, s))
    BY <2>2
  <2>4. man' = Take(man, i, s) /\ a = man.free[i].addr
    BY <1>2, <1>4, <1>6, <2>3 DEF memman_alloc, AllocReturns
  <2>5. PICK b : b = [addr |-> a, size |-> s]
    OBVIOUS
  <2>6. b \in Region /\ Span(b) \subseteq Bytes(man.free) /\ b.addr \in Bytes(man.free)
    BY <1>1, <1>3, <2>4, <2>5, TakeKeepsSound, TakeRemovesBytes
  <2>7. a \in Nat /\ a # 0
    BY <1>1, <2>5, <2>6 DEF Bytes
  <2>8. PICK r \in Region : r = [addr |-> a, size |-> size] /\ r.size = size /\ r.addr = a
    BY <1>3, <2>7, RegionMade
  <2>9. Block(r) = b
    BY <1>2, <2>5, <2>8 DEF Block
  <2>10. held' = held \cup {r}
    BY <1>4, <2>7, <2>8
  <2>11. i \in 1 .. Len(man.free) /\ man.free[i] \in Region
    BY <1>1, Entries DEF Fits
  <2>12. ASSUME NEW c \in held PROVE Apart(Block(c), b) /\ Apart(b, Block(c))
    <3>1. c \in Region /\ c.size > 0 /\ Clear(Block(c), man.free)
      BY <1>1
    <3>2. Block(c) \in Region
      BY <3>1, BlockType
    <3>3. Apart(Block(c), b)
      BY <1>1, <1>3, <2>4, <2>5, <3>1, <3>2, TakeKeepsSound
    <3>4. QED
      BY <3>3 DEF Apart
  <2>13. r \notin held
    <3>1. b.addr \in Nat /\ b.size > 0 /\ b.size \in Nat
      BY <1>3, <2>5, <2>7
    <3>2. ~ Apart(b, b)
      BY <3>1 DEF Apart
    <3>3. QED
      BY <2>9, <2>12, <3>2
  <2>14. HeldSum(held) \in Nat /\ HeldSum(held \cup {r}) = HeldSum(held) + s
    <3>1. held \cup {r} \subseteq Region
      BY <1>1
    <3>2. \A c \in held \cup {r} : c.size > 0
      BY <1>1, <1>3, <2>8
    <3>3. \A c, d \in held \cup {r} : c # d => Apart(Block(c), Block(d))
      BY <1>1, <2>9, <2>12
    <3>4. RoundUp(r.size) = s
      BY <1>2, <2>8
    <3>5. /\ HeldSum(held) \in Nat
          /\ HeldSum(held \cup {r}) = HeldSum(held) + RoundUp(r.size)
      BY ONLY <1>1, <2>13, <3>1, <3>2, <3>3, HeldOneMore
    <3>6. QED
      BY <3>4, <3>5
  <2>15. /\ memman_total(man) \in Nat /\ memman_total(man') \in Nat
         /\ memman_total(man') + s = memman_total(man)
         /\ man'.lostsize = man.lostsize
    BY <1>1, <1>3, <2>4, TakeCounts
  <2>16. memman_total(man') + HeldSum(held') + man'.lostsize
             = memman_total(man) + HeldSum(held) + man.lostsize
    BY <1>1, <1>3, <2>10, <2>14, <2>15
  <2>17. IsFiniteSet(held')
    BY <1>1, <2>10, FS_AddElement
  <2>18. QED
    BY <1>1, <2>16, <2>17, ConservedMeans
<1>7. QED
  BY <1>5, <1>6

\* What memman_free_4k takes back goes on the list or is counted as lost.
LEMMA FreeConserves ==
    ASSUME CInv, NEW b \in held, Free(b)
    PROVE  IsFiniteSet(held') /\ Conserved'
<1>1. /\ IsFiniteSet(held) /\ Conserved
      /\ Sound(man) /\ man.lostsize \in Nat
      /\ held \subseteq Region
      /\ \A c \in held : c.size > 0 /\ Clear(Block(c), man.free)
      /\ \A c, d \in held : c # d => Apart(Block(c), Block(d))
  BY DEF CInv, AInv, IInv, TypeOK, Blocks, Sound, ManType
<1>2. /\ man' = memman_free(man, b.addr, RoundUp(b.size))
      /\ held' = held \ {b}
  BY DEF Free
<1>3. /\ Block(b) \in Region /\ Block(b).size > 0 /\ Block(b).size \in Nat
      /\ Block(b).addr = b.addr /\ Block(b).size = RoundUp(b.size)
  BY <1>1, BlockType DEF Region
<1>4. man'.lostsize \in Nat
  BY FreeKeepsIInv DEF CInv, AInv, IInv, Sound, ManType
<1>5. /\ memman_total(man) \in Nat /\ memman_total(man') \in Nat
      /\ memman_total(man') + man'.lostsize
             = memman_total(man) + Block(b).size + man.lostsize
  <2>1. man' = memman_free(man, Block(b).addr, Block(b).size)
    BY <1>2, <1>3
  <2>2. QED
    BY <1>1, <1>3, <2>1, FreeCounts
<1>6. IsFiniteSet(held')
  BY <1>1, <1>2, FS_RemoveElement
<1>7. HeldSum(held') \in Nat /\ HeldSum(held) = HeldSum(held') + Block(b).size
  <2>1. PICK B : B = held' /\ b \notin B /\ B \cup {b} = held
    BY <1>2
  <2>2. /\ B \cup {b} \subseteq Region /\ \A c \in B \cup {b} : c.size > 0
        /\ \A c, d \in B \cup {b} : c # d => Apart(Block(c), Block(d))
    BY <1>1, <2>1
  <2>3. HeldSum(B) \in Nat /\ HeldSum(B \cup {b}) = HeldSum(B) + RoundUp(b.size)
    BY <1>6, <2>1, <2>2, HeldOneMore
  <2>4. QED
    BY ONLY <1>3, <2>1, <2>3
<1>8. memman_total(man') + HeldSum(held') + man'.lostsize
          = memman_total(man) + HeldSum(held) + man.lostsize
  BY <1>1, <1>3, <1>4, <1>5, <1>7
<1>9. QED
  BY <1>1, <1>6, <1>8, ConservedMeans

\* Every call keeps the account.
LEMMA NextCInv ==
    ASSUME NoEmptyRequests, CInv, [Next]_vars
    PROVE  CInv'
<1>1. AInv'
  BY NextMaps DEF CInv
<1>2. ASSUME NEW size \in Sizes, Alloc(size) PROVE IsFiniteSet(held') /\ Conserved'
  BY <1>2, AllocConserves
<1>3. ASSUME NEW b \in held, Free(b) PROVE IsFiniteSet(held') /\ Conserved'
  BY <1>3, FreeConserves
<1>4. CASE UNCHANGED vars
  <2>1. man' = man /\ held' = held
    BY <1>4 DEF vars
  <2>2. IsFiniteSet(held) /\ Conserved
    BY DEF CInv
  <2>3. memman_total(man') + HeldSum(held') + man'.lostsize
            = memman_total(man) + HeldSum(held) + man.lostsize
    BY <2>1
  <2>4. Conserved'
    BY <2>2, <2>3, ConservedMeans
  <2>5. IsFiniteSet(held')
    BY <2>1, <2>2
  <2>6. QED
    BY <1>1, <2>4, <2>5 DEF CInv
<1>5. QED
  BY <1>1, <1>2, <1>3, <1>4 DEF CInv, Next

\* No byte goes missing: what the boot code gave to the manager is free, held by a
\* caller, or counted in lostsize by a memman_free that found the list full
\* (memory.c:42-125).
THEOREM NothingLost ==
    ASSUME NoEmptyRequests
    PROVE  Spec => []Conserved
<1>1. CInv /\ [Next]_vars => CInv'
  BY NextCInv
<1>2. CInv => Conserved
  BY DEF CInv
<1>3. QED
  BY InitCInv, <1>1, <1>2, PTL DEF Spec
=============================================================================
