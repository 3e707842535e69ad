------------------------------ MODULE ViProofs -------------------------------
(***************************************************************************)
(* Proofs about Vi, for any file, any keys and any sizes that satisfy its  *)
(* assumption. The invariant says of every line what room is left for the  *)
(* keys that may still be pressed; from it follow that the array is sound, *)
(* that what is saved reads back, that the cursor stays on a line as long  *)
(* as the user is careful, and that typing overwrites nothing. Functions   *)
(* that are defined by recursion are shown to exist, by induction over the *)
(* set of the numbers up to which they do.                                 *)
(***************************************************************************)
EXTENDS Vi, SequenceTheorems, FiniteSetTheorems, WellFoundedInduction, TLAPS

\* What a file's lines, a line and a column may have grown to when p keys have been
\* pressed.
Rows(p) == Slots - 2 - MaxPresses + p
Room(p) == Width - 2 - MaxPresses + p

\* A line whose string lies within w cells; behind them the block is still zero.
LineFits(l, w) ==
  \/ l.text = NoText /\ l.length \in {-1, 0}
  \/ /\ l.text \in Text /\ l.length \in 0 .. w
     /\ \A k \in Column : w <= k => l.text[k] = Nul
     /\ \A k \in 0 .. l.length - 1 : l.text[k] # Nul

\* Where newlines will be in the file: behind each of the first n lines, and in them,
\* where one has been typed.
IsBreak(l, k) == k = l.length \/ (k < l.length /\ l.text[k] = Newline)
Breaks(ls, n) == {b \in (0 .. n - 1) \X (0 .. Width) : IsBreak(ls[b[1]], b[2])}

\* An array with at most r lines when it will be read again, none of them longer than w.
ArrayFits(ls, r, w) ==
  /\ ls \in [Slot -> Line]
  /\ \A i \in Slot : LineFits(ls[i], w)
  /\ \A i \in Slot : ls[i].length = -1 => i <= r
  /\ HasEnd(ls, 0)
  /\ \A i \in 0 .. num_lines(ls) - 1 : ls[i].text # NoText
  /\ Cardinality(Breaks(ls, num_lines(ls))) <= r

EditorFits(ed, p) ==
  /\ ed \in Editor
  /\ ed.x <= Room(p) /\ ed.y + ed.offset <= Rows(p)
  /\ ArrayFits(ed.lines, Rows(p), Room(p))

\* A file that can be read into such an array.
FileFits(f, p) ==
  f # Absent =>
    /\ Cardinality(LineEnds(f)) <= Rows(p)
    /\ \A a, b \in 1 .. Len(f) :
         (\A q \in a .. b : f[q] # Newline) => b - a + 1 <= Room(p)

\* Line b is line a with one cell more, at g.
OneMore(a, b, g) ==
  /\ a.length \in Nat /\ b.length = a.length + 1
  /\ g \in Nat /\ g <= a.length
  /\ \A k \in Nat : k < g => b.text[k] = a.text[k]
  /\ \A k \in Nat : g < k /\ k <= a.length => b.text[k] = a.text[k - 1]

\* Behind the characters of a line its block is zero.
Clean(l) == \A k \in Column : l.length <= k => l.text[k] = Nul

SetLine(ls, i, m) == [ls EXCEPT ![i] = m]

\* The lines that there are, each zero behind its end.
AllClean(ls) == \A i \in Nat : i < num_lines(ls) => Clean(ls[i])

\* The cursor on one of them, and there in its place.
OnLine(ed) ==
  /\ y_pos(ed) < num_lines(ed.lines)
  /\ ed.x <= AtLeast0(Current(ed).length - (IF ed.mode = "NORMAL" THEN 1 ELSE 0))
  /\ AllClean(ed.lines)

Caring == careful => running # "lost" /\ e.offset = 0 /\ e.y < MaxY /\ OnLine(e)

IInv ==
  /\ TypeOK
  /\ EditorFits(e, presses)
  /\ FileFits(disk, presses)
  /\ Caring

-----------------------------------------------------------------------------
(* Sets of positions *)

\* A set of natural numbers has a smallest element.
LEMMA Smallest ==
  ASSUME NEW T \in SUBSET Nat, T # {}
  PROVE  \E m \in T : \A k \in T : m <= k
<1> DEFINE R == OpToRel(<, Nat)
<1>1. IsWellFoundedOn(R, Nat)
  BY NatLessThanWellFounded
<1>2. \A x, y \in Nat : y < x => <<y, x>> \in R
  BY DEF OpToRel
<1> HIDE DEF R
<1>3. PICK x \in T : \A y \in T : <<y, x>> \notin R
  BY <1>1, WFMin
<1>4. \A y \in T : ~(y < x)
  BY <1>2, <1>3
<1>5. \A y \in T : x <= y
  BY <1>4
<1> QED
  BY <1>5

\* One with a bound has a greatest.
LEMMA Greatest ==
  ASSUME NEW m \in Nat, NEW T \in SUBSET (1 .. m), T # {}
  PROVE  \E g \in T : \A k \in T : k <= g
<1> DEFINE U == {d \in Nat : m - d \in T}
<1>1. \A k \in T : k \in Nat /\ m - k \in U /\ m - (m - k) = k
  OBVIOUS
<1>2. U # {} /\ U \in SUBSET Nat
  BY <1>1
<1>3. PICK d \in U : \A x \in U : d <= x
  BY <1>2, Smallest
<1>4. m - d \in T
  BY <1>3
<1>5. ASSUME NEW k \in T PROVE k <= m - d
  <2>1. d <= m - k /\ k \in Nat /\ d \in Nat
    BY <1>1, <1>3
  <2> QED
    BY <2>1
<1> QED
  BY <1>4, <1>5

\* How many of S are not behind p.
Rank(S, p) == Cardinality({q \in S : q <= p})

\* What stands before a position, with it and without it.
LEMMA Before ==
  ASSUME NEW m \in Nat, NEW S \in SUBSET (1 .. m), NEW p \in S
  PROVE  /\ S \in SUBSET Nat /\ m \in Int /\ 1 \in Int
         /\ {q \in S : q <= p} \in SUBSET S /\ p \in {q \in S : q <= p}
         /\ {q \in S : q < p} \in SUBSET S /\ {q \in S : q < p} \in SUBSET (1 .. m)
         /\ p \notin {q \in S : q < p}
         /\ {q \in S : q <= p} = {q \in S : q < p} \union {p}
         /\ \A r \in S : r < p => /\ {q \in S : q <= r} \in SUBSET {q \in S : q <= p}
                                /\ p \notin {q \in S : q <= r}
<1>1. \A q \in S : q \in Nat
  OBVIOUS
<1>2. \A q, r \in S : /\ r < q => ~(q <= r)
                      /\ q <= r <=> (q < r \/ q = r)
                      /\ \A t \in S : q <= r /\ r < t => q <= t
  BY <1>1
<1>3. \A q \in S : q <= q /\ ~(q < q)
  BY <1>1
<1>4. S \in SUBSET Nat /\ m \in Int /\ 1 \in Int
  BY <1>1
<1>5. {q \in S : q <= p} \in SUBSET S /\ p \in {q \in S : q <= p}
  BY <1>3
<1>6. /\ {q \in S : q < p} \in SUBSET S /\ {q \in S : q < p} \in SUBSET (1 .. m)
      /\ p \notin {q \in S : q < p}
  BY <1>3
<1>7. {q \in S : q <= p} = {q \in S : q < p} \union {p}
  BY <1>2
<1>8. ASSUME NEW r \in S, r < p
      PROVE  /\ {q \in S : q <= r} \in SUBSET {q \in S : q <= p}
             /\ p \notin {q \in S : q <= r}
  BY <1>2, <1>8
<1> QED
  BY <1>4, <1>5, <1>6, <1>7, <1>8

\* The members of a set of positions are numbered from 1, in order.
LEMMA Ranks ==
  ASSUME NEW m \in Nat, NEW S \in SUBSET (1 .. m)
  PROVE  /\ IsFiniteSet(S) /\ Cardinality(S) \in Nat
         /\ \A p \in S : Rank(S, p) \in 1 .. Cardinality(S)
         /\ \A p, r \in S : r < p => Rank(S, r) < Rank(S, p)
         /\ \A n \in 1 .. Cardinality(S) : \E p \in S : Rank(S, p) = n
<1>1. IsFiniteSet(S) /\ Cardinality(S) \in Nat
  <2>1. m \in Int /\ 1 \in Int
    OBVIOUS
  <2>2. IsFiniteSet(1 .. m)
    BY <2>1, FS_Interval
  <2> QED
    BY <2>2, FS_Subset, FS_CardinalityType
<1>2. ASSUME NEW T \in SUBSET S
      PROVE  IsFiniteSet(T) /\ Cardinality(T) \in Nat /\ Cardinality(T) <= Cardinality(S)
  BY <1>1, FS_Subset, FS_CardinalityType
<1>3. ASSUME NEW p \in S PROVE Rank(S, p) \in 1 .. Cardinality(S)
  <2> DEFINE T == {q \in S : q <= p}
  <2>1. T \in SUBSET S /\ p \in T
    OBVIOUS
  <2>2. IsFiniteSet(T) /\ Cardinality(T) \in Nat /\ Cardinality(T) <= Cardinality(S)
    BY <1>2, <2>1
  <2>3. Cardinality(T) # 0
    BY <2>1, <2>2, FS_EmptySet
  <2>4. Rank(S, p) = Cardinality(T)
    BY DEF Rank
  <2> QED
    BY <1>1, <2>2, <2>3, <2>4
<1>4. ASSUME NEW p \in S, NEW r \in S, r < p PROVE Rank(S, r) < Rank(S, p)
  <2> DEFINE T == {q \in S : q <= p}
             V == {q \in S : q <= r}
  <2>1. T \in SUBSET S /\ p \in T
    BY Before
  <2>2. V \in SUBSET T /\ p \notin V
    BY <1>4, Before, ZenonT(60)
  <2> HIDE DEF T, V
  <2>3. IsFiniteSet(T) /\ Cardinality(T) \in Nat
    BY <1>2, <2>1
  <2>4. Cardinality(V) <= Cardinality(T) /\ Cardinality(V) # Cardinality(T)
    BY <2>1, <2>2, <2>3, FS_Subset
  <2>5. Cardinality(V) \in Nat
    BY <1>2, <2>1, <2>2
  <2> QED
    BY <2>3, <2>4, <2>5 DEF Rank, T, V
<1>5. ASSUME NEW n \in 1 .. Cardinality(S) PROVE \E p \in S : Rank(S, p) = n
  <2> DEFINE T == {p \in S : Rank(S, p) >= n}
  <2>1. n \in Nat /\ n >= 1 /\ n <= Cardinality(S)
    BY <1>1
  <2>2. T # {}
    <3>1. S # {}
      BY <1>1, <2>1, FS_EmptySet
    <3>2. PICK g \in S : \A k \in S : k <= g
      BY <3>1, Greatest
    <3>3. {q \in S : q <= g} = S
      BY <3>2
    <3> QED
      BY <2>1, <3>3 DEF Rank
  <2>3. T \in SUBSET Nat
    BY <2>2, Before, ZenonT(60)
  <2>4. PICK p \in T : \A k \in T : p <= k
    BY <2>2, <2>3, Smallest
  <2> DEFINE B == {q \in S : q < p}
  <2>5. B \in SUBSET S /\ B \in SUBSET (1 .. m) /\ p \notin B
    BY Before
  <2>6. {q \in S : q <= p} = B \union {p}
    BY Before
  <2>7. IsFiniteSet(B) /\ Cardinality(B) \in Nat
    BY <1>2, <2>5
  <2>8. Rank(S, p) = Cardinality(B) + 1
    BY <2>5, <2>6, <2>7, FS_AddElement DEF Rank
  <2>9. ~(Cardinality(B) >= n)
    <3>1. SUFFICES ASSUME Cardinality(B) >= n PROVE FALSE
      OBVIOUS
    <3>2. B # {}
      BY <2>1, <2>7, <3>1, FS_EmptySet
    <3>3. PICK g \in B : \A k \in B : k <= g
      BY <2>5, <3>2, Greatest
    <3>4. {q \in S : q <= g} = B
      <4>1. g \in S /\ g < p
        OBVIOUS
      <4>2. \A q \in S : q <= g => q < p
        BY <4>1
      <4> QED
        BY <3>3, <4>2
    <3>5. g \in T
      BY <3>1, <3>4 DEF Rank
    <3>6. p <= g
      BY <2>4, <3>5
    <3> QED
      BY <3>6
  <2>10. Rank(S, p) >= n
    OBVIOUS
  <2> QED
    BY <2>1, <2>7, <2>8, <2>9, <2>10
<1> QED
  BY <1>1, <1>3, <1>4, <1>5

\* Induction up to m, over a set.
LEMMA Upwards ==
  ASSUME NEW m \in Nat, NEW T, 0 \in T, \A k \in Nat : k < m /\ k \in T => k + 1 \in T
  PROVE  \A k \in 0 .. m : k \in T
<1> DEFINE U == {k \in Nat : k <= m /\ k \notin T}
<1>1. SUFFICES ASSUME U # {} PROVE FALSE
  BY DEF U
<1>2. PICK u \in U : \A k \in U : u <= k
  BY <1>1, Smallest
<1>3. u \in Nat /\ u <= m /\ u \notin T
  OBVIOUS
<1>4. u # 0
  BY <1>3
<1>5. u - 1 \in Nat /\ u - 1 < m /\ (u - 1) + 1 = u /\ ~(u <= u - 1) /\ u - 1 <= m
  BY <1>3, <1>4
<1>6. u - 1 \notin U
  BY <1>2, <1>5
<1>7. u - 1 \in T
  BY <1>5, <1>6
<1> QED
  BY <1>3, <1>5, <1>7

\* A set with an injection into a finite one has no more members.
LEMMA Embedded ==
  ASSUME NEW T, IsFiniteSet(T), NEW S, NEW f, \A x \in S : f[x] \in T,
         \A x, y \in S : f[x] = f[y] => x = y
  PROVE  IsFiniteSet(S) /\ Cardinality(S) <= Cardinality(T) /\ Cardinality(S) \in Nat
<1> DEFINE g == [x \in S |-> f[x]]
<1>1. g \in Injection(S, T)
  BY DEF Injection, IsInjective
<1> HIDE DEF g
<1>2. IsFiniteSet(S) /\ Cardinality(S) <= Cardinality(T)
  BY <1>1, FS_Injection
<1> QED
  BY <1>2, FS_CardinalityType

-----------------------------------------------------------------------------
(* The array of lines *)

\* What the bounds leave room for.
LEMMA Bounds ==
  ASSUME NEW p \in 0 .. MaxPresses
  PROVE  /\ Rows(p) \in Nat /\ 1 <= Rows(p) /\ Rows(p) + 1 \in Slot
         /\ Room(p) \in Nat /\ Room(p) + 1 \in Column
         /\ Rows(p + 1) = Rows(p) + 1 /\ Room(p + 1) = Room(p) + 1
         /\ \A n \in Nat : (n <= Rows(p) + 1 => n \in Slot) /\ (n <= Room(p) + 1 => n \in Column)
<1>1. /\ MaxPresses \in Nat /\ Slots \in Nat /\ Width \in Nat /\ p \in Nat /\ p <= MaxPresses
      /\ MaxPresses + 3 <= Slots /\ MaxPresses + 2 <= Width
  BY BoundsAssumption
<1> QED
  BY <1>1 DEF Rows, Room, Slot, Column

\* Slots and columns are numbers.
LEMMA Numbers ==
  /\ \A i \in Slot : i \in Nat /\ \A j \in Nat : j <= i => j \in Slot
  /\ \A k \in Column : k \in Nat /\ k < Width /\ \A j \in Nat : j <= k => j \in Column
  /\ Slots \in Nat /\ Width \in Nat /\ 0 \in Slot /\ 0 \in Column
BY BoundsAssumption DEF Slot, Column

\* What is a character, and what is not.
LEMMA Characters ==
  /\ Nul \notin Char /\ Space \in Char /\ Newline \in Char /\ Newline # Space
  /\ NoText \notin Text
BY BoundsAssumption DEF Char, Text, Column

\* The end of the array from n on is the first mark.
LEMMA EndFacts ==
  ASSUME NEW ls, NEW n \in Nat, HasEnd(ls, n)
  PROVE  /\ EndFrom(ls, n) \in Slot /\ EndFrom(ls, n) \in Nat /\ n <= EndFrom(ls, n)
         /\ ls[EndFrom(ls, n)].length = -1
         /\ \A j \in Nat : n <= j /\ j < EndFrom(ls, n) => ls[j].length # -1
<1> DEFINE T == {i \in Slot : n <= i /\ ls[i].length = -1}
<1>1. T # {} /\ T \in SUBSET Nat
  BY Numbers DEF HasEnd
<1>2. PICK m \in T : \A k \in T : m <= k
  BY <1>1, Smallest
<1>3. m \in Nat /\ m \in Slot /\ n <= m /\ ls[m].length = -1
  BY Numbers
<1>4. \A j \in n .. m - 1 : ls[j].length # -1
  <2>1. SUFFICES ASSUME NEW j \in n .. m - 1, ls[j].length = -1 PROVE FALSE
    OBVIOUS
  <2>2. j \in Nat /\ n <= j /\ j < m
    BY <1>3
  <2>3. j \in Slot
    BY <1>3, <2>2, Numbers
  <2>4. m <= j
    BY <1>2, <2>1, <2>2, <2>3
  <2> QED
    BY <1>3, <2>2, <2>4
<1> HIDE DEF T
<1>5. /\ EndFrom(ls, n) \in Slot /\ n <= EndFrom(ls, n) /\ ls[EndFrom(ls, n)].length = -1
      /\ \A j \in n .. EndFrom(ls, n) - 1 : ls[j].length # -1
  BY <1>3, <1>4 DEF EndFrom
<1>6. EndFrom(ls, n) \in Nat
  BY <1>5, Numbers
<1>7. \A j \in Nat : n <= j /\ j < EndFrom(ls, n) => j \in n .. EndFrom(ls, n) - 1
  BY <1>6
<1> QED
  BY <1>5, <1>6, <1>7

\* And there is only one.
LEMMA EndIs ==
  ASSUME NEW ls, NEW n \in Nat, NEW i \in Slot, n <= i, ls[i].length = -1,
         \A j \in Nat : n <= j /\ j < i => ls[j].length # -1
  PROVE  HasEnd(ls, n) /\ EndFrom(ls, n) = i
<1>1. HasEnd(ls, n)
  BY DEF HasEnd
<1>2. PICK m \in Nat : m = EndFrom(ls, n)
  BY <1>1, EndFacts
<1>3. n <= m /\ ls[m].length = -1 /\ \A j \in Nat : n <= j /\ j < m => ls[j].length # -1
  BY <1>1, <1>2, EndFacts
<1>4. i \in Nat
  BY Numbers
<1>5. ~(i < m) /\ ~(m < i)
  BY <1>3, <1>4
<1> QED
  BY <1>1, <1>2, <1>4, <1>5

\* The number of lines is that of the first mark.
LEMMA NumFacts ==
  ASSUME NEW ls, HasEnd(ls, 0)
  PROVE  /\ num_lines(ls) \in Slot /\ num_lines(ls) \in Nat /\ ls[num_lines(ls)].length = -1
         /\ \A j \in Nat : j < num_lines(ls) => ls[j].length # -1 /\ j \in Slot
<1>1. PICK n \in Nat : n = num_lines(ls)
  BY EndFacts DEF num_lines
<1>2. n \in Slot /\ ls[n].length = -1 /\ \A j \in Nat : 0 <= j /\ j < n => ls[j].length # -1
  BY <1>1, EndFacts DEF num_lines
<1>3. \A j \in Nat : 0 <= j /\ (j < n => j \in Slot)
  BY <1>2, Numbers
<1> QED
  BY <1>1, <1>2, <1>3

LEMMA NumIs ==
  ASSUME NEW ls, NEW i \in Slot, ls[i].length = -1, \A j \in Nat : j < i => ls[j].length # -1
  PROVE  HasEnd(ls, 0) /\ num_lines(ls) = i
<1>1. 0 \in Nat /\ 0 <= i
  BY Numbers
<1> QED
  BY <1>1, EndIs DEF num_lines

\* A line without characters.
LEMMA EmptyFits ==
  /\ EmptyLine \in Line /\ EmptyLine.length = 0 /\ EmptyLine.text \in Text
  /\ EmptyLine.text # NoText /\ EmptyLine.text = [k \in Column |-> Nul]
  /\ \A w \in Nat : LineFits(EmptyLine, w)
<1>1. EmptyLine.length = 0 /\ EmptyLine.text = [k \in Column |-> Nul]
  <2>1. \A k \in Column : ~(k < Len(<< >>))
    BY Numbers
  <2> QED
    BY <2>1 DEF EmptyLine, Allocated
<1>2. EmptyLine.text \in Text
  BY <1>1 DEF Text
<1>3. EmptyLine.text # NoText
  BY <1>2, Characters
<1>4. 0 \in -1 .. Width
  BY Numbers
<1>5. EmptyLine \in Line
  BY <1>1, <1>2, <1>4 DEF EmptyLine, Line
<1>6. ASSUME NEW w \in Nat PROVE LineFits(EmptyLine, w)
  <2>1. 0 .. 0 - 1 = {} /\ 0 \in 0 .. w
    OBVIOUS
  <2> QED
    BY <1>1, <1>2, <2>1 DEF LineFits
<1> QED
  BY <1>1, <1>2, <1>3, <1>5, <1>6

\* delete_line() moves what follows up to the next mark up by one.
LEMMA DeleteFacts ==
  ASSUME NEW ls \in [Slot -> Line], HasEnd(ls, 0), NEW n \in Nat, HasEnd(ls, n),
         NEW m, m = EndFrom(ls, n), NEW d, d = delete_line(ls, n)
  PROVE  /\ d \in [Slot -> Line] /\ m \in Slot /\ m \in Nat /\ n <= m /\ ls[m].length = -1
         /\ \A i \in Slot : n <= i /\ i < m => d[i] = ls[i + 1] /\ i + 1 \in Slot
         /\ \A i \in Slot : ~(n <= i /\ i < m) => d[i] = ls[i]
         /\ HasEnd(d, n) /\ HasEnd(d, 0)
         /\ n < num_lines(ls) => num_lines(d) = num_lines(ls) - 1 /\ m = num_lines(ls)
         /\ ~(n < num_lines(ls)) => num_lines(d) = num_lines(ls)
<1>1. /\ m \in Slot /\ m \in Nat /\ n <= m /\ ls[m].length = -1
      /\ \A j \in Nat : n <= j /\ j < m => ls[j].length # -1
  BY EndFacts
<1>2. \A i \in Slot : i \in Nat /\ (i < m => i + 1 \in Slot)
  <2>1. \A i \in Slot : i \in Nat /\ (i < m => i + 1 <= m)
    BY <1>1, Numbers
  <2> QED
    BY <1>1, <2>1, Numbers
<1>3. d = [i \in Slot |-> IF n <= i /\ i < m THEN ls[i + 1] ELSE ls[i]]
  BY DEF delete_line
<1>4. /\ d \in [Slot -> Line]
      /\ \A i \in Slot : n <= i /\ i < m => d[i] = ls[i + 1] /\ i + 1 \in Slot
      /\ \A i \in Slot : ~(n <= i /\ i < m) => d[i] = ls[i]
  BY <1>2, <1>3
<1>5. HasEnd(d, n)
  <2>1. d[m] = ls[m]
    BY <1>1, <1>4
  <2> QED
    BY <1>1, <2>1 DEF HasEnd
<1>6. PICK z \in Nat : z = num_lines(ls)
  BY NumFacts
<1>7. z \in Slot /\ ls[z].length = -1 /\ \A j \in Nat : j < z => ls[j].length # -1 /\ j \in Slot
  BY <1>6, NumFacts
<1>8. CASE n < z
  <2>1. m = z
    <3>1. n <= z
      BY <1>8
    <3>2. ~(z < m) /\ ~(m < z)
      BY <1>1, <1>7, <3>1
    <3> QED
      BY <1>1, <3>2
  <2>2. z - 1 \in Nat /\ z - 1 < z /\ n <= z - 1 /\ (z - 1) + 1 = z /\ z - 1 <= z
    BY <1>8
  <2>3. z - 1 \in Slot
    BY <1>7, <2>2
  <2>4. d[z - 1] = ls[z]
    BY <1>4, <2>1, <2>2, <2>3
  <2>5. ASSUME NEW j \in Nat, j < z - 1 PROVE d[j].length # -1
    <3>1. j \in Slot /\ j < z /\ j + 1 < z /\ j + 1 \in Nat
      BY <1>7, <2>5
    <3>2. d[j] = ls[j] \/ d[j] = ls[j + 1]
      BY <1>4, <3>1
    <3> QED
      BY <1>7, <3>1, <3>2
  <2>6. HasEnd(d, 0) /\ num_lines(d) = z - 1
    BY <1>7, <2>3, <2>4, <2>5, NumIs
  <2> QED
    BY <1>1, <1>4, <1>5, <1>6, <1>8, <2>1, <2>6
<1>9. CASE ~(n < z)
  <2>1. \A j \in Nat : j < z => ~(n <= j /\ j < m)
    BY <1>9
  <2>2. ~(n <= z /\ z < m)
    BY <1>1, <1>7, <1>9
  <2>3. d[z] = ls[z] /\ \A j \in Nat : j < z => d[j] = ls[j]
    BY <1>4, <1>7, <2>1, <2>2
  <2>4. HasEnd(d, 0) /\ num_lines(d) = z
    BY <1>7, <2>3, NumIs
  <2> QED
    BY <1>1, <1>4, <1>5, <1>6, <1>9, <2>4
<1> QED
  BY <1>8, <1>9

\* insert_line() moves what follows down by one, the end with it.
LEMMA InsertFacts ==
  ASSUME NEW ls \in [Slot -> Line], HasEnd(ls, 0), NEW n \in Slot,
         NEW z, z = num_lines(ls), z + 1 \in Slot, NEW d, d = insert_line(ls, n)
  PROVE  /\ d \in [Slot -> Line] /\ z \in Nat /\ n \in Nat
         /\ d[n] = EmptyLine
         /\ \A i \in Slot : n < i /\ i <= z + 1 => d[i] = ls[i - 1] /\ i - 1 \in Slot
         /\ \A i \in Slot : i # n /\ ~(n < i /\ i <= z + 1) => d[i] = ls[i]
         /\ HasEnd(d, 0)
         /\ n <= z => num_lines(d) = z + 1
         /\ ~(n <= z) => num_lines(d) = z
<1>1. z \in Nat /\ z \in Slot /\ ls[z].length = -1
      /\ \A j \in Nat : j < z => ls[j].length # -1 /\ j \in Slot
  BY NumFacts
<1>2. n \in Nat /\ \A i \in Slot : i \in Nat /\ (n < i => i - 1 \in Slot /\ i - 1 \in Nat)
  <2>1. n \in Nat /\ \A i \in Slot : i \in Nat /\ (n < i => i - 1 <= i /\ i - 1 \in Nat)
    BY Numbers
  <2> QED
    BY <2>1, Numbers
<1>3. d = [i \in Slot |-> IF i = n THEN EmptyLine
                          ELSE IF n < i /\ i <= z + 1 THEN ls[i - 1] ELSE ls[i]]
  BY DEF insert_line
<1>4. /\ d[n] = EmptyLine
      /\ \A i \in Slot : n < i /\ i <= z + 1 => d[i] = ls[i - 1] /\ i - 1 \in Slot
      /\ \A i \in Slot : i # n /\ ~(n < i /\ i <= z + 1) => d[i] = ls[i]
  <2>1. \A i \in Slot : n < i => i # n
    BY <1>2
  <2> QED
    BY <1>2, <1>3, <2>1
<1>5. d \in [Slot -> Line]
  BY <1>2, <1>3, EmptyFits
<1>6. CASE n <= z
  <2>1. z + 1 \in Slot /\ n < z + 1 /\ (z + 1) - 1 = z /\ z + 1 <= z + 1
    BY <1>1, <1>2, <1>6
  <2>2. d[z + 1] = ls[z]
    BY <1>4, <2>1
  <2>3. ASSUME NEW j \in Nat, j < z + 1 PROVE d[j].length # -1
    <3>1. j \in Slot
      BY <1>1, <2>3, Numbers
    <3>2. CASE j = n
      BY <1>4, <3>2, EmptyFits
    <3>3. CASE n < j
      <4>1. j - 1 \in Nat /\ j - 1 < z /\ j <= z + 1
        BY <1>1, <1>2, <2>3, <3>3
      <4>2. d[j] = ls[j - 1]
        BY <1>4, <3>1, <3>3, <4>1
      <4> QED
        BY <1>1, <4>1, <4>2
    <3>4. CASE j < n
      <4>1. j # n /\ ~(n < j /\ j <= z + 1) /\ j < z
        BY <1>1, <1>2, <1>6, <3>4
      <4> QED
        BY <1>1, <1>4, <3>1, <4>1
    <3> QED
      BY <1>2, <3>2, <3>3, <3>4
  <2>4. HasEnd(d, 0) /\ num_lines(d) = z + 1
    BY <1>1, <2>1, <2>2, <2>3, NumIs
  <2> QED
    BY <1>1, <1>2, <1>4, <1>5, <1>6, <2>4
<1>7. CASE ~(n <= z)
  <2>1. \A j \in Nat : j <= z => j # n /\ ~(n < j /\ j <= z + 1)
    BY <1>1, <1>2, <1>7
  <2>2. d[z] = ls[z] /\ \A j \in Nat : j < z => d[j] = ls[j]
    BY <1>1, <1>4, <2>1
  <2>3. HasEnd(d, 0) /\ num_lines(d) = z
    BY <1>1, <2>2, NumIs
  <2> QED
    BY <1>1, <1>2, <1>4, <1>5, <1>7, <2>3
<1> QED
  BY <1>6, <1>7

\* There are finitely many breaks.
LEMMA BreaksFinite ==
  ASSUME NEW ls, NEW n \in Nat
  PROVE  IsFiniteSet(Breaks(ls, n)) /\ Cardinality(Breaks(ls, n)) \in Nat
<1>1. 0 \in Int /\ n - 1 \in Int /\ Width \in Int
  BY Numbers
<1>2. IsFiniteSet(0 .. n - 1) /\ IsFiniteSet(0 .. Width)
  BY <1>1, FS_Interval
<1>3. IsFiniteSet((0 .. n - 1) \X (0 .. Width))
  BY <1>2, FS_Product
<1>4. Breaks(ls, n) \in SUBSET ((0 .. n - 1) \X (0 .. Width))
  BY DEF Breaks
<1> QED
  BY <1>3, <1>4, FS_Subset, FS_CardinalityType

\* The members of Breaks.
LEMMA BreaksHas ==
  ASSUME NEW ls, NEW n \in Nat
  PROVE  /\ \A b \in Breaks(ls, n) : /\ b = <<b[1], b[2]>> /\ b[1] \in Nat /\ b[1] < n
                                    /\ b[2] \in Nat /\ b[2] <= Width
                                    /\ IsBreak(ls[b[1]], b[2])
         /\ \A i, k \in Nat : i < n /\ k <= Width /\ IsBreak(ls[i], k)
                                => <<i, k>> \in Breaks(ls, n)
<1>1. Width \in Nat
  BY Numbers
<1>2. \A b \in Breaks(ls, n) : /\ b = <<b[1], b[2]>> /\ b[1] \in Nat /\ b[1] < n
                               /\ b[2] \in Nat /\ b[2] <= Width
                               /\ IsBreak(ls[b[1]], b[2])
  BY <1>1 DEF Breaks
<1>3. ASSUME NEW i \in Nat, NEW k \in Nat, i < n, k <= Width, IsBreak(ls[i], k)
      PROVE  <<i, k>> \in Breaks(ls, n)
  <2>1. <<i, k>> \in (0 .. n - 1) \X (0 .. Width)
    BY <1>1, <1>3
  <2> QED
    BY <1>3, <2>1 DEF Breaks
<1> QED
  BY <1>2, <1>3

\* They depend on the lines that there are only.
LEMMA BreaksSame ==
  ASSUME NEW ls, NEW d, NEW n \in Nat, \A i \in Nat : i < n => d[i] = ls[i]
  PROVE  Breaks(d, n) = Breaks(ls, n)
<1>1. \A b \in (0 .. n - 1) \X (0 .. Width) : b[1] \in Nat /\ b[1] < n
  OBVIOUS
<1> QED
  BY <1>1 DEF Breaks

\* Without a line there are no more of them than before.
LEMMA BreaksDelete ==
  ASSUME NEW ls, NEW d, NEW z \in Nat, NEW n \in Nat, n < z,
         \A i \in Nat : i < n => d[i] = ls[i],
         \A i \in Nat : n <= i /\ i < z - 1 => d[i] = ls[i + 1]
  PROVE  Cardinality(Breaks(d, z - 1)) <= Cardinality(Breaks(ls, z))
<1> DEFINE S == Breaks(d, z - 1)
           T == Breaks(ls, z)
           f == [b \in S |-> <<IF n <= b[1] THEN b[1] + 1 ELSE b[1], b[2]>>]
<1>1. z - 1 \in Nat
  OBVIOUS
<1>2. /\ \A b \in S : /\ b = <<b[1], b[2]>> /\ b[1] \in Nat /\ b[1] < z - 1
                      /\ b[2] \in Nat /\ b[2] <= Width /\ IsBreak(d[b[1]], b[2])
      /\ \A i, k \in Nat : i < z /\ k <= Width /\ IsBreak(ls[i], k) => <<i, k>> \in T
  <2>1. \A b \in S : /\ b = <<b[1], b[2]>> /\ b[1] \in Nat /\ b[1] < z - 1
                     /\ b[2] \in Nat /\ b[2] <= Width /\ IsBreak(d[b[1]], b[2])
    BY <1>1, BreaksHas
  <2>2. \A i, k \in Nat : i < z /\ k <= Width /\ IsBreak(ls[i], k) => <<i, k>> \in T
    BY BreaksHas
  <2> QED
    BY <2>1, <2>2
<1>3. IsFiniteSet(T)
  BY BreaksFinite
<1> HIDE DEF S, T
<1>4. ASSUME NEW b \in S PROVE f[b] \in T
  <2>1. /\ b[1] \in Nat /\ b[1] < z - 1 /\ b[2] \in Nat /\ b[2] <= Width
        /\ IsBreak(d[b[1]], b[2])
    BY <1>2
  <2>2. CASE n <= b[1]
    <3>1. f[b] = <<b[1] + 1, b[2]>> /\ b[1] + 1 \in Nat /\ b[1] + 1 < z
      BY <2>1, <2>2
    <3>2. IsBreak(ls[b[1] + 1], b[2])
      BY <2>1, <2>2
    <3> QED
      BY <1>2, <2>1, <3>1, <3>2
  <2>3. CASE ~(n <= b[1])
    <3>1. f[b] = <<b[1], b[2]>> /\ b[1] < z /\ b[1] < n
      BY <2>1, <2>3
    <3>2. IsBreak(ls[b[1]], b[2])
      BY <2>1, <3>1
    <3> QED
      BY <1>2, <2>1, <3>1, <3>2
  <2> QED
    BY <2>2, <2>3
<1>5. ASSUME NEW b \in S, NEW c \in S, f[b] = f[c] PROVE b = c
  <2>1. /\ b = <<b[1], b[2]>> /\ c = <<c[1], c[2]>> /\ b[1] \in Nat /\ c[1] \in Nat
    BY <1>2
  <2>2. /\ (IF n <= b[1] THEN b[1] + 1 ELSE b[1]) = (IF n <= c[1] THEN c[1] + 1 ELSE c[1])
        /\ b[2] = c[2]
    BY <1>5
  <2>3. b[1] = c[1]
    BY <2>1, <2>2
  <2> QED
    BY <2>1, <2>2, <2>3
<1> HIDE DEF f
<1>6. Cardinality(S) <= Cardinality(T)
  BY <1>3, <1>4, <1>5, Embedded
<1> QED
  BY <1>6 DEF S, T

\* An empty line is one more.
LEMMA BreaksInsert ==
  ASSUME NEW ls, NEW d, NEW z \in Nat, NEW n \in Nat, n <= z,
         d[n] = EmptyLine,
         \A i \in Nat : i < n => d[i] = ls[i],
         \A i \in Nat : n < i /\ i < z + 1 => d[i] = ls[i - 1]
  PROVE  Cardinality(Breaks(d, z + 1)) <= Cardinality(Breaks(ls, z)) + 1
<1> DEFINE U == Breaks(d, z + 1)
           S == U \ {<<n, 0>>}
           T == Breaks(ls, z)
           f == [b \in S |-> <<IF n < b[1] THEN b[1] - 1 ELSE b[1], b[2]>>]
<1>1. z + 1 \in Nat
  OBVIOUS
<1>2. /\ \A b \in U : /\ b = <<b[1], b[2]>> /\ b[1] \in Nat /\ b[1] < z + 1
                      /\ b[2] \in Nat /\ b[2] <= Width /\ IsBreak(d[b[1]], b[2])
      /\ \A i, k \in Nat : i < z /\ k <= Width /\ IsBreak(ls[i], k) => <<i, k>> \in T
  <2>1. \A b \in U : /\ b = <<b[1], b[2]>> /\ b[1] \in Nat /\ b[1] < z + 1
                     /\ b[2] \in Nat /\ b[2] <= Width /\ IsBreak(d[b[1]], b[2])
    BY <1>1, BreaksHas
  <2>2. \A i, k \in Nat : i < z /\ k <= Width /\ IsBreak(ls[i], k) => <<i, k>> \in T
    BY BreaksHas
  <2> QED
    BY <2>1, <2>2
<1>3. IsFiniteSet(T) /\ Cardinality(T) \in Nat /\ IsFiniteSet(U) /\ Cardinality(U) \in Nat
  BY <1>1, BreaksFinite
<1>4. Cardinality(S) = IF <<n, 0>> \in U THEN Cardinality(U) - 1 ELSE Cardinality(U)
  <2> HIDE DEF U
  <2> QED
    BY <1>3, FS_RemoveElement
<1>5. ASSUME NEW b \in S PROVE b \in U /\ b[1] # n
  <2>1. b \in U /\ b # <<n, 0>>
    OBVIOUS
  <2>2. b = <<b[1], b[2]>> /\ b[2] \in Nat /\ IsBreak(d[b[1]], b[2])
    BY <1>2, <2>1
  <2>3. CASE b[1] = n
    <3>1. IsBreak(EmptyLine, b[2])
      BY <2>2, <2>3
    <3>2. b[2] = 0
      BY <2>2, <3>1, EmptyFits DEF IsBreak
    <3> QED
      BY <2>1, <2>2, <2>3, <3>2
  <2> QED
    BY <2>1, <2>3
<1> HIDE DEF S, T, U
<1>6. ASSUME NEW b \in S PROVE f[b] \in T
  <2>1. /\ b[1] \in Nat /\ b[1] < z + 1 /\ b[2] \in Nat /\ b[2] <= Width /\ b[1] # n
        /\ IsBreak(d[b[1]], b[2])
    BY <1>2, <1>5
  <2>2. CASE n < b[1]
    <3>1. f[b] = <<b[1] - 1, b[2]>> /\ b[1] - 1 \in Nat /\ b[1] - 1 < z
      BY <2>1, <2>2
    <3>2. IsBreak(ls[b[1] - 1], b[2])
      BY <2>1, <2>2
    <3> QED
      BY <1>2, <2>1, <3>1, <3>2
  <2>3. CASE ~(n < b[1])
    <3>1. f[b] = <<b[1], b[2]>> /\ b[1] < z /\ b[1] < n
      BY <2>1, <2>3
    <3>2. IsBreak(ls[b[1]], b[2])
      BY <2>1, <3>1
    <3> QED
      BY <1>2, <2>1, <3>1, <3>2
  <2> QED
    BY <2>2, <2>3
<1>7. ASSUME NEW b \in S, NEW c \in S, f[b] = f[c] PROVE b = c
  <2>1. /\ b = <<b[1], b[2]>> /\ c = <<c[1], c[2]>> /\ b[1] \in Nat /\ c[1] \in Nat
        /\ b[1] # n /\ c[1] # n
    BY <1>2, <1>5
  <2>2. /\ (IF n < b[1] THEN b[1] - 1 ELSE b[1]) = (IF n < c[1] THEN c[1] - 1 ELSE c[1])
        /\ b[2] = c[2]
    BY <1>7
  <2>3. b[1] = c[1]
    BY <2>1, <2>2
  <2> QED
    BY <2>1, <2>2, <2>3
<1> HIDE DEF f
<1>8. Cardinality(S) <= Cardinality(T) /\ Cardinality(S) \in Nat
  BY <1>3, <1>6, <1>7, Embedded
<1>9. Cardinality(U) <= Cardinality(T) + 1
  BY <1>3, <1>4, <1>8
<1> QED
  BY <1>9 DEF T, U

\* A cell more is at most one more.
LEMMA BreaksMore ==
  ASSUME NEW ls, NEW d, NEW z \in Nat, NEW i \in Nat, i < z, NEW g, OneMore(ls[i], d[i], g),
         \A j \in Nat : j < z /\ j # i => d[j] = ls[j]
  PROVE  Cardinality(Breaks(d, z)) <= Cardinality(Breaks(ls, z)) + 1
<1> DEFINE U == Breaks(d, z)
           S == U \ {<<i, g>>}
           T == Breaks(ls, z)
           f == [b \in S |-> <<b[1], IF b[1] = i /\ g < b[2] THEN b[2] - 1 ELSE b[2]>>]
<1>1. /\ \A b \in U : /\ b = <<b[1], b[2]>> /\ b[1] \in Nat /\ b[1] < z
                      /\ b[2] \in Nat /\ b[2] <= Width /\ IsBreak(d[b[1]], b[2])
      /\ \A j, k \in Nat : j < z /\ k <= Width /\ IsBreak(ls[j], k) => <<j, k>> \in T
  BY BreaksHas
<1>2. IsFiniteSet(T) /\ Cardinality(T) \in Nat /\ IsFiniteSet(U) /\ Cardinality(U) \in Nat
  BY BreaksFinite
<1>3. Cardinality(S) = IF <<i, g>> \in U THEN Cardinality(U) - 1 ELSE Cardinality(U)
  <2> HIDE DEF U
  <2> QED
    BY <1>2, FS_RemoveElement
<1>4. ASSUME NEW b \in S PROVE b \in U /\ (b[1] = i => b[2] # g)
  <2>1. b \in U /\ b # <<i, g>> /\ b = <<b[1], b[2]>>
    BY <1>1
  <2> QED
    BY <2>1
<1> HIDE DEF S, T, U
<1>5. /\ ls[i].length \in Nat /\ d[i].length = ls[i].length + 1 /\ g \in Nat
      /\ g <= ls[i].length
      /\ \A k \in Nat : k < g => d[i].text[k] = ls[i].text[k]
      /\ \A k \in Nat : g < k /\ k <= ls[i].length => d[i].text[k] = ls[i].text[k - 1]
  BY DEF OneMore
<1>6. Width \in Nat
  BY Numbers
<1>7. ASSUME NEW b \in S PROVE f[b] \in T
  <2>1. /\ b[1] \in Nat /\ b[1] < z /\ b[2] \in Nat /\ b[2] <= Width
        /\ (b[1] = i => b[2] # g)
        /\ IsBreak(d[b[1]], b[2])
    BY <1>1, <1>4
  <2>2. CASE b[1] # i
    <3>1. f[b] = <<b[1], b[2]>> /\ IsBreak(ls[b[1]], b[2])
      BY <2>1, <2>2
    <3> QED
      BY <1>1, <2>1, <3>1
  <2>3. CASE b[1] = i /\ g < b[2]
    <3>1. f[b] = <<i, b[2] - 1>> /\ b[2] - 1 \in Nat /\ b[2] - 1 <= Width
      BY <1>5, <1>6, <2>1, <2>3
    <3>2. IsBreak(ls[i], b[2] - 1)
      <4>1. b[2] = d[i].length \/ (b[2] < d[i].length /\ d[i].text[b[2]] = Newline)
        BY <2>1, <2>3 DEF IsBreak
      <4>2. CASE b[2] = d[i].length
        <5>1. b[2] - 1 = ls[i].length
          BY <1>5, <4>2
        <5> QED
          BY <5>1 DEF IsBreak
      <4>3. CASE b[2] < d[i].length /\ d[i].text[b[2]] = Newline
        <5>1. b[2] <= ls[i].length /\ b[2] - 1 < ls[i].length
          BY <1>5, <2>1, <4>3
        <5>2. ls[i].text[b[2] - 1] = Newline
          BY <1>5, <2>1, <2>3, <4>3, <5>1
        <5> QED
          BY <5>1, <5>2 DEF IsBreak
      <4> QED
        BY <4>1, <4>2, <4>3
    <3> QED
      BY <1>1, <2>1, <2>3, <3>1, <3>2
  <2>4. CASE b[1] = i /\ ~(g < b[2])
    <3>1. f[b] = <<i, b[2]>> /\ b[2] < g /\ b[2] < ls[i].length /\ b[2] # d[i].length
      BY <1>5, <2>1, <2>4
    <3>2. d[i].text[b[2]] = Newline /\ d[i].text[b[2]] = ls[i].text[b[2]]
      BY <1>5, <2>1, <2>4, <3>1 DEF IsBreak
    <3>3. IsBreak(ls[i], b[2])
      BY <3>1, <3>2 DEF IsBreak
    <3> QED
      BY <1>1, <2>1, <2>4, <3>1, <3>3
  <2> QED
    BY <2>2, <2>3, <2>4
<1>8. ASSUME NEW b \in S, NEW c \in S, f[b] = f[c] PROVE b = c
  <2>1. /\ b = <<b[1], b[2]>> /\ c = <<c[1], c[2]>> /\ b[2] \in Nat /\ c[2] \in Nat
        /\ (b[1] = i => b[2] # g) /\ (c[1] = i => c[2] # g)
    BY <1>1, <1>4
  <2>2. /\ (IF b[1] = i /\ g < b[2] THEN b[2] - 1 ELSE b[2])
             = (IF c[1] = i /\ g < c[2] THEN c[2] - 1 ELSE c[2])
        /\ b[1] = c[1]
    BY <1>8
  <2>3. b[2] = c[2]
    BY <1>5, <2>1, <2>2
  <2> QED
    BY <2>1, <2>2, <2>3
<1> HIDE DEF f
<1>9. Cardinality(S) <= Cardinality(T) /\ Cardinality(S) \in Nat
  BY <1>2, <1>7, <1>8, Embedded
<1>10. Cardinality(U) <= Cardinality(T) + 1
  BY <1>2, <1>3, <1>9
<1> QED
  BY <1>10 DEF T, U

\* A cell less is none more.
LEMMA BreaksLess ==
  ASSUME NEW ls, NEW d, NEW z \in Nat, NEW i \in Nat, i < z, NEW g, OneMore(d[i], ls[i], g),
         ls[i].length <= Width,
         \A j \in Nat : j < z /\ j # i => d[j] = ls[j]
  PROVE  Cardinality(Breaks(d, z)) <= Cardinality(Breaks(ls, z))
<1> DEFINE S == Breaks(d, z)
           T == Breaks(ls, z)
           f == [b \in S |-> <<b[1], IF b[1] = i /\ g <= b[2] THEN b[2] + 1 ELSE b[2]>>]
<1>1. /\ \A b \in S : /\ b = <<b[1], b[2]>> /\ b[1] \in Nat /\ b[1] < z
                      /\ b[2] \in Nat /\ b[2] <= Width /\ IsBreak(d[b[1]], b[2])
      /\ \A j, k \in Nat : j < z /\ k <= Width /\ IsBreak(ls[j], k) => <<j, k>> \in T
  BY BreaksHas
<1>2. IsFiniteSet(T)
  BY BreaksFinite
<1> HIDE DEF S, T
<1>3. /\ d[i].length \in Nat /\ ls[i].length = d[i].length + 1 /\ g \in Nat
      /\ g <= d[i].length
      /\ \A k \in Nat : k < g => ls[i].text[k] = d[i].text[k]
      /\ \A k \in Nat : g < k /\ k <= d[i].length => ls[i].text[k] = d[i].text[k - 1]
  BY DEF OneMore
<1>4. Width \in Nat
  BY Numbers
<1>5. ASSUME NEW b \in S PROVE f[b] \in T
  <2>1. /\ b[1] \in Nat /\ b[1] < z /\ b[2] \in Nat /\ b[2] <= Width
        /\ IsBreak(d[b[1]], b[2])
    BY <1>1
  <2>2. CASE b[1] # i
    <3>1. f[b] = <<b[1], b[2]>> /\ IsBreak(ls[b[1]], b[2])
      BY <2>1, <2>2
    <3> QED
      BY <1>1, <2>1, <3>1
  <2>3. CASE b[1] = i /\ g <= b[2]
    <3>1. f[b] = <<i, b[2] + 1>> /\ b[2] + 1 \in Nat /\ b[2] <= d[i].length
      BY <1>3, <2>1, <2>3 DEF IsBreak
    <3>2. b[2] + 1 <= Width
      BY <1>3, <1>4, <2>1, <3>1
    <3>3. IsBreak(ls[i], b[2] + 1)
      <4>1. b[2] = d[i].length \/ (b[2] < d[i].length /\ d[i].text[b[2]] = Newline)
        BY <2>1, <2>3 DEF IsBreak
      <4>2. CASE b[2] = d[i].length
        <5>1. b[2] + 1 = ls[i].length
          BY <1>3, <4>2
        <5> QED
          BY <5>1 DEF IsBreak
      <4>3. CASE b[2] < d[i].length /\ d[i].text[b[2]] = Newline
        <5>1. /\ g < b[2] + 1 /\ b[2] + 1 <= d[i].length /\ b[2] + 1 < ls[i].length
              /\ (b[2] + 1) - 1 = b[2]
          BY <1>3, <2>1, <2>3, <4>3
        <5>2. ls[i].text[b[2] + 1] = Newline
          BY <1>3, <3>1, <4>3, <5>1
        <5> QED
          BY <5>1, <5>2 DEF IsBreak
      <4> QED
        BY <4>1, <4>2, <4>3
    <3> QED
      BY <1>1, <2>1, <2>3, <3>1, <3>2, <3>3
  <2>4. CASE b[1] = i /\ ~(g <= b[2])
    <3>1. f[b] = <<i, b[2]>> /\ b[2] < g /\ b[2] < ls[i].length /\ b[2] # d[i].length
      BY <1>3, <2>1, <2>4
    <3>2. d[i].text[b[2]] = Newline /\ d[i].text[b[2]] = ls[i].text[b[2]]
      BY <1>3, <2>1, <2>4, <3>1 DEF IsBreak
    <3>3. IsBreak(ls[i], b[2])
      BY <3>1, <3>2 DEF IsBreak
    <3> QED
      BY <1>1, <2>1, <2>4, <3>1, <3>3
  <2> QED
    BY <2>2, <2>3, <2>4
<1>6. ASSUME NEW b \in S, NEW c \in S, f[b] = f[c] PROVE b = c
  <2>1. /\ b = <<b[1], b[2]>> /\ c = <<c[1], c[2]>> /\ b[2] \in Nat /\ c[2] \in Nat
    BY <1>1
  <2>2. /\ (IF b[1] = i /\ g <= b[2] THEN b[2] + 1 ELSE b[2])
             = (IF c[1] = i /\ g <= c[2] THEN c[2] + 1 ELSE c[2])
        /\ b[1] = c[1]
    BY <1>6
  <2>3. b[2] = c[2]
    BY <1>3, <2>1, <2>2
  <2> QED
    BY <2>1, <2>2, <2>3
<1> HIDE DEF f
<1>7. Cardinality(S) <= Cardinality(T)
  BY <1>2, <1>5, <1>6, Embedded
<1> QED
  BY <1>7 DEF S, T

\* Deleting and inserting lines keeps the array in shape.
LEMMA DeleteFits ==
  ASSUME NEW r, NEW w, NEW ls, ArrayFits(ls, r, w), r \in Nat, NEW n \in Nat, HasEnd(ls, n)
  PROVE  ArrayFits(delete_line(ls, n), r, w)
<1> DEFINE d == delete_line(ls, n)
<1>1. /\ ls \in [Slot -> Line] /\ HasEnd(ls, 0)
      /\ \A i \in Slot : LineFits(ls[i], w)
      /\ \A i \in Slot : ls[i].length = -1 => i <= r
      /\ \A i \in 0 .. num_lines(ls) - 1 : ls[i].text # NoText
      /\ Cardinality(Breaks(ls, num_lines(ls))) <= r
  BY DEF ArrayFits
<1>2. PICK z \in Nat : z = num_lines(ls) /\ z \in Slot
  BY <1>1, NumFacts
<1>3. PICK m : m = EndFrom(ls, n)
  OBVIOUS
<1>4. /\ d \in [Slot -> Line] /\ m \in Slot /\ m \in Nat /\ n <= m /\ ls[m].length = -1
      /\ \A i \in Slot : n <= i /\ i < m => d[i] = ls[i + 1] /\ i + 1 \in Slot
      /\ \A i \in Slot : ~(n <= i /\ i < m) => d[i] = ls[i]
      /\ HasEnd(d, 0)
      /\ n < z => num_lines(d) = z - 1 /\ m = z
      /\ ~(n < z) => num_lines(d) = z
  BY <1>1, <1>2, <1>3, DeleteFacts
<1> HIDE DEF d
<1>5. \A i \in Slot : LineFits(d[i], w)
  BY <1>1, <1>4
<1>6. ASSUME NEW i \in Slot, d[i].length = -1 PROVE i <= r
  <2>1. i \in Nat
    BY Numbers
  <2>2. CASE n <= i /\ i < m
    <3>1. i + 1 \in Slot /\ ls[i + 1].length = -1
      BY <1>4, <1>6, <2>2
    <3>2. i + 1 <= r
      BY <1>1, <3>1
    <3> QED
      BY <2>1, <3>2
  <2>3. CASE ~(n <= i /\ i < m)
    BY <1>1, <1>4, <1>6, <2>3
  <2> QED
    BY <2>2, <2>3
<1>7. \A i \in Nat : i < z => i \in Slot /\ ls[i].text # NoText /\ i \in 0 .. z - 1
  BY <1>1, <1>2, Numbers
<1>8. Cardinality(Breaks(ls, z)) \in Nat /\ Cardinality(Breaks(ls, z)) <= r
  BY <1>1, <1>2, BreaksFinite
<1>9. CASE n < z
  <2>1. num_lines(d) = z - 1 /\ m = z
    BY <1>4, <1>9
  <2>2. \A i \in Nat : /\ i < n => ~(n <= i /\ i < m) /\ i < z
                       /\ n <= i /\ i < z - 1 => n <= i /\ i < m /\ i < z /\ i + 1 < z
                       /\ i < z - 1 => i < n \/ n <= i
    BY <1>9, <2>1
  <2>3. /\ \A i \in Nat : i < n => d[i] = ls[i]
        /\ \A i \in Nat : n <= i /\ i < z - 1 => d[i] = ls[i + 1]
    BY <1>4, <1>7, <2>2
  <2>4. Cardinality(Breaks(d, z - 1)) <= Cardinality(Breaks(ls, z))
    BY <1>9, <2>3, BreaksDelete
  <2>5. z - 1 \in Nat
    BY <1>9
  <2>6. Cardinality(Breaks(d, z - 1)) \in Nat
    BY <2>5, BreaksFinite
  <2>7. Cardinality(Breaks(d, z - 1)) <= r
    BY <1>8, <2>4, <2>6
  <2>8. ASSUME NEW i \in 0 .. z - 1 - 1 PROVE d[i].text # NoText
    <3>1. i \in Nat /\ i < z - 1 /\ i < z /\ i + 1 \in Nat /\ i + 1 < z
      BY <1>2
    <3>2. d[i] = ls[i] \/ d[i] = ls[i + 1]
      BY <2>2, <2>3, <3>1
    <3> QED
      BY <1>7, <3>1, <3>2
  <2> QED
    BY <1>4, <1>5, <1>6, <2>1, <2>7, <2>8 DEF ArrayFits, d
<1>10. CASE ~(n < z)
  <2>1. num_lines(d) = z
    BY <1>4, <1>10
  <2>2. \A i \in Nat : i < z => ~(n <= i /\ i < m)
    BY <1>10
  <2>3. \A i \in Nat : i < z => d[i] = ls[i]
    BY <1>4, <1>7, <2>2
  <2>4. Breaks(d, z) = Breaks(ls, z)
    BY <2>3, BreaksSame
  <2>5. \A i \in 0 .. z - 1 : d[i].text # NoText
    BY <1>7, <2>3
  <2> QED
    BY <1>4, <1>5, <1>6, <1>8, <2>1, <2>4, <2>5 DEF ArrayFits, d
<1> QED
  BY <1>9, <1>10

LEMMA InsertFits ==
  ASSUME NEW r \in Nat, NEW w \in Nat, NEW ls, ArrayFits(ls, r, w), r + 1 \in Slot,
         NEW n \in Slot
  PROVE  ArrayFits(insert_line(ls, n), r + 1, w)
<1> DEFINE d == insert_line(ls, n)
<1>1. /\ ls \in [Slot -> Line] /\ HasEnd(ls, 0)
      /\ \A i \in Slot : LineFits(ls[i], w)
      /\ \A i \in Slot : ls[i].length = -1 => i <= r
      /\ \A i \in 0 .. num_lines(ls) - 1 : ls[i].text # NoText
      /\ Cardinality(Breaks(ls, num_lines(ls))) <= r
  BY DEF ArrayFits
<1>2. PICK z \in Nat : z = num_lines(ls) /\ z \in Slot /\ ls[z].length = -1
  BY <1>1, NumFacts
<1>3. z <= r /\ z + 1 \in Slot
  <2>1. z <= r
    BY <1>1, <1>2
  <2>2. z + 1 \in Nat /\ z + 1 <= r + 1
    BY <2>1
  <2> QED
    BY <2>1, <2>2, Numbers
<1>4. /\ d \in [Slot -> Line] /\ n \in Nat
      /\ d[n] = EmptyLine
      /\ \A i \in Slot : n < i /\ i <= z + 1 => d[i] = ls[i - 1] /\ i - 1 \in Slot
      /\ \A i \in Slot : i # n /\ ~(n < i /\ i <= z + 1) => d[i] = ls[i]
      /\ HasEnd(d, 0)
      /\ n <= z => num_lines(d) = z + 1
      /\ ~(n <= z) => num_lines(d) = z
  BY <1>1, <1>2, <1>3, InsertFacts
<1> HIDE DEF d
<1>5. \A i \in Slot : LineFits(d[i], w)
  BY <1>1, <1>4, EmptyFits
<1>6. ASSUME NEW i \in Slot, d[i].length = -1 PROVE i <= r + 1
  <2>1. i \in Nat
    BY Numbers
  <2>2. i # n
    BY <1>4, <1>6, EmptyFits
  <2>3. CASE n < i /\ i <= z + 1
    <3>1. i <= z + 1
      BY <2>3
    <3> QED
      BY <1>3, <2>1, <3>1
  <2>4. CASE ~(n < i /\ i <= z + 1)
    <3>1. ls[i].length = -1
      BY <1>4, <1>6, <2>2, <2>4
    <3>2. i <= r
      BY <1>1, <3>1
    <3> QED
      BY <2>1, <3>2
  <2> QED
    BY <2>3, <2>4
<1>7. \A i \in Nat : i < z => i \in Slot /\ ls[i].text # NoText /\ i \in 0 .. z - 1
  BY <1>1, <1>2, Numbers
<1>8. Cardinality(Breaks(ls, z)) \in Nat /\ Cardinality(Breaks(ls, z)) <= r
  BY <1>1, <1>2, BreaksFinite
<1>9. CASE n <= z
  <2>1. num_lines(d) = z + 1
    BY <1>4, <1>9
  <2>2. \A i \in Nat : /\ i < n => i # n /\ ~(n < i /\ i <= z + 1) /\ i < z
                       /\ n < i /\ i < z + 1 => /\ n < i /\ i <= z + 1 /\ i <= z
                                                /\ i - 1 \in Nat /\ i - 1 < z
                       /\ i < z + 1 => i < n \/ n < i \/ i = n
                       /\ i <= z => i \in Slot
    <3>1. \A i \in Nat : i <= z => i \in Slot
      BY <1>2, Numbers
    <3> QED
      BY <1>4, <1>9, <3>1
  <2>3. /\ \A i \in Nat : i < n => d[i] = ls[i]
        /\ \A i \in Nat : n < i /\ i < z + 1 => d[i] = ls[i - 1]
    BY <1>4, <1>7, <2>2
  <2>4. Cardinality(Breaks(d, z + 1)) <= Cardinality(Breaks(ls, z)) + 1
    BY <1>4, <1>9, <2>3, BreaksInsert
  <2>5. z + 1 \in Nat
    OBVIOUS
  <2>6. Cardinality(Breaks(d, z + 1)) \in Nat
    BY <2>5, BreaksFinite
  <2>7. Cardinality(Breaks(d, z + 1)) <= r + 1
    BY <1>8, <2>4, <2>6
  <2>8. ASSUME NEW i \in 0 .. z + 1 - 1 PROVE d[i].text # NoText
    <3>1. i \in Nat /\ i < z + 1
      BY <1>2
    <3>2. \/ d[i] = EmptyLine
          \/ i < z /\ d[i] = ls[i]
          \/ i - 1 \in Nat /\ i - 1 < z /\ d[i] = ls[i - 1]
      BY <1>4, <2>2, <2>3, <3>1
    <3> QED
      BY <1>7, <3>1, <3>2, EmptyFits
  <2> QED
    BY <1>4, <1>5, <1>6, <2>1, <2>7, <2>8 DEF ArrayFits, d
<1>10. CASE ~(n <= z)
  <2>1. num_lines(d) = z
    BY <1>4, <1>10
  <2>2. \A i \in Nat : i < z => i # n /\ ~(n < i /\ i <= z + 1)
    BY <1>4, <1>10
  <2>3. \A i \in Nat : i < z => d[i] = ls[i]
    BY <1>4, <1>7, <2>2
  <2>4. Breaks(d, z) = Breaks(ls, z)
    BY <2>3, BreaksSame
  <2>5. \A i \in 0 .. z - 1 : d[i].text # NoText
    BY <1>7, <2>3
  <2>6. Cardinality(Breaks(d, z)) <= r + 1
    BY <1>8, <2>4
  <2> QED
    BY <1>4, <1>5, <1>6, <2>1, <2>5, <2>6 DEF ArrayFits, d
<1> QED
  BY <1>9, <1>10

\* Room for more is room for less.
LEMMA ArrayWider ==
  ASSUME NEW r \in Nat, NEW w \in Nat, NEW ls, ArrayFits(ls, r, w), NEW s \in Nat, r <= s,
         NEW v \in Nat, w <= v
  PROVE  ArrayFits(ls, s, v)
<1>1. /\ ls \in [Slot -> Line] /\ HasEnd(ls, 0)
      /\ \A i \in Slot : LineFits(ls[i], w)
      /\ \A i \in Slot : ls[i].length = -1 => i <= r
      /\ \A i \in 0 .. num_lines(ls) - 1 : ls[i].text # NoText
      /\ Cardinality(Breaks(ls, num_lines(ls))) <= r
  BY DEF ArrayFits
<1>2. ASSUME NEW i \in Slot PROVE LineFits(ls[i], v)
  <2>1. \A k \in Column : v <= k => w <= k
    BY Numbers
  <2>2. \A k \in 0 .. w : k \in 0 .. v
    OBVIOUS
  <2> QED
    BY <1>1, <2>1, <2>2 DEF LineFits
<1>3. \A i \in Slot : i \in Nat /\ (i <= r => i <= s)
  BY Numbers
<1>4. num_lines(ls) \in Nat
  BY <1>1, NumFacts
<1>5. Cardinality(Breaks(ls, num_lines(ls))) <= s
  <2>1. Cardinality(Breaks(ls, num_lines(ls))) \in Nat
    BY <1>4, BreaksFinite
  <2> QED
    BY <1>1, <2>1
<1> QED
  BY <1>1, <1>2, <1>3, <1>5 DEF ArrayFits

-----------------------------------------------------------------------------
(* The text of a line *)

\* The length of a string.
LEMMA StrlenFacts ==
  ASSUME NEW u, NEW z \in Column, u[z] = Nul
  PROVE  /\ strlen(u) \in Column /\ strlen(u) \in Nat /\ strlen(u) <= z
         /\ u[strlen(u)] = Nul
         /\ \A k \in Nat : k < strlen(u) => u[k] # Nul
<1> DEFINE T == {k \in Column : u[k] = Nul}
<1>1. z \in T /\ T \in SUBSET Nat
  BY Numbers
<1>2. PICK m \in T : \A k \in T : m <= k
  BY <1>1, Smallest
<1>3. m \in Nat /\ m \in Column /\ u[m] = Nul
  BY Numbers
<1>4. \A k \in 0 .. m - 1 : u[k] # Nul
  <2>1. SUFFICES ASSUME NEW k \in 0 .. m - 1, u[k] = Nul PROVE FALSE
    OBVIOUS
  <2>2. k \in Nat /\ k < m
    BY <1>3
  <2>3. k \in Column
    BY <1>3, <2>2, Numbers
  <2>4. m <= k
    BY <1>2, <2>1, <2>3
  <2> QED
    BY <1>3, <2>2, <2>4
<1> HIDE DEF T
<1>5. /\ strlen(u) \in Column /\ u[strlen(u)] = Nul
      /\ \A k \in 0 .. strlen(u) - 1 : u[k] # Nul
  BY <1>3, <1>4 DEF strlen
<1>6. strlen(u) \in Nat /\ z \in Nat
  BY <1>5, Numbers
<1>7. \A k \in Nat : k < strlen(u) => k \in 0 .. strlen(u) - 1
  BY <1>6
<1>8. ~(z < strlen(u))
  BY <1>5, <1>6, <1>7
<1> QED
  BY <1>5, <1>6, <1>7, <1>8

LEMMA StrlenIs ==
  ASSUME NEW u, NEW n \in Column, u[n] = Nul, \A k \in Nat : k < n => u[k] # Nul
  PROVE  strlen(u) = n
<1>1. PICK s \in Nat : s = strlen(u)
  BY StrlenFacts
<1>2. u[s] = Nul /\ s <= n
  BY <1>1, StrlenFacts
<1>3. n \in Nat
  BY Numbers
<1>4. ~(s < n)
  BY <1>2
<1> QED
  BY <1>1, <1>2, <1>3, <1>4

\* A line with a text is no longer than the string, which lies within w cells.
LEMMA LineFacts ==
  ASSUME NEW w \in Nat, w \in Column, NEW l, LineFits(l, w), l.text # NoText
  PROVE  /\ l.text \in Text /\ l.length \in Nat /\ l.length <= w
         /\ strlen(l.text) \in Nat /\ strlen(l.text) <= w /\ l.length <= strlen(l.text)
         /\ l.text[strlen(l.text)] = Nul
         /\ \A k \in Nat : k < strlen(l.text) => l.text[k] # Nul
         /\ \A k \in Column : w <= k => l.text[k] = Nul
<1>1. /\ l.text \in Text /\ l.length \in 0 .. w
      /\ \A k \in Column : w <= k => l.text[k] = Nul
      /\ \A k \in 0 .. l.length - 1 : l.text[k] # Nul
  BY DEF LineFits
<1>2. l.text[w] = Nul
  BY <1>1
<1>3. PICK s \in Nat : s = strlen(l.text)
  BY <1>2, StrlenFacts
<1>4. /\ s <= w /\ l.text[s] = Nul /\ \A k \in Nat : k < s => l.text[k] # Nul
  BY <1>2, <1>3, StrlenFacts
<1>5. l.length \in Nat /\ l.length <= w /\ ~(s < l.length)
  <2>1. l.length \in Nat /\ l.length <= w
    BY <1>1
  <2>2. s < l.length => s \in 0 .. l.length - 1
    BY <2>1
  <2> QED
    BY <1>1, <1>4, <2>1, <2>2
<1> QED
  BY <1>1, <1>3, <1>4, <1>5

\* A character typed into a string, or behind it.
LEMMA TypeFacts ==
  ASSUME NEW w \in Nat, w + 1 \in Column, NEW l, LineFits(l, w), l.text # NoText,
         NEW x \in Nat, x <= w, NEW c \in Char,
         NEW t, t = [shiftright(l.text, x) EXCEPT ![x] = c],
         NEW m, m = [text |-> t, length |-> l.length + 1]
  PROVE  /\ LineFits(m, w + 1) /\ m \in Line /\ m.text # NoText
         /\ \E g \in Nat : OneMore(l, m, g)
         /\ x <= l.length /\ Clean(l) => Clean(m)
<1> DEFINE u == l.text
           s == strlen(u)
           gap == IF x < s THEN x ELSE s
<1>1. w \in Column
  <2>1. w + 1 \in Nat /\ w <= w + 1
    OBVIOUS
  <2> QED
    BY <2>1, Numbers
<1>2. /\ u \in Text /\ l.length \in Nat /\ l.length <= w
      /\ s \in Nat /\ s <= w /\ l.length <= s /\ u[s] = Nul
      /\ \A k \in Nat : k < s => u[k] # Nul
      /\ \A k \in Column : w <= k => u[k] = Nul
  BY <1>1, LineFacts
<1>3. /\ x \in Column /\ gap \in Nat /\ gap <= s /\ gap <= x
      /\ x <= s => gap = x
  BY <1>1, <1>2, Numbers
<1>4. \A k \in Column : k \in Nat /\ (gap < k => k - 1 \in Column)
  <2>1. \A k \in Column : k \in Nat /\ (gap < k => k - 1 \in Nat /\ k - 1 <= k)
    BY <1>3, Numbers
  <2> QED
    BY <2>1, Numbers
<1>5. Space \in Char
  BY DEF Char
<1>6. shiftright(u, x) = [k \in Column |-> IF k = gap THEN Space
                            ELSE IF gap < k /\ k <= s THEN u[k - 1] ELSE u[k]]
  BY DEF shiftright
<1> HIDE DEF gap, s
<1>7. shiftright(u, x) \in Text
  BY <1>2, <1>4, <1>5, <1>6 DEF Text
<1>8. t \in Text /\ t[x] = c /\ \A k \in Column : k # x => t[k] = shiftright(u, x)[k]
  BY <1>3, <1>7 DEF Text
<1>9. /\ \A k \in Column : k < gap => t[k] = u[k]
      /\ t[gap] \in Char
      /\ \A k \in Column : gap < k /\ k <= s => t[k] = u[k - 1]
      /\ \A k \in Column : s < k /\ k # x => t[k] = u[k]
  <2>1. gap \in Column
    BY <1>1, <1>2, <1>3, Numbers
  <2>2. ASSUME NEW k \in Column, k < gap PROVE t[k] = u[k]
    <3>1. k # x /\ k # gap /\ ~(gap < k)
      BY <1>3, <1>4, <2>2
    <3> QED
      BY <1>6, <1>8, <3>1
  <2>3. t[gap] \in Char
    <3>1. CASE gap = x
      BY <1>8, <3>1
    <3>2. CASE gap # x
      BY <1>5, <1>6, <1>8, <2>1, <3>2
    <3> QED
      BY <3>1, <3>2
  <2>4. ASSUME NEW k \in Column, gap < k, k <= s PROVE t[k] = u[k - 1]
    <3>1. k # x /\ k # gap
      BY <1>2, <1>3, <1>4, <2>4 DEF gap
    <3> QED
      BY <1>6, <1>8, <2>4, <3>1
  <2>5. ASSUME NEW k \in Column, s < k, k # x PROVE t[k] = u[k]
    <3>1. k # gap /\ ~(gap < k /\ k <= s)
      BY <1>2, <1>3, <1>4, <2>5
    <3> QED
      BY <1>6, <1>8, <2>5, <3>1
  <2> QED
    BY <2>2, <2>3, <2>4, <2>5
<1>10. ASSUME NEW k \in Nat, k <= s PROVE t[k] # Nul /\ k \in Column
  <2>1. k \in Column
    BY <1>1, <1>2, <1>10, Numbers
  <2>2. CASE k < gap
    <3>1. k < s
      BY <1>2, <1>3, <2>2
    <3>2. t[k] = u[k]
      BY <1>9, <2>1, <2>2
    <3> QED
      BY <1>2, <2>1, <3>1, <3>2
  <2>3. CASE k = gap
    BY <1>9, <2>1, <2>3, Characters
  <2>4. CASE gap < k
    <3>1. k - 1 \in Nat /\ k - 1 < s
      BY <1>2, <1>3, <1>10, <2>4
    <3> QED
      BY <1>2, <1>9, <1>10, <2>1, <2>4, <3>1
  <2> QED
    BY <1>3, <2>1, <2>2, <2>3, <2>4
<1>11. m.text = t /\ m.length = l.length + 1
  OBVIOUS
<1>12. ASSUME NEW k \in Column, w + 1 <= k PROVE t[k] = Nul
  <2>1. s < k /\ k # x /\ w <= k
    BY <1>2, <1>4, <1>12
  <2> QED
    BY <1>2, <1>9, <2>1
<1>13. /\ LineFits(m, w + 1) /\ m \in Line /\ m.text # NoText
  <2>1. l.length + 1 \in 0 .. w + 1
    BY <1>2
  <2>2. \A k \in 0 .. l.length + 1 - 1 : k \in Nat /\ k <= s
    BY <1>2
  <2>3. LineFits(m, w + 1)
    BY <1>8, <1>10, <1>11, <1>12, <2>1, <2>2 DEF LineFits
  <2>4. t # NoText
    BY <1>8, Characters
  <2>5. l.length + 1 \in -1 .. Width
    <3>1. w + 1 <= Width
      BY Numbers
    <3> QED
      BY <1>2, <3>1, Numbers
  <2>6. m \in Line
    BY <1>8, <2>5 DEF Line
  <2> QED
    BY <1>11, <2>3, <2>4, <2>6
<1>14. \E g \in Nat : OneMore(l, m, g)
  <2> DEFINE g == IF gap < l.length THEN gap ELSE l.length
  <2>1. g \in Nat /\ g <= l.length /\ g <= gap
    BY <1>2, <1>3
  <2>2. ASSUME NEW k \in Nat, k < g PROVE t[k] = u[k]
    <3>1. k \in Column /\ k < gap
      BY <1>2, <1>3, <1>10, <2>1, <2>2
    <3> QED
      BY <1>9, <3>1
  <2>3. ASSUME NEW k \in Nat, g < k, k <= l.length PROVE t[k] = u[k - 1]
    <3>1. gap < k /\ k <= s
      BY <1>2, <1>3, <2>3
    <3>2. k \in Column
      BY <1>10, <3>1
    <3> QED
      BY <1>9, <3>1, <3>2
  <2> HIDE DEF g
  <2>4. OneMore(l, m, g)
    BY <1>2, <1>11, <2>1, <2>2, <2>3 DEF OneMore
  <2> QED
    BY <2>1, <2>4
<1>15. ASSUME x <= l.length, Clean(l) PROVE Clean(m)
  <2>1. l.length \in Column
    BY <1>1, <1>2, Numbers
  <2>2. u[l.length] = Nul
    BY <1>2, <1>15, <2>1 DEF Clean
  <2>3. s = l.length
    BY <1>2, <2>2
  <2>4. ASSUME NEW k \in Column, l.length + 1 <= k PROVE t[k] = Nul
    <3>1. s < k /\ k # x /\ l.length <= k
      BY <1>2, <1>4, <1>15, <2>3, <2>4
    <3> QED
      BY <1>9, <1>15, <3>1 DEF Clean
  <2> QED
    BY <1>11, <2>4 DEF Clean
<1> QED
  BY <1>11, <1>13, <1>14, <1>15

\* A character deleted, at x or at the end if there is none at x.
LEMMA DeleteCharFacts ==
  ASSUME NEW w \in Nat, w \in Column, NEW l, LineFits(l, w), l.text # NoText, l.length # 0,
         NEW x \in Nat, NEW m, m = [text |-> shiftleft(l.text, x), length |-> l.length - 1]
  PROVE  /\ LineFits(m, w) /\ m \in Line /\ m.text # NoText
         /\ \E g \in Nat : OneMore(m, l, g)
         /\ x < l.length /\ Clean(l) => Clean(m)
<1> DEFINE u == l.text
           t == shiftleft(u, x)
           s == strlen(u)
<1>1. /\ u \in Text /\ l.length \in Nat /\ l.length <= w
      /\ s \in Nat /\ s <= w /\ l.length <= s /\ u[s] = Nul
      /\ \A k \in Nat : k < s => u[k] # Nul
      /\ \A k \in Column : w <= k => u[k] = Nul
  BY LineFacts
<1>2. \A k \in Column : k \in Nat
  BY Numbers
<1>3. \A k \in Column : k < s => k + 1 \in Column
  <2>1. s \in Column
    BY <1>1, Numbers
  <2>2. \A k \in Column : k < s => k + 1 \in Nat /\ k + 1 <= s
    BY <1>1, <1>2
  <2> QED
    BY <2>1, <2>2, Numbers
<1>4. t = [k \in Column |-> IF x <= k /\ k < s THEN u[k + 1] ELSE u[k]]
  BY DEF shiftleft
<1> HIDE DEF t, s
<1>5. t \in Text
  BY <1>1, <1>3, <1>4 DEF Text
<1>6. m.text = t /\ m.length = l.length - 1
  BY DEF t
<1>7. \A k \in Nat : k <= s => k \in Column
  BY <1>1, Numbers
<1>8. ASSUME NEW k \in Nat, k < l.length - 1 PROVE t[k] # Nul
  <2>1. k < s /\ k <= s /\ k + 1 < s /\ k + 1 \in Nat
    BY <1>1, <1>8
  <2>2. k \in Column
    BY <1>7, <2>1
  <2>3. t[k] = u[k] \/ t[k] = u[k + 1]
    BY <1>4, <2>2
  <2> QED
    BY <1>1, <2>1, <2>3
<1>9. ASSUME NEW k \in Column, w <= k PROVE t[k] = Nul
  <2>1. ~(k < s)
    BY <1>1, <1>2, <1>9
  <2> QED
    BY <1>1, <1>4, <1>9, <2>1
<1>10. /\ LineFits(m, w) /\ m \in Line /\ m.text # NoText
  <2>1. l.length - 1 \in 0 .. w
    BY <1>1
  <2>2. \A k \in 0 .. l.length - 1 - 1 : k \in Nat /\ k < l.length - 1
    BY <1>1
  <2>3. LineFits(m, w)
    BY <1>5, <1>6, <1>8, <1>9, <2>1, <2>2 DEF LineFits
  <2>4. t # NoText
    BY <1>5, Characters
  <2>5. l.length - 1 \in -1 .. Width
    <3>1. w < Width
      BY Numbers
    <3> QED
      BY <1>1, <3>1, Numbers
  <2>6. m \in Line
    BY <1>5, <1>6, <2>5 DEF Line, t
  <2> QED
    BY <1>6, <2>3, <2>4, <2>6
<1>11. \E g \in Nat : OneMore(m, l, g)
  <2> DEFINE g == IF x < l.length - 1 THEN x ELSE l.length - 1
  <2>1. l.length - 1 \in Nat /\ (l.length - 1) + 1 = l.length /\ g \in Nat /\ g <= l.length - 1 /\ g <= x
    BY <1>1
  <2>2. ASSUME NEW k \in Nat, k < g PROVE u[k] = t[k]
    <3>1. k <= s /\ ~(x <= k)
      BY <1>1, <2>1, <2>2
    <3> QED
      BY <1>4, <1>7, <3>1
  <2>3. ASSUME NEW k \in Nat, g < k, k <= l.length - 1 PROVE u[k] = t[k - 1]
    <3>1. k - 1 \in Nat /\ x <= k - 1 /\ k - 1 < s /\ k - 1 <= s /\ (k - 1) + 1 = k
      BY <1>1, <2>3
    <3> QED
      BY <1>4, <1>7, <3>1
  <2> HIDE DEF g
  <2>4. OneMore(m, l, g)
    BY <1>6, <2>1, <2>2, <2>3 DEF OneMore
  <2> QED
    BY <2>1, <2>4
<1>12. ASSUME x < l.length, Clean(l) PROVE Clean(m)
  <2>1. l.length \in Column
    BY <1>1, Numbers
  <2>2. u[l.length] = Nul
    BY <1>1, <1>12, <2>1 DEF Clean
  <2>3. s = l.length
    BY <1>1, <2>2
  <2>4. ASSUME NEW k \in Column, l.length - 1 <= k PROVE t[k] = Nul
    <3>1. CASE k < s
      <4>1. x <= k /\ k + 1 = l.length
        BY <1>1, <1>2, <1>12, <2>3, <2>4, <3>1
      <4> QED
        BY <1>4, <2>2, <3>1, <4>1
    <3>2. CASE ~(k < s)
      <4>1. l.length <= k
        BY <1>1, <1>2, <2>3, <3>2
      <4> QED
        BY <1>4, <1>12, <3>2, <4>1 DEF Clean
    <3> QED
      BY <3>1, <3>2
  <2> QED
    BY <1>6, <2>4 DEF Clean
<1> QED
  BY <1>10, <1>11, <1>12

-----------------------------------------------------------------------------
(* Changing one line of the array *)

\* Lines that stand for other lines, none of them the end.
LEMMA SetSame ==
  ASSUME NEW ls \in [Slot -> Line], HasEnd(ls, 0), NEW i \in Slot, ls[i].length # -1,
         NEW m \in Line, m.length # -1, NEW d, d = SetLine(ls, i, m)
  PROVE  /\ d \in [Slot -> Line] /\ d[i] = m /\ \A j \in Slot : j # i => d[j] = ls[j]
         /\ HasEnd(d, 0) /\ num_lines(d) = num_lines(ls)
<1>1. d \in [Slot -> Line] /\ d[i] = m /\ \A j \in Slot : j # i => d[j] = ls[j]
  BY DEF SetLine
<1>2. PICK z \in Nat : z = num_lines(ls)
  BY NumFacts
<1>3. z \in Slot /\ ls[z].length = -1 /\ \A j \in Nat : j < z => ls[j].length # -1 /\ j \in Slot
  BY <1>2, NumFacts
<1>4. d[z].length = -1 /\ \A j \in Nat : j < z => d[j].length # -1
  BY <1>1, <1>3
<1> QED
  BY <1>1, <1>2, <1>3, <1>4, NumIs

\* One with a cell more, or less.
LEMMA SetMore ==
  ASSUME NEW r \in Nat, NEW w \in Nat, w + 1 \in Column, NEW ls, ArrayFits(ls, r, w),
         NEW i \in Slot, NEW m \in Line, LineFits(m, w + 1), m.text # NoText,
         NEW g, OneMore(ls[i], m, g), NEW d, d = SetLine(ls, i, m)
  PROVE  ArrayFits(d, r + 1, w + 1) /\ num_lines(d) = num_lines(ls)
<1>1. ArrayFits(ls, r + 1, w + 1)
  <2>1. r + 1 \in Nat /\ r <= r + 1 /\ w + 1 \in Nat /\ w <= w + 1
    OBVIOUS
  <2> QED
    BY <2>1, ArrayWider
<1>2. /\ ls \in [Slot -> Line] /\ HasEnd(ls, 0)
      /\ \A j \in Slot : LineFits(ls[j], w + 1)
      /\ \A j \in Slot : ls[j].length = -1 => j <= r + 1
      /\ \A j \in 0 .. num_lines(ls) - 1 : ls[j].text # NoText
  BY <1>1 DEF ArrayFits
<1>3. Cardinality(Breaks(ls, num_lines(ls))) <= r
  BY DEF ArrayFits
<1>4. PICK z \in Nat : z = num_lines(ls)
  BY <1>2, NumFacts
<1>5. \A j \in Nat : j < z => j \in Slot
  BY <1>2, <1>4, NumFacts
<1>6. ls[i].length # -1 /\ m.length # -1
  BY DEF OneMore
<1>7. /\ d \in [Slot -> Line] /\ d[i] = m /\ \A j \in Slot : j # i => d[j] = ls[j]
      /\ HasEnd(d, 0) /\ num_lines(d) = z
  <2>1. /\ ls \in [Slot -> Line] /\ HasEnd(ls, 0) /\ i \in Slot /\ ls[i].length # -1
        /\ m \in Line /\ m.length # -1 /\ d = SetLine(ls, i, m)
    BY <1>2, <1>6
  <2>2. /\ d \in [Slot -> Line] /\ d[i] = m /\ \A j \in Slot : j # i => d[j] = ls[j]
        /\ HasEnd(d, 0) /\ num_lines(d) = num_lines(ls)
    BY ONLY <2>1, SetSame
  <2> QED
    BY <1>4, <2>2
<1>8. /\ \A j \in Slot : LineFits(d[j], w + 1)
      /\ \A j \in Slot : d[j].length = -1 => j <= r + 1
  BY <1>2, <1>6, <1>7
<1>9. \A j \in 0 .. z - 1 : d[j].text # NoText
  BY <1>2, <1>4, <1>5, <1>7
<1>10. Cardinality(Breaks(ls, z)) \in Nat /\ Cardinality(Breaks(d, z)) \in Nat
  BY BreaksFinite
<1>11. i \in Nat
  BY Numbers
<1>12. Cardinality(Breaks(d, z)) <= r + 1
  <2>1. CASE i < z
    <3>1. Cardinality(Breaks(d, z)) <= Cardinality(Breaks(ls, z)) + 1
      BY <1>5, <1>7, <1>11, <2>1, BreaksMore
    <3> QED
      BY <1>3, <1>4, <1>10, <3>1
  <2>2. CASE ~(i < z)
    <3>1. \A j \in Nat : j < z => j # i
      BY <1>11, <2>2
    <3>2. \A j \in Nat : j < z => d[j] = ls[j]
      BY <1>5, <1>7, <3>1
    <3>3. Breaks(d, z) = Breaks(ls, z)
      BY <3>2, BreaksSame
    <3> QED
      BY <1>3, <1>4, <1>10, <3>3
  <2> QED
    BY <2>1, <2>2
<1> QED
  BY <1>4, <1>7, <1>8, <1>9, <1>12 DEF ArrayFits

LEMMA SetLess ==
  ASSUME NEW r \in Nat, NEW w \in Nat, NEW ls, ArrayFits(ls, r, w),
         NEW i \in Slot, NEW m \in Line, LineFits(m, w), m.text # NoText,
         NEW g, OneMore(m, ls[i], g), NEW d, d = SetLine(ls, i, m)
  PROVE  ArrayFits(d, r, w) /\ num_lines(d) = num_lines(ls)
<1>1. /\ ls \in [Slot -> Line] /\ HasEnd(ls, 0)
      /\ \A j \in Slot : LineFits(ls[j], w)
      /\ \A j \in Slot : ls[j].length = -1 => j <= r
      /\ \A j \in 0 .. num_lines(ls) - 1 : ls[j].text # NoText
      /\ Cardinality(Breaks(ls, num_lines(ls))) <= r
  BY DEF ArrayFits
<1>2. PICK z \in Nat : z = num_lines(ls)
  BY <1>1, NumFacts
<1>3. \A j \in Nat : j < z => j \in Slot
  BY <1>1, <1>2, NumFacts
<1>4. ls[i].length # -1 /\ m.length # -1
  BY DEF OneMore
<1>5. /\ d \in [Slot -> Line] /\ d[i] = m /\ \A j \in Slot : j # i => d[j] = ls[j]
      /\ HasEnd(d, 0) /\ num_lines(d) = z
  <2>1. /\ ls \in [Slot -> Line] /\ HasEnd(ls, 0) /\ i \in Slot /\ ls[i].length # -1
        /\ m \in Line /\ m.length # -1 /\ d = SetLine(ls, i, m)
    BY <1>1, <1>4
  <2>2. /\ d \in [Slot -> Line] /\ d[i] = m /\ \A j \in Slot : j # i => d[j] = ls[j]
        /\ HasEnd(d, 0) /\ num_lines(d) = num_lines(ls)
    BY ONLY <2>1, SetSame
  <2> QED
    BY <1>2, <2>2
<1>6. /\ \A j \in Slot : LineFits(d[j], w)
      /\ \A j \in Slot : d[j].length = -1 => j <= r
  BY <1>1, <1>4, <1>5
<1>7. \A j \in 0 .. z - 1 : d[j].text # NoText
  BY <1>1, <1>2, <1>3, <1>5
<1>8. Cardinality(Breaks(ls, z)) \in Nat /\ Cardinality(Breaks(d, z)) \in Nat
  BY BreaksFinite
<1>9. i \in Nat /\ ls[i].length <= Width
  <2>1. ls[i].length \in -1 .. Width
    BY <1>1 DEF Line
  <2> QED
    BY <2>1, Numbers
<1>10. Cardinality(Breaks(d, z)) <= r
  <2>1. CASE i < z
    <3>1. Cardinality(Breaks(d, z)) <= Cardinality(Breaks(ls, z))
      BY <1>3, <1>5, <1>9, <2>1, BreaksLess
    <3> QED
      BY <1>1, <1>2, <1>8, <3>1
  <2>2. CASE ~(i < z)
    <3>1. \A j \in Nat : j < z => j # i
      BY <1>9, <2>2
    <3>2. \A j \in Nat : j < z => d[j] = ls[j]
      BY <1>3, <1>5, <3>1
    <3>3. Breaks(d, z) = Breaks(ls, z)
      BY <3>2, BreaksSame
    <3> QED
      BY <1>1, <1>2, <3>3
  <2> QED
    BY <2>1, <2>2
<1> QED
  BY <1>2, <1>5, <1>6, <1>7, <1>10 DEF ArrayFits

-----------------------------------------------------------------------------
(* Moving about *)

\* Where an editor is.
LEMMA EditorFacts ==
  ASSUME NEW p \in 0 .. MaxPresses, NEW ed, EditorFits(ed, p)
  PROVE  /\ ed \in Editor /\ ed.mode \in {"NORMAL", "INSERT"}
         /\ ed.x \in Nat /\ ed.x <= Room(p) /\ ed.y \in Nat /\ ed.offset \in Nat
         /\ ed.y + ed.offset <= Rows(p)
         /\ ed.y \in Slot /\ y_pos(ed) = ed.y + ed.offset
         /\ y_pos(ed) \in Nat /\ y_pos(ed) \in Slot /\ y_pos(ed) + 1 \in Slot
         /\ ArrayFits(ed.lines, Rows(p), Room(p))
         /\ ed.lines \in [Slot -> Line] /\ HasEnd(ed.lines, 0)
         /\ Current(ed) = ed.lines[y_pos(ed)]
         /\ Current(ed) \in Line /\ LineFits(Current(ed), Room(p))
         /\ Current(ed).length \in Int /\ Current(ed).length <= Room(p)
         /\ -1 <= Current(ed).length
<1>1. /\ ed \in Editor /\ ed.x <= Room(p) /\ ed.y + ed.offset <= Rows(p)
      /\ ArrayFits(ed.lines, Rows(p), Room(p))
  BY DEF EditorFits
<1>2. /\ ed.mode \in {"NORMAL", "INSERT"} /\ ed.x \in Column /\ ed.y \in Slot
      /\ ed.offset \in Slot
  BY <1>1 DEF Editor
<1>3. ed.x \in Nat /\ ed.y \in Nat /\ ed.offset \in Nat
  BY <1>2, Numbers
<1>4. /\ Rows(p) \in Nat /\ Room(p) \in Nat /\ \A n \in Nat : n <= Rows(p) + 1 => n \in Slot
  BY Bounds
<1>5. y_pos(ed) = ed.y + ed.offset
  BY DEF y_pos
<1>6. /\ y_pos(ed) \in Nat /\ y_pos(ed) <= Rows(p) + 1
      /\ y_pos(ed) + 1 \in Nat /\ y_pos(ed) + 1 <= Rows(p) + 1
  BY <1>1, <1>3, <1>4, <1>5
<1>7. y_pos(ed) \in Slot /\ y_pos(ed) + 1 \in Slot
  BY <1>4, <1>6
<1>8. /\ ed.lines \in [Slot -> Line] /\ HasEnd(ed.lines, 0)
      /\ \A i \in Slot : LineFits(ed.lines[i], Room(p))
  BY <1>1 DEF ArrayFits
<1>9. Current(ed) = ed.lines[y_pos(ed)]
  BY DEF Current
<1>10. Current(ed) \in Line /\ LineFits(Current(ed), Room(p))
  BY <1>7, <1>8, <1>9
<1>11. \/ Current(ed).length \in {-1, 0}
       \/ Current(ed).length \in 0 .. Room(p)
  BY <1>10 DEF LineFits
<1>12. /\ Current(ed).length \in Int /\ Current(ed).length <= Room(p)
       /\ -1 <= Current(ed).length
  BY <1>4, <1>11
<1> QED
  BY <1>1, <1>2, <1>3, <1>5, <1>6, <1>7, <1>8, <1>9, <1>10, <1>12

\* An editor whose cursor is elsewhere.
At(ed, x, y, offset) == [ed EXCEPT !.x = x, !.y = y, !.offset = offset]

LEMMA AtFacts ==
  ASSUME NEW p \in 0 .. MaxPresses, NEW q \in 0 .. MaxPresses, p <= q,
         NEW ed, EditorFits(ed, p),
         NEW x \in Nat, x <= Room(q), NEW y \in Nat, NEW o \in Nat, y + o <= Rows(q),
         NEW n, n = At(ed, x, y, o)
  PROVE  /\ EditorFits(n, q)
         /\ n.x = x /\ n.y = y /\ n.offset = o /\ n.lines = ed.lines /\ n.mode = ed.mode
         /\ y_pos(n) = y + o
<1>1. /\ Rows(p) \in Nat /\ Room(p) \in Nat /\ Rows(q) \in Nat /\ Room(q) \in Nat
      /\ \A i \in Nat : (i <= Rows(q) + 1 => i \in Slot) /\ (i <= Room(q) + 1 => i \in Column)
  BY Bounds
<1>2. Rows(p) <= Rows(q) /\ Room(p) <= Room(q)
  BY BoundsAssumption DEF Rows, Room
<1>3. x \in Column /\ y \in Slot /\ o \in Slot
  <2>1. y <= Rows(q) + 1 /\ o <= Rows(q) + 1 /\ x <= Room(q) + 1
    BY <1>1
  <2> QED
    BY <1>1, <2>1
<1>4. ed \in Editor /\ ArrayFits(ed.lines, Rows(p), Room(p))
  BY DEF EditorFits
<1>5. /\ n \in Editor
      /\ n.x = x /\ n.y = y /\ n.offset = o /\ n.lines = ed.lines /\ n.mode = ed.mode
  BY <1>3, <1>4 DEF Editor, At
<1>6. ArrayFits(ed.lines, Rows(q), Room(q))
  BY <1>1, <1>2, <1>4, ArrayWider
<1> QED
  BY <1>5, <1>6 DEF EditorFits, y_pos

\* The editor itself, and with another column.
LEMMA AtIs ==
  ASSUME NEW ed \in Editor, NEW x
  PROVE  [ed EXCEPT !.x = x] = At(ed, x, ed.y, ed.offset) /\ ed = At(ed, ed.x, ed.y, ed.offset)
BY DEF Editor, At

LEMMA AtIsY ==
  ASSUME NEW ed \in Editor, NEW y
  PROVE  /\ [ed EXCEPT !.y = y] = At(ed, ed.x, y, ed.offset)
         /\ [ed EXCEPT !.offset = y] = At(ed, ed.x, ed.y, y)
BY DEF Editor, At

\* Nothing is lost by pressing a key.
LEMMA EditorWider ==
  ASSUME NEW p \in 0 .. MaxPresses, NEW q \in 0 .. MaxPresses, p <= q,
         NEW ed, EditorFits(ed, p)
  PROVE  EditorFits(ed, q)
<1>1. /\ ed \in Editor /\ ed.x \in Nat /\ ed.x <= Room(p) /\ ed.y \in Nat /\ ed.offset \in Nat
      /\ ed.y + ed.offset <= Rows(p)
  BY EditorFacts
<1>2. Rows(p) <= Rows(q) /\ Room(p) <= Room(q)
  BY BoundsAssumption DEF Rows, Room
<1>3. Rows(p) \in Nat /\ Room(p) \in Nat /\ Rows(q) \in Nat /\ Room(q) \in Nat
  BY Bounds
<1>4. ed.x <= Room(q) /\ ed.y + ed.offset <= Rows(q)
  BY <1>1, <1>2, <1>3
<1>5. PICK x \in Nat : x = ed.x
  BY <1>1
<1>6. ed = At(ed, ed.x, ed.y, ed.offset)
  BY <1>1, AtIs
<1> QED
  BY <1>1, <1>4, <1>6, AtFacts

\* At the end of a line, or at its start if it has no characters.
LEMMA EolFacts ==
  ASSUME NEW p \in 0 .. MaxPresses, NEW ed, EditorFits(ed, p), NEW n, n = goto_eol(ed)
  PROVE  /\ EditorFits(n, p)
         /\ n.y = ed.y /\ n.offset = ed.offset /\ n.lines = ed.lines /\ n.mode = ed.mode
         /\ n.x = AtLeast0(Current(ed).length - 1) /\ Current(n) = Current(ed)
<1>1. /\ ed \in Editor /\ ed.y \in Nat /\ ed.offset \in Nat /\ ed.y + ed.offset <= Rows(p)
      /\ Current(ed).length \in Int /\ Current(ed).length <= Room(p)
      /\ y_pos(ed) = ed.y + ed.offset
  BY EditorFacts
<1>2. PICK x \in Nat : x = AtLeast0(Current(ed).length - 1) /\ x <= Room(p)
  <2>1. Room(p) \in Nat
    BY Bounds
  <2> QED
    BY <1>1, <2>1 DEF AtLeast0
<1>3. n = At(ed, x, ed.y, ed.offset)
  BY <1>1, <1>2, AtIs DEF goto_eol
<1>4. /\ EditorFits(n, p)
      /\ n.x = x /\ n.y = ed.y /\ n.offset = ed.offset /\ n.lines = ed.lines
      /\ n.mode = ed.mode /\ y_pos(n) = ed.y + ed.offset
  <2>1. p <= p
    OBVIOUS
  <2> QED
    BY <1>1, <1>2, <1>3, <2>1, AtFacts
<1> QED
  BY <1>1, <1>2, <1>4 DEF Current

LEMMA WithinFacts ==
  ASSUME NEW p \in 0 .. MaxPresses, NEW ed, EditorFits(ed, p), NEW n, n = WithinLine(ed)
  PROVE  /\ EditorFits(n, p)
         /\ n.y = ed.y /\ n.offset = ed.offset /\ n.lines = ed.lines /\ n.mode = ed.mode
         /\ Current(n) = Current(ed)
         /\ n.x \in Nat /\ n.x <= AtLeast0(Current(ed).length - 1)
<1>1. ed.x \in Nat /\ Current(ed).length \in Int
  BY EditorFacts
<1>2. CASE ed.x >= Current(ed).length
  <2>1. n = goto_eol(ed)
    BY <1>2 DEF WithinLine
  <2>2. /\ EditorFits(n, p)
        /\ n.y = ed.y /\ n.offset = ed.offset /\ n.lines = ed.lines /\ n.mode = ed.mode
        /\ n.x = AtLeast0(Current(ed).length - 1) /\ Current(n) = Current(ed)
    BY <2>1, EolFacts
  <2> QED
    BY <1>1, <2>2 DEF AtLeast0
<1>3. CASE ~(ed.x >= Current(ed).length)
  <2>1. n = ed
    BY <1>3 DEF WithinLine
  <2> QED
    BY <1>1, <1>3, <2>1 DEF AtLeast0
<1> QED
  BY <1>2, <1>3

\* The next line, if there is one.
LEMMA NextFacts ==
  ASSUME NEW p \in 0 .. MaxPresses, NEW q \in 0 .. MaxPresses, p <= q,
         NEW ed, EditorFits(ed, p), NEW n, n = next_line(ed)
  PROVE  /\ n.lines = ed.lines /\ n.mode = ed.mode
         /\ ed.lines[y_pos(ed) + 1].length = -1 => n = ed
         /\ ed.lines[y_pos(ed) + 1].length # -1 /\ y_pos(ed) + 1 <= Rows(q) =>
              /\ EditorFits(n, q) /\ y_pos(n) = y_pos(ed) + 1
              /\ n.x <= AtLeast0(Current(n).length - 1)
              /\ n.offset = 0 => ed.offset = 0 /\ n.y = ed.y + 1
<1>1. /\ ed \in Editor /\ ed.x \in Nat /\ ed.x <= Room(p) /\ ed.y \in Nat /\ ed.offset \in Nat
      /\ ed.y + ed.offset <= Rows(p) /\ y_pos(ed) = ed.y + ed.offset
  BY EditorFacts
<1> DEFINE m == IF ed.y + 1 < MaxY THEN [ed EXCEPT !.y = @ + 1] ELSE [ed EXCEPT !.offset = @ + 1]
<1>2. n = IF ed.lines[y_pos(ed) + 1].length = -1 THEN ed ELSE WithinLine(m)
  BY DEF next_line
<1>3. m.lines = ed.lines /\ m.mode = ed.mode
  BY <1>1 DEF Editor
<1>4. n.lines = ed.lines /\ n.mode = ed.mode
  <2>1. WithinLine(m).lines = m.lines /\ WithinLine(m).mode = m.mode
    <3>1. m \in [mode : {"NORMAL", "INSERT"}, x : Int, y : Int, offset : Int,
                 lines : [Slot -> Line]]
      BY <1>1 DEF Editor
    <3> HIDE DEF m
    <3> QED
      BY <3>1 DEF WithinLine, goto_eol
  <2> QED
    BY <1>2, <1>3, <2>1
<1>5. ASSUME ed.lines[y_pos(ed) + 1].length # -1, y_pos(ed) + 1 <= Rows(q)
      PROVE  /\ EditorFits(n, q) /\ y_pos(n) = y_pos(ed) + 1
             /\ n.x <= AtLeast0(Current(n).length - 1)
             /\ n.offset = 0 => ed.offset = 0 /\ n.y = ed.y + 1
  <2>1. PICK y \in Nat, o \in Nat : /\ y + o = ed.y + ed.offset + 1
                                    /\ m = At(ed, ed.x, y, o)
                                    /\ o = 0 => ed.offset = 0 /\ y = ed.y + 1
    <3>1. CASE ed.y + 1 < MaxY
      <4>1. m = At(ed, ed.x, ed.y + 1, ed.offset)
        BY <1>1, <3>1, AtIsY
      <4>2. ed.y + 1 \in Nat /\ ed.y + 1 + ed.offset = ed.y + ed.offset + 1
        BY <1>1
      <4> QED
        BY <1>1, <4>1, <4>2
    <3>2. CASE ~(ed.y + 1 < MaxY)
      <4>1. m = At(ed, ed.x, ed.y, ed.offset + 1)
        BY <1>1, <3>2, AtIsY
      <4>2. /\ ed.offset + 1 \in Nat /\ ed.y + (ed.offset + 1) = ed.y + ed.offset + 1
            /\ ed.offset + 1 # 0
        BY <1>1
      <4> QED
        BY <1>1, <4>1, <4>2
    <3> QED
      BY <3>1, <3>2
  <2> HIDE DEF m
  <2>2. ed.x <= Room(q) /\ y + o <= Rows(q)
    <3>1. Room(p) <= Room(q) /\ Room(p) \in Int /\ Room(q) \in Int
      BY BoundsAssumption DEF Room
    <3> QED
      BY <1>1, <1>5, <2>1, <3>1
  <2>3. EditorFits(m, q) /\ m.y = y /\ m.offset = o /\ y_pos(m) = y + o
    BY <1>1, <2>1, <2>2, AtFacts
  <2>4. n = WithinLine(m)
    BY <1>2, <1>5
  <2>5. /\ EditorFits(n, q) /\ n.y = m.y /\ n.offset = m.offset
        /\ Current(n) = Current(m) /\ n.x <= AtLeast0(Current(m).length - 1)
    BY <2>3, <2>4, WithinFacts
  <2> QED
    BY <1>1, <2>1, <2>3, <2>5 DEF y_pos
<1> QED
  BY <1>2, <1>4, <1>5

\* The previous one.
LEMMA PrevFacts ==
  ASSUME NEW p \in 0 .. MaxPresses, NEW ed, EditorFits(ed, p), NEW n, n = prev_line(ed)
  PROVE  /\ EditorFits(n, p) /\ n.lines = ed.lines /\ n.mode = ed.mode
         /\ n.offset = 0 /\ ed.offset = 0 =>
              \/ n = ed
              \/ ed.y > 0 /\ n.y = ed.y - 1 /\ n.x <= AtLeast0(Current(n).length - 1)
         /\ ed.y > 0 => n.y = ed.y - 1 /\ n.offset = ed.offset
         /\ ed.offset = 0 => n.offset = 0
<1>1. /\ ed \in Editor /\ ed.x \in Nat /\ ed.x <= Room(p) /\ ed.y \in Nat /\ ed.offset \in Nat
      /\ ed.y + ed.offset <= Rows(p) /\ Rows(p) \in Nat /\ p <= p
  BY EditorFacts, Bounds
<1>2. CASE ed.y > 0
  <2>1. PICK m : m = At(ed, ed.x, ed.y - 1, ed.offset)
    OBVIOUS
  <2>2. ed.y - 1 \in Nat /\ (ed.y - 1) + ed.offset <= Rows(p)
    BY <1>1, <1>2
  <2>3. /\ EditorFits(m, p) /\ m.y = ed.y - 1 /\ m.offset = ed.offset /\ m.lines = ed.lines
        /\ m.mode = ed.mode
    BY <1>1, <2>1, <2>2, AtFacts
  <2>4. n = WithinLine(m)
    BY <1>1, <1>2, <2>1, AtIsY DEF prev_line
  <2>5. /\ EditorFits(n, p) /\ n.y = m.y /\ n.offset = m.offset /\ n.lines = m.lines
        /\ n.mode = m.mode /\ Current(n) = Current(m)
        /\ n.x <= AtLeast0(Current(m).length - 1)
    BY <2>3, <2>4, WithinFacts
  <2> QED
    BY <1>2, <2>3, <2>5
<1>3. CASE ~(ed.y > 0)
  <2>1. PICK o \in Nat : o = AtLeast0(ed.offset - 1) /\ o <= ed.offset
    BY <1>1 DEF AtLeast0
  <2>2. n = At(ed, ed.x, ed.y, o)
    BY <1>1, <1>3, <2>1, AtIsY DEF prev_line
  <2>3. ed.y + o <= Rows(p)
    BY <1>1, <2>1
  <2>4. EditorFits(n, p) /\ n.lines = ed.lines /\ n.mode = ed.mode /\ n.offset = o
    BY <1>1, <2>1, <2>2, <2>3, AtFacts
  <2>5. ASSUME ed.offset = 0 PROVE n = ed
    <3>1. o = 0
      BY <2>1, <2>5
    <3>2. n = At(ed, ed.x, ed.y, ed.offset)
      BY <2>2, <2>5, <3>1
    <3>3. ed = At(ed, ed.x, ed.y, ed.offset)
      BY <1>1, AtIs
    <3> QED
      BY <3>2, <3>3
  <2>6. ed.offset = 0 => o = 0
    BY <2>1
  <2> QED
    BY <1>3, <2>4, <2>5, <2>6
<1> QED
  BY <1>2, <1>3

-----------------------------------------------------------------------------
(* Changing lines *)

\* An editor with other lines, and its cursor elsewhere.
Having(ed, x, y, ls) == [ed EXCEPT !.x = x, !.y = y, !.lines = ls]

LEMMA HavingFacts ==
  ASSUME NEW q \in 0 .. MaxPresses, NEW ed \in Editor,
         NEW x \in Nat, x <= Room(q), NEW y \in Nat, y + ed.offset <= Rows(q),
         NEW ls, ArrayFits(ls, Rows(q), Room(q)), NEW n, n = Having(ed, x, y, ls)
  PROVE  /\ EditorFits(n, q)
         /\ n.x = x /\ n.y = y /\ n.offset = ed.offset /\ n.lines = ls /\ n.mode = ed.mode
         /\ y_pos(n) = y + ed.offset
<1>1. /\ Rows(q) \in Nat /\ Room(q) \in Nat
      /\ \A i \in Nat : (i <= Rows(q) + 1 => i \in Slot) /\ (i <= Room(q) + 1 => i \in Column)
  BY Bounds
<1>2. ed.offset \in Nat
  BY Numbers DEF Editor
<1>3. x \in Column /\ y \in Slot
  <2>1. y <= Rows(q) + 1 /\ x <= Room(q) + 1
    BY <1>1, <1>2
  <2> QED
    BY <1>1, <2>1
<1>4. ls \in [Slot -> Line]
  BY DEF ArrayFits
<1>5. /\ n \in Editor
      /\ n.x = x /\ n.y = y /\ n.offset = ed.offset /\ n.lines = ls /\ n.mode = ed.mode
  BY <1>3, <1>4 DEF Editor, Having
<1> QED
  BY <1>5 DEF EditorFits, y_pos

\* In the other mode.
InMode(ed, mode) == [ed EXCEPT !.mode = mode]

LEMMA ModeFacts ==
  ASSUME NEW q \in 0 .. MaxPresses, NEW ed, EditorFits(ed, q), NEW mode \in {"NORMAL", "INSERT"},
         NEW n, n = InMode(ed, mode)
  PROVE  /\ EditorFits(n, q)
         /\ n.x = ed.x /\ n.y = ed.y /\ n.offset = ed.offset /\ n.lines = ed.lines
         /\ n.mode = mode
<1>1. /\ ed \in Editor /\ ed.x <= Room(q) /\ ed.y + ed.offset <= Rows(q)
      /\ ArrayFits(ed.lines, Rows(q), Room(q))
  BY DEF EditorFits
<1>2. /\ n \in Editor
      /\ n.x = ed.x /\ n.y = ed.y /\ n.offset = ed.offset /\ n.lines = ed.lines
      /\ n.mode = mode
  BY <1>1 DEF Editor, InMode
<1> QED
  BY <1>1, <1>2 DEF EditorFits

\* A new line below the cursor's.
LEMMA NewLineFacts ==
  ASSUME NEW p \in 0 .. MaxPresses, NEW q \in 0 .. MaxPresses, q = p + 1,
         NEW ed, EditorFits(ed, p), NEW n, n = NewLineBelow(ed)
  PROVE  /\ EditorFits(n, q) /\ n.mode = ed.mode /\ n.x = 0 /\ n.y = ed.y + 1
         /\ n.offset = ed.offset
         /\ y_pos(ed) < num_lines(ed.lines) =>
              /\ y_pos(n) < num_lines(n.lines)
              /\ AllClean(ed.lines) => AllClean(n.lines)
<1>1. /\ ed \in Editor /\ ed.y \in Nat /\ ed.offset \in Nat /\ ed.y + ed.offset <= Rows(p)
      /\ y_pos(ed) = ed.y + ed.offset /\ y_pos(ed) \in Nat /\ y_pos(ed) + 1 \in Slot
      /\ ArrayFits(ed.lines, Rows(p), Room(p))
  BY EditorFacts
<1>2. /\ Rows(p) \in Nat /\ Rows(p) + 1 \in Slot /\ Room(p) \in Nat /\ Rows(q) = Rows(p) + 1
      /\ Room(q) = Room(p) + 1 /\ Room(q) \in Nat /\ Rows(q) \in Nat
  BY Bounds
<1> DEFINE at == y_pos(ed) + 1
           ls == insert_line(ed.lines, at)
           down == [ed EXCEPT !.y = @ + 1]
<1>3. /\ y_pos(down) = at /\ down.lines = ed.lines
      /\ n = [down EXCEPT !.lines = insert_line(down.lines, y_pos(down)), !.x = 0]
  BY <1>1 DEF y_pos, Editor, NewLineBelow
<1>4. n = Having(ed, 0, ed.y + 1, ls)
  BY <1>1, <1>3 DEF Having, Editor
<1>5. ArrayFits(ls, Rows(q), Room(p))
  BY <1>1, <1>2, InsertFits
<1> HIDE DEF ls, at
<1>6. ArrayFits(ls, Rows(q), Room(q))
  <2>1. Rows(q) <= Rows(q) /\ Room(p) <= Room(q)
    BY <1>2
  <2> QED
    BY <1>2, <1>5, <2>1, ArrayWider
<1>7. /\ EditorFits(n, q) /\ n.x = 0 /\ n.y = ed.y + 1 /\ n.offset = ed.offset /\ n.lines = ls
      /\ n.mode = ed.mode /\ y_pos(n) = ed.y + 1 + ed.offset
  <2>1. 0 \in Nat /\ 0 <= Room(q) /\ ed.y + 1 \in Nat /\ ed.y + 1 + ed.offset <= Rows(q)
    BY <1>1, <1>2
  <2> QED
    BY <1>1, <1>4, <1>6, <2>1, HavingFacts
<1>8. PICK z \in Nat : z = num_lines(ed.lines) /\ z \in Slot /\ z <= Rows(p)
  <2>1. HasEnd(ed.lines, 0) /\ \A i \in Slot : ed.lines[i].length = -1 => i <= Rows(p)
    BY <1>1 DEF ArrayFits
  <2> QED
    BY <2>1, NumFacts
<1>9. z + 1 \in Slot
  <2>1. z + 1 \in Nat /\ z + 1 <= Rows(p) + 1
    BY <1>2, <1>8
  <2> QED
    BY <1>2, <2>1, Numbers
<1>10. /\ at \in Nat
       /\ ls[at] = EmptyLine
       /\ \A i \in Slot : at < i /\ i <= z + 1 => ls[i] = ed.lines[i - 1] /\ i - 1 \in Slot
       /\ \A i \in Slot : i # at /\ ~(at < i /\ i <= z + 1) => ls[i] = ed.lines[i]
       /\ at <= z => num_lines(ls) = z + 1
  <2>1. ed.lines \in [Slot -> Line] /\ HasEnd(ed.lines, 0) /\ at \in Slot
    BY <1>1 DEF ArrayFits, at
  <2> QED
    BY <1>8, <1>9, <2>1, InsertFacts DEF ls
<1>11. ASSUME y_pos(ed) < z
       PROVE  /\ y_pos(n) < num_lines(n.lines)
              /\ AllClean(ed.lines) => AllClean(n.lines)
  <2>1. at <= z /\ at = y_pos(ed) + 1
    BY <1>1, <1>11 DEF at
  <2>2. y_pos(n) < num_lines(n.lines)
    BY <1>1, <1>7, <1>10, <1>8, <2>1
  <2>3. ASSUME AllClean(ed.lines), NEW i \in Nat, i < z + 1 PROVE Clean(ls[i])
    <3>1. i \in Slot
      <4>1. i <= z + 1
        BY <2>3
      <4> QED
        BY <1>9, <4>1, Numbers
    <3>2. CASE i = at
      <4>1. Clean(EmptyLine)
        BY EmptyFits DEF Clean
      <4> QED
        BY <1>10, <3>2, <4>1
    <3>3. CASE at < i
      <4>1. i - 1 \in Nat /\ i - 1 < z /\ i <= z + 1
        BY <1>10, <2>3, <3>3
      <4>2. ls[i] = ed.lines[i - 1]
        BY <1>10, <3>1, <3>3, <4>1
      <4> QED
        BY <1>8, <2>3, <4>1, <4>2 DEF AllClean
    <3>4. CASE i < at
      <4>1. i # at /\ ~(at < i /\ i <= z + 1) /\ i < z
        BY <1>10, <2>1, <3>4
      <4>2. ls[i] = ed.lines[i]
        BY <1>10, <3>1, <4>1
      <4> QED
        BY <1>8, <2>3, <4>1, <4>2 DEF AllClean
    <3> QED
      BY <1>10, <3>2, <3>3, <3>4
  <2> QED
    BY <1>7, <1>10, <2>1, <2>2, <2>3 DEF AllClean
<1> QED
  BY <1>7, <1>8, <1>11

\* The line of the cursor, and others.
LEMMA SetClean ==
  ASSUME NEW ls \in [Slot -> Line], HasEnd(ls, 0), AllClean(ls), NEW i \in Slot,
         NEW m, Clean(m), NEW d, d = SetLine(ls, i, m), num_lines(d) = num_lines(ls)
  PROVE  AllClean(d)
<1>1. \A j \in Nat : j < num_lines(ls) => j \in Slot
  BY NumFacts
<1>2. \A j \in Slot : d[j] = ls[j] \/ (j = i /\ d[j] = m)
  BY DEF SetLine
<1> QED
  BY <1>1, <1>2 DEF AllClean

\* x: a character less in the cursor's line, if it has one.
LEMMA DeleteFactsAt ==
  ASSUME NEW p \in 0 .. MaxPresses, NEW ed, EditorFits(ed, p), NEW n, n = delete_char(ed),
         Current(ed).text # NoText \/ Current(ed).length = 0
  PROVE  /\ EditorFits(n, p) /\ n.mode = ed.mode /\ n.y = ed.y /\ n.offset = ed.offset
         /\ num_lines(n.lines) = num_lines(ed.lines)
         /\ Current(ed).length = 0 => n = ed
         /\ Current(ed).length # 0 =>
              /\ Current(n).length = Current(ed).length - 1
              /\ n.x = IF ed.x > Current(ed).length - 2 THEN AtLeast0(ed.x - 1) ELSE ed.x
         /\ AllClean(ed.lines) /\ ed.x < Current(ed).length /\ y_pos(ed) < num_lines(ed.lines)
              => AllClean(n.lines)
<1>1. /\ ed \in Editor /\ ed.x \in Nat /\ ed.x <= Room(p) /\ ed.y \in Nat /\ ed.offset \in Nat
      /\ ed.y + ed.offset <= Rows(p) /\ y_pos(ed) = ed.y + ed.offset /\ y_pos(ed) \in Slot
      /\ ArrayFits(ed.lines, Rows(p), Room(p)) /\ ed.lines \in [Slot -> Line]
      /\ HasEnd(ed.lines, 0)
      /\ Current(ed) = ed.lines[y_pos(ed)] /\ LineFits(Current(ed), Room(p))
      /\ Current(ed).length \in Int
  BY EditorFacts
<1>2. /\ Rows(p) \in Nat /\ Room(p) \in Nat /\ Room(p) \in Column
  <2>1. Room(p) \in Nat /\ Room(p) <= Room(p) + 1 /\ Rows(p) \in Nat
    BY Bounds
  <2> QED
    BY <2>1, Bounds
<1>3. CASE Current(ed).length = 0
  <2>1. n = ed
    BY <1>3 DEF delete_char
  <2> QED
    BY <1>1, <1>3, <2>1
<1>4. CASE Current(ed).length # 0
  <2>1. PICK m : m = [text |-> shiftleft(Current(ed).text, ed.x), length |-> Current(ed).length - 1]
    OBVIOUS
  <2>2. PICK x : x = IF ed.x > Current(ed).length - 2 THEN AtLeast0(ed.x - 1) ELSE ed.x
    OBVIOUS
  <2>3. n = Having(ed, x, ed.y, SetLine(ed.lines, y_pos(ed), m))
    <3>1. m.length - 1 = Current(ed).length - 2
      BY <1>1, <2>1
    <3>2. n = [ed EXCEPT !.lines[y_pos(ed)] = m,
                         !.x = IF ed.x > m.length - 1 THEN AtLeast0(ed.x - 1) ELSE ed.x]
      BY <1>1, <1>4, <2>1 DEF delete_char, Editor
    <3> QED
      BY <1>1, <2>2, <3>1, <3>2 DEF Having, SetLine, Editor
  <2>4. x \in Nat /\ x <= Room(p)
    BY <1>1, <1>2, <2>2 DEF AtLeast0
  <2>5. /\ LineFits(m, Room(p)) /\ m \in Line /\ m.text # NoText
        /\ \E g \in Nat : OneMore(m, Current(ed), g)
        /\ ed.x < Current(ed).length /\ Clean(Current(ed)) => Clean(m)
    BY <1>1, <1>2, <1>4, <2>1, DeleteCharFacts
  <2>6. PICK d : d = SetLine(ed.lines, y_pos(ed), m)
    OBVIOUS
  <2>7. ArrayFits(d, Rows(p), Room(p)) /\ num_lines(d) = num_lines(ed.lines)
    <3>1. PICK ls, i, r, w : ls = ed.lines /\ i = y_pos(ed) /\ r = Rows(p) /\ w = Room(p)
      OBVIOUS
    <3>2. PICK g \in Nat : OneMore(m, ls[i], g)
      BY <1>1, <2>5, <3>1
    <3>3. /\ r \in Nat /\ w \in Nat /\ ArrayFits(ls, r, w) /\ i \in Slot /\ m \in Line
          /\ LineFits(m, w) /\ m.text # NoText /\ OneMore(m, ls[i], g) /\ d = SetLine(ls, i, m)
      BY <1>1, <1>2, <2>5, <2>6, <3>1, <3>2
    <3>4. ArrayFits(d, r, w) /\ num_lines(d) = num_lines(ls)
      BY ONLY <3>3, SetLess
    <3> QED
      BY <3>1, <3>4
  <2>8. /\ EditorFits(n, p) /\ n.x = x /\ n.y = ed.y /\ n.offset = ed.offset /\ n.lines = d
        /\ n.mode = ed.mode
    BY <1>1, <2>3, <2>4, <2>6, <2>7, HavingFacts
  <2>9. Current(n) = m
    BY <1>1, <2>6, <2>8 DEF Current, y_pos, SetLine
  <2>10. ASSUME AllClean(ed.lines), ed.x < Current(ed).length, y_pos(ed) < num_lines(ed.lines)
         PROVE  AllClean(d)
    <3>1. Clean(Current(ed))
      BY <1>1, <2>10 DEF AllClean
    <3>2. Clean(m)
      BY <2>5, <2>10, <3>1
    <3> QED
      BY <1>1, <2>6, <2>7, <2>10, <3>2, SetClean
  <2> QED
    BY <1>4, <2>1, <2>2, <2>7, <2>8, <2>9, <2>10
<1> QED
  BY <1>3, <1>4

-----------------------------------------------------------------------------
(* Keys *)

\* A file that fits goes on fitting.
LEMMA FileWider ==
  ASSUME NEW p \in 0 .. MaxPresses, NEW q \in 0 .. MaxPresses, p <= q, NEW f, FileFits(f, p),
         f = Absent \/ f \in Seq(Char \union {Nul})
  PROVE  FileFits(f, q)
<1>1. Rows(p) <= Rows(q) /\ Room(p) <= Room(q)
  BY BoundsAssumption DEF Rows, Room
<1>2. Rows(p) \in Nat /\ Room(p) \in Nat /\ Rows(q) \in Nat /\ Room(q) \in Nat
  BY Bounds
<1>3. SUFFICES ASSUME f # Absent PROVE FileFits(f, q)
  BY DEF FileFits
<1>4. f \in Seq(Char \union {Nul}) /\ Len(f) \in Nat
  BY <1>3
<1>5. Cardinality(LineEnds(f)) \in Nat /\ Cardinality(LineEnds(f)) <= Rows(p)
  <2>1. LineEnds(f) \in SUBSET (1 .. Len(f))
    BY <1>4 DEF LineEnds
  <2> QED
    BY <1>3, <1>4, <2>1, Ranks DEF FileFits
<1>6. ASSUME NEW a \in 1 .. Len(f), NEW b \in 1 .. Len(f), \A i \in a .. b : f[i] # Newline
      PROVE  b - a + 1 <= Room(q)
  <2>1. b - a + 1 <= Room(p)
    BY <1>3, <1>6 DEF FileFits
  <2>2. b - a + 1 \in Int
    BY <1>4
  <2> QED
    BY <1>1, <1>2, <2>1, <2>2
<1>7. Cardinality(LineEnds(f)) <= Rows(q)
  BY <1>1, <1>2, <1>5
<1> QED
  BY <1>6, <1>7 DEF FileFits

\* What is known when a key is pressed.
LEMMA PressFacts ==
  ASSUME IInv, NEW mode, Press(mode)
  PROVE  /\ presses \in 0 .. MaxPresses /\ presses + 1 \in 0 .. MaxPresses
         /\ presses <= presses + 1 /\ presses' = presses + 1 /\ disk' = disk
         /\ EditorFits(e, presses) /\ EditorFits(e, presses + 1)
         /\ e.mode = mode /\ running = "reading"
         /\ careful => e.offset = 0 /\ e.y < MaxY /\ OnLine(e)
         /\ careful => Current(e).text # NoText /\ Current(e).length \in Nat
         /\ OnText => Current(e).length \in Nat
<1>1. /\ e.mode = mode /\ running = "reading" /\ presses < MaxPresses /\ disk' = disk
      /\ presses' = presses + 1 /\ presses \in 0 .. MaxPresses /\ EditorFits(e, presses)
      /\ careful => e.offset = 0 /\ e.y < MaxY /\ OnLine(e)
  BY DEF Press, IInv, TypeOK, Caring
<1>2. presses + 1 \in 0 .. MaxPresses /\ presses <= presses + 1
  BY <1>1, BoundsAssumption
<1>3. EditorFits(e, presses + 1)
  BY <1>1, <1>2, EditorWider
<1>4. /\ HasEnd(e.lines, 0) /\ Current(e) = e.lines[y_pos(e)] /\ y_pos(e) \in Nat
      /\ LineFits(Current(e), Room(presses))
      /\ \A i \in 0 .. num_lines(e.lines) - 1 : e.lines[i].text # NoText
  BY <1>1, EditorFacts DEF ArrayFits
<1>5. num_lines(e.lines) \in Nat
  BY <1>4, NumFacts
<1>6. careful => Current(e).text # NoText
  BY <1>1, <1>4, <1>5 DEF OnLine
<1>7. Current(e).text # NoText => Current(e).length \in Nat
  BY <1>4 DEF LineFits
<1> QED
  BY <1>1, <1>2, <1>3, <1>6, <1>7 DEF OnText

\* A key that leaves a sound editor.
LEMMA BecomesKeeps ==
  ASSUME IInv, NEW mode, Press(mode), NEW n, Becomes(n), EditorFits(n, presses + 1),
         careful /\ n.offset = 0 /\ n.y < MaxY => OnLine(n)
  PROVE  IInv'
<1>1. /\ presses + 1 \in 0 .. MaxPresses /\ presses <= presses + 1 /\ presses' = presses + 1
      /\ disk' = disk /\ presses \in 0 .. MaxPresses
  BY PressFacts
<1>2. e' = n /\ running' = running /\ careful' = (careful /\ n.offset = 0 /\ n.y < MaxY)
  BY DEF Becomes
<1>3. TypeOK'
  <2>1. n \in Editor
    BY EditorFacts, <1>1
  <2>2. careful' \in BOOLEAN
    BY <1>2
  <2> QED
    BY <1>1, <1>2, <2>1, <2>2 DEF IInv, TypeOK
<1>4. EditorFits(e, presses)'
  BY <1>1, <1>2
<1>5. FileFits(disk, presses)'
  BY <1>1, FileWider DEF IInv, TypeOK
<1>6. Caring'
  BY <1>2 DEF IInv, Caring
<1> QED
  BY <1>3, <1>4, <1>5, <1>6 DEF IInv

LEMMA UncheckedKeeps ==
  ASSUME IInv, NEW mode, Press(mode), NEW n, BecomesUnchecked(n), EditorFits(n, presses + 1)
  PROVE  IInv'
<1>1. /\ presses + 1 \in 0 .. MaxPresses /\ presses <= presses + 1 /\ presses' = presses + 1
      /\ disk' = disk /\ presses \in 0 .. MaxPresses
  BY PressFacts
<1>2. e' = n /\ running' = running /\ careful' = FALSE
  BY DEF BecomesUnchecked
<1>3. TypeOK'
  <2>1. n \in Editor
    BY EditorFacts, <1>1
  <2> QED
    BY <1>1, <1>2, <2>1 DEF IInv, TypeOK
<1>4. EditorFits(e, presses)'
  BY <1>1, <1>2
<1>5. FileFits(disk, presses)'
  BY <1>1, FileWider DEF IInv, TypeOK
<1>6. Caring'
  BY <1>2 DEF Caring
<1> QED
  BY <1>3, <1>4, <1>5, <1>6 DEF IInv

\* One that leaves the memory of the program.
LEMMA LostKeeps ==
  ASSUME IInv, NEW mode, Press(mode), Lost, ~careful
  PROVE  IInv'
<1>1. /\ presses + 1 \in 0 .. MaxPresses /\ presses <= presses + 1 /\ presses' = presses + 1
      /\ disk' = disk /\ presses \in 0 .. MaxPresses /\ EditorFits(e, presses + 1)
  BY PressFacts
<1>2. e' = e /\ running' = "lost" /\ careful' = careful
  BY DEF Lost
<1>3. TypeOK'
  BY <1>1, <1>2 DEF IInv, TypeOK
<1>4. EditorFits(e, presses)'
  BY <1>1, <1>2
<1>5. FileFits(disk, presses)'
  BY <1>1, FileWider DEF IInv, TypeOK
<1>6. Caring'
  BY <1>2 DEF Caring
<1> QED
  BY <1>3, <1>4, <1>5, <1>6 DEF IInv

-----------------------------------------------------------------------------
(* Keys that move the cursor *)

\* Elsewhere in the same line.
LEMMA OnLineStill ==
  ASSUME NEW a, NEW b, OnLine(a), b.lines = a.lines, b.y = a.y, b.offset = a.offset,
         b.x <= AtLeast0(Current(a).length - (IF b.mode = "NORMAL" THEN 1 ELSE 0))
  PROVE  OnLine(b)
BY DEF OnLine, y_pos, Current

LEMMA AlongFacts ==
  ASSUME NEW p \in 0 .. MaxPresses, NEW q \in 0 .. MaxPresses, p <= q,
         NEW ed, EditorFits(ed, p), NEW x \in Nat, x <= Room(q),
         NEW mode \in {"NORMAL", "INSERT"},
         NEW n, n = InMode(At(ed, x, ed.y, ed.offset), mode)
  PROVE  /\ EditorFits(n, q)
         /\ n.x = x /\ n.y = ed.y /\ n.offset = ed.offset /\ n.lines = ed.lines
         /\ n.mode = mode
         /\ OnLine(ed) /\ x <= AtLeast0(Current(ed).length - (IF mode = "NORMAL" THEN 1 ELSE 0))
              => OnLine(n)
<1>1. ed.y \in Nat /\ ed.offset \in Nat /\ ed.y + ed.offset <= Rows(p)
  BY EditorFacts
<1>2. ed.y + ed.offset <= Rows(q)
  <2>1. Rows(p) <= Rows(q) /\ Rows(p) \in Nat /\ Rows(q) \in Nat
    BY Bounds, BoundsAssumption DEF Rows
  <2> QED
    BY <1>1, <2>1
<1>3. PICK m : m = At(ed, x, ed.y, ed.offset)
  OBVIOUS
<1>4. /\ EditorFits(m, q) /\ m.x = x /\ m.y = ed.y /\ m.offset = ed.offset
      /\ m.lines = ed.lines /\ m.mode = ed.mode
  BY <1>1, <1>2, <1>3, AtFacts
<1>5. /\ EditorFits(n, q)
      /\ n.x = m.x /\ n.y = m.y /\ n.offset = m.offset /\ n.lines = m.lines /\ n.mode = mode
  BY <1>3, <1>4, ModeFacts
<1> QED
  BY <1>4, <1>5, OnLineStill

\* The ways an editor with another column is written.
LEMMA AlongIs ==
  ASSUME NEW ed \in Editor, NEW x, NEW mode
  PROVE  /\ [ed EXCEPT !.x = x] = InMode(At(ed, x, ed.y, ed.offset), ed.mode)
         /\ [ed EXCEPT !.x = x, !.mode = mode] = InMode(At(ed, x, ed.y, ed.offset), mode)
         /\ [ed EXCEPT !.mode = mode, !.x = x] = InMode(At(ed, x, ed.y, ed.offset), mode)
BY DEF Editor, At, InMode

\* A line down, which there is room for.
LEMMA DownFacts ==
  ASSUME NEW p \in 0 .. MaxPresses, NEW q \in 0 .. MaxPresses, p <= q,
         NEW ed, EditorFits(ed, p), NEW n, n = next_line(ed),
         ed.lines[y_pos(ed) + 1].length = -1 \/ y_pos(ed) + 1 <= Rows(q)
  PROVE  EditorFits(n, q) /\ (OnLine(ed) /\ n.offset = 0 => OnLine(n))
<1>1. CASE ed.lines[y_pos(ed) + 1].length = -1
  <2>1. n = ed
    BY <1>1, NextFacts
  <2> QED
    BY <2>1, EditorWider
<1>2. CASE ed.lines[y_pos(ed) + 1].length # -1
  <2>1. y_pos(ed) + 1 <= Rows(q)
    BY <1>2
  <2>2. /\ n.lines = ed.lines /\ n.mode = ed.mode /\ EditorFits(n, q)
        /\ y_pos(n) = y_pos(ed) + 1 /\ n.x <= AtLeast0(Current(n).length - 1)
    BY <1>2, <2>1, NextFacts
  <2>3. /\ n.x \in Nat /\ Current(n).length \in Int /\ y_pos(ed) \in Nat
        /\ HasEnd(ed.lines, 0)
    BY <2>2, EditorFacts
  <2>4. PICK z \in Nat : z = num_lines(ed.lines) /\ ed.lines[z].length = -1
    BY <2>3, NumFacts
  <2>5. ASSUME OnLine(ed) PROVE OnLine(n)
    <3>1. y_pos(ed) < z /\ AllClean(ed.lines)
      BY <2>4, <2>5 DEF OnLine
    <3>2. y_pos(ed) + 1 # z
      BY <1>2, <2>4
    <3>3. y_pos(n) < num_lines(n.lines)
      BY <2>2, <2>3, <2>4, <3>1, <3>2
    <3>4. n.x <= AtLeast0(Current(n).length - (IF n.mode = "NORMAL" THEN 1 ELSE 0))
      BY <2>2, <2>3 DEF AtLeast0
    <3> QED
      BY <2>2, <3>1, <3>3, <3>4 DEF OnLine
  <2> QED
    BY <2>2, <2>5
<1> QED
  BY <1>1, <1>2

\* A line up, if there is one.
LEMMA UpFacts ==
  ASSUME NEW p \in 0 .. MaxPresses, NEW ed, EditorFits(ed, p), NEW n, n = prev_line(ed)
  PROVE  EditorFits(n, p) /\ (OnLine(ed) /\ ed.offset = 0 => n.offset = 0 /\ OnLine(n))
<1>1. /\ EditorFits(n, p) /\ n.lines = ed.lines /\ n.mode = ed.mode
      /\ n.offset = 0 /\ ed.offset = 0 =>
           \/ n = ed
           \/ ed.y > 0 /\ n.y = ed.y - 1 /\ n.x <= AtLeast0(Current(n).length - 1)
      /\ ed.offset = 0 => n.offset = 0
  BY PrevFacts
<1>2. ed.y \in Nat /\ y_pos(ed) = ed.y + ed.offset
  BY EditorFacts
<1>3. n.x \in Nat /\ Current(n).length \in Int /\ y_pos(n) = n.y + n.offset
  BY <1>1, EditorFacts
<1>4. num_lines(ed.lines) \in Nat
  BY EditorFacts, NumFacts
<1>5. ASSUME OnLine(ed), ed.offset = 0, n # ed PROVE OnLine(n)
  <2>1. ed.y > 0 /\ n.y = ed.y - 1 /\ n.x <= AtLeast0(Current(n).length - 1) /\ n.offset = 0
    BY <1>1, <1>5
  <2>2. y_pos(ed) < num_lines(ed.lines) /\ AllClean(ed.lines)
    BY <1>5 DEF OnLine
  <2>3. y_pos(n) < num_lines(n.lines)
    BY <1>1, <1>2, <1>3, <1>4, <1>5, <2>1, <2>2
  <2>4. n.x <= AtLeast0(Current(n).length - (IF n.mode = "NORMAL" THEN 1 ELSE 0))
    BY <1>3, <2>1 DEF AtLeast0
  <2> QED
    BY <1>1, <2>2, <2>3, <2>4 DEF OnLine
<1> QED
  BY <1>1, <1>5

\* A key that moves the cursor within its line.
LEMMA AlongKeeps ==
  ASSUME IInv, NEW mode, Press(mode), NEW x \in Nat, x <= Room(presses + 1),
         NEW m \in {"NORMAL", "INSERT"}, NEW n, n = InMode(At(e, x, e.y, e.offset), m),
         Becomes(n),
         careful => x <= AtLeast0(Current(e).length - (IF m = "NORMAL" THEN 1 ELSE 0))
  PROVE  IInv'
<1>1. /\ presses \in 0 .. MaxPresses /\ presses + 1 \in 0 .. MaxPresses /\ presses <= presses + 1
      /\ EditorFits(e, presses)
      /\ careful => OnLine(e)
  BY PressFacts
<1>2. PICK p : p = presses
  OBVIOUS
<1>3. PICK ed : ed = e
  OBVIOUS
<1>4. /\ p \in 0 .. MaxPresses /\ p + 1 \in 0 .. MaxPresses /\ p <= p + 1 /\ EditorFits(ed, p)
      /\ x <= Room(p + 1) /\ n = InMode(At(ed, x, ed.y, ed.offset), m)
      /\ x \in Nat /\ m \in {"NORMAL", "INSERT"}
  BY <1>1, <1>2, <1>3
<1>5. /\ EditorFits(n, p + 1)
      /\ OnLine(ed) /\ x <= AtLeast0(Current(ed).length - (IF m = "NORMAL" THEN 1 ELSE 0))
           => OnLine(n)
  BY ONLY <1>4, AlongFacts
<1> QED
  BY <1>1, <1>2, <1>3, <1>5, BecomesKeeps

\* i and I
LEMMA InsertHereKeeps == IInv /\ InsertHere => IInv'
<1> SUFFICES ASSUME IInv, InsertHere PROVE IInv'
  OBVIOUS
<1>1. Press("NORMAL")
  BY DEF InsertHere
<1>2. PICK x \in {e.x, 0} : Becomes([e EXCEPT !.x = x, !.mode = "INSERT"])
  BY DEF InsertHere
<1>3. /\ presses + 1 \in 0 .. MaxPresses /\ EditorFits(e, presses + 1) /\ e.mode = "NORMAL"
      /\ careful => OnLine(e)
  BY <1>1, PressFacts
<1>4. /\ e \in Editor /\ e.x \in Nat /\ e.x <= Room(presses + 1) /\ Current(e).length \in Int
      /\ Room(presses + 1) \in Nat
  BY <1>3, EditorFacts, Bounds
<1>5. x \in Nat /\ x <= e.x /\ x <= Room(presses + 1)
  BY <1>4
<1>6. PICK n : n = [e EXCEPT !.x = x, !.mode = "INSERT"]
  OBVIOUS
<1>7. n = InMode(At(e, x, e.y, e.offset), "INSERT")
  BY <1>4, <1>6 DEF Editor, At, InMode
<1>8. careful => x <= AtLeast0(Current(e).length - 0)
  BY <1>3, <1>4, <1>5 DEF OnLine, AtLeast0
<1> QED
  BY <1>1, <1>2, <1>5, <1>6, <1>7, <1>8, AlongKeeps

\* a and A
LEMMA InsertAfterKeeps == IInv /\ InsertAfter => IInv'
<1> SUFFICES ASSUME IInv, InsertAfter PROVE IInv'
  OBVIOUS
<1>1. Press("NORMAL")
  BY DEF InsertAfter
<1>2. PICK ed \in {e, goto_eol(e)} :
        Becomes([ed EXCEPT !.x = IF Current(ed).length # 0 THEN @ + 1 ELSE @,
                           !.mode = "INSERT"])
  BY DEF InsertAfter
<1>3. /\ presses \in 0 .. MaxPresses /\ presses + 1 \in 0 .. MaxPresses
      /\ EditorFits(e, presses) /\ e.mode = "NORMAL"
      /\ careful => OnLine(e)
      /\ careful => Current(e).length \in Nat
  BY <1>1, PressFacts
<1>4. /\ Room(presses + 1) = Room(presses) + 1 /\ Room(presses) \in Nat
      /\ e \in Editor /\ e.x \in Nat /\ e.x <= Room(presses) /\ Current(e).length \in Int
  BY <1>3, Bounds, EditorFacts
<1>5. /\ ed \in Editor /\ ed.x \in Nat /\ ed.x <= Room(presses)
      /\ ed.y = e.y /\ ed.offset = e.offset /\ ed.lines = e.lines /\ ed.mode = e.mode
      /\ Current(ed) = Current(e)
      /\ ed.x = e.x \/ ed.x = AtLeast0(Current(e).length - 1)
  <2>1. CASE ed = e
    BY <1>4, <2>1
  <2>2. CASE ed = goto_eol(e)
    <3>1. /\ EditorFits(ed, presses) /\ ed.y = e.y /\ ed.offset = e.offset /\ ed.lines = e.lines
          /\ ed.mode = e.mode /\ Current(ed) = Current(e)
          /\ ed.x = AtLeast0(Current(e).length - 1)
      BY <1>3, <2>2, EolFacts
    <3> QED
      BY <1>3, <3>1, EditorFacts
  <2> QED
    BY <2>1, <2>2
<1>6. PICK x : x = IF Current(e).length # 0 THEN ed.x + 1 ELSE ed.x
  OBVIOUS
<1>7. x \in Nat /\ x <= Room(presses + 1)
  BY <1>4, <1>5, <1>6
<1>8. PICK n : n = [ed EXCEPT !.x = IF Current(ed).length # 0 THEN @ + 1 ELSE @,
                              !.mode = "INSERT"]
  OBVIOUS
<1>9. n = InMode(At(e, x, e.y, e.offset), "INSERT")
  BY <1>4, <1>5, <1>6, <1>8 DEF Editor, At, InMode
<1>10. careful => x <= AtLeast0(Current(e).length - 0)
  <2>1. SUFFICES ASSUME careful PROVE x <= AtLeast0(Current(e).length - 0)
    OBVIOUS
  <2>2. e.x <= AtLeast0(Current(e).length - 1) /\ Current(e).length \in Nat
    BY <1>3, <2>1 DEF OnLine
  <2> QED
    BY <1>4, <1>5, <1>6, <2>2 DEF AtLeast0
<1> QED
  BY <1>1, <1>2, <1>7, <1>8, <1>9, <1>10, AlongKeeps

\* ESC
LEMMA EscapeKeeps == IInv /\ Escape => IInv'
<1> SUFFICES ASSUME IInv, Escape PROVE IInv'
  OBVIOUS
<1>1. Press("INSERT") /\ Becomes([e EXCEPT !.mode = "NORMAL", !.x = AtLeast0(@ - 1)])
  BY DEF Escape
<1>2. /\ presses + 1 \in 0 .. MaxPresses /\ EditorFits(e, presses + 1) /\ e.mode = "INSERT"
      /\ careful => OnLine(e)
  BY <1>1, PressFacts
<1>3. /\ e \in Editor /\ e.x \in Nat /\ e.x <= Room(presses + 1) /\ Current(e).length \in Int
      /\ Room(presses + 1) \in Nat
  BY <1>2, EditorFacts, Bounds
<1>4. PICK x : x = AtLeast0(e.x - 1)
  OBVIOUS
<1>5. x \in Nat /\ x <= Room(presses + 1)
  BY <1>3, <1>4 DEF AtLeast0
<1>6. PICK n : n = [e EXCEPT !.mode = "NORMAL", !.x = AtLeast0(@ - 1)]
  OBVIOUS
<1>7. n = InMode(At(e, x, e.y, e.offset), "NORMAL")
  BY <1>3, <1>4, <1>6 DEF Editor, At, InMode
<1>8. careful => x <= AtLeast0(Current(e).length - 1)
  BY <1>2, <1>3, <1>4 DEF OnLine, AtLeast0
<1> QED
  BY <1>1, <1>5, <1>6, <1>7, <1>8, AlongKeeps

\* h, l, k, j, $ and 0
LEMMA MoveKeeps == IInv /\ Move => IInv'
<1> SUFFICES ASSUME IInv, Move PROVE IInv'
  OBVIOUS
<1>1. Press("NORMAL")
  BY DEF Move
<1>2. /\ presses \in 0 .. MaxPresses /\ presses + 1 \in 0 .. MaxPresses /\ presses <= presses + 1
      /\ EditorFits(e, presses) /\ EditorFits(e, presses + 1) /\ e.mode = "NORMAL"
      /\ careful => e.offset = 0 /\ OnLine(e)
  BY <1>1, PressFacts
<1>3. /\ e \in Editor /\ e.x \in Nat /\ e.x <= Room(presses + 1) /\ Current(e).length \in Int
      /\ Current(e).length <= Room(presses + 1) /\ Room(presses + 1) \in Nat
      /\ y_pos(e) \in Nat /\ y_pos(e) = e.y + e.offset /\ e.y + e.offset <= Rows(presses)
      /\ Rows(presses) \in Nat /\ Rows(presses + 1) = Rows(presses) + 1
  BY <1>2, EditorFacts, Bounds
<1>4. careful => e.x <= AtLeast0(Current(e).length - 1)
  BY <1>2 DEF OnLine
<1>5. ASSUME NEW x \in Nat, Becomes([e EXCEPT !.x = x]), x <= Room(presses + 1),
             careful => x <= AtLeast0(Current(e).length - 1)
      PROVE  IInv'
  <2>1. PICK n : n = [e EXCEPT !.x = x]
    OBVIOUS
  <2>2. n = InMode(At(e, x, e.y, e.offset), "NORMAL")
    BY <1>2, <1>3, <2>1 DEF Editor, At, InMode
  <2> QED
    BY <1>1, <1>5, <2>1, <2>2, AlongKeeps
<1>6. CASE Becomes([e EXCEPT !.x = AtLeast0(@ - 1)])
  <2>1. PICK x : x = AtLeast0(e.x - 1)
    OBVIOUS
  <2>2. x \in Nat /\ x <= Room(presses + 1) /\ x <= e.x
    BY <1>3, <2>1 DEF AtLeast0
  <2>3. careful => x <= AtLeast0(Current(e).length - 1)
    BY <1>3, <1>4, <2>2 DEF AtLeast0
  <2> QED
    BY <1>5, <1>6, <2>1, <2>2, <2>3
<1>7. CASE Becomes([e EXCEPT !.x = IF @ + 1 < Current(e).length THEN @ + 1 ELSE @])
  <2>1. PICK x : x = IF e.x + 1 < Current(e).length THEN e.x + 1 ELSE e.x
    OBVIOUS
  <2>2. x \in Nat /\ x <= Room(presses + 1)
    BY <1>3, <2>1
  <2>3. careful => x <= AtLeast0(Current(e).length - 1)
    BY <1>3, <1>4, <2>1 DEF AtLeast0
  <2> QED
    BY <1>5, <1>7, <2>1, <2>2, <2>3
<1>8. CASE Becomes(prev_line(e))
  <2>1. PICK n : n = prev_line(e)
    OBVIOUS
  <2>2. EditorFits(n, presses + 1) /\ (OnLine(e) /\ e.offset = 0 => OnLine(n))
    BY <1>2, <2>1, UpFacts
  <2> QED
    BY <1>1, <1>2, <1>8, <2>1, <2>2, BecomesKeeps
<1>9. CASE Becomes(next_line(e))
  <2>1. PICK n : n = next_line(e)
    OBVIOUS
  <2>2. y_pos(e) + 1 <= Rows(presses + 1)
    BY <1>3
  <2>3. EditorFits(n, presses + 1) /\ (OnLine(e) /\ n.offset = 0 => OnLine(n))
    BY <1>2, <2>1, <2>2, DownFacts
  <2> QED
    BY <1>1, <1>2, <1>9, <2>1, <2>3, BecomesKeeps
<1>10. CASE Becomes(goto_eol(e))
  <2>1. PICK n : n = goto_eol(e)
    OBVIOUS
  <2>2. /\ EditorFits(n, presses + 1) /\ n.y = e.y /\ n.offset = e.offset /\ n.lines = e.lines
        /\ n.mode = "NORMAL" /\ n.x = AtLeast0(Current(e).length - 1)
    BY <1>2, <2>1, EolFacts
  <2>3. OnLine(e) => OnLine(n)
    <3>1. n.x <= AtLeast0(Current(e).length - 1)
      BY <1>3, <2>2 DEF AtLeast0
    <3> QED
      BY <2>2, <3>1, OnLineStill
  <2> QED
    BY <1>1, <1>2, <1>10, <2>1, <2>2, <2>3, BecomesKeeps
<1>11. CASE Becomes([e EXCEPT !.x = 0])
  <2>1. careful => 0 <= AtLeast0(Current(e).length - 1)
    BY <1>3 DEF AtLeast0
  <2> QED
    BY <1>3, <1>5, <1>11, <2>1
<1> QED
  BY <1>6, <1>7, <1>8, <1>9, <1>10, <1>11 DEF Move

\* w
LEMMA WordKeeps == IInv /\ Word => IInv'
<1> SUFFICES ASSUME IInv, Word PROVE IInv'
  OBVIOUS
<1> DEFINE spaces == {k \in Column : /\ e.x <= k /\ Current(e).text[k] = Space
                                     /\ k = e.x \/ k < Current(e).length}
<1>1. Press("NORMAL")
  BY DEF Word
<1>2. \/ ~OnText /\ Lost
      \/ /\ OnText /\ spaces # {}
         /\ \E k \in spaces : BecomesUnchecked([e EXCEPT !.x = k + 1])
      \/ OnText /\ BecomesUnchecked(next_line([e EXCEPT !.x = 0]))
  BY DEF Word
<1>3. /\ presses \in 0 .. MaxPresses /\ presses + 1 \in 0 .. MaxPresses /\ presses <= presses + 1
      /\ EditorFits(e, presses) /\ e.mode = "NORMAL"
      /\ careful => OnText
  BY <1>1, PressFacts DEF OnText
<1>4. /\ e \in Editor /\ e.y \in Nat /\ e.offset \in Nat /\ e.y + e.offset <= Rows(presses)
      /\ y_pos(e) = e.y + e.offset /\ LineFits(Current(e), Room(presses))
      /\ Room(presses) \in Nat /\ Room(presses + 1) = Room(presses) + 1
      /\ Rows(presses) \in Nat /\ Rows(presses + 1) = Rows(presses) + 1
  BY <1>3, EditorFacts, Bounds
<1>5. CASE ~OnText /\ Lost
  BY <1>1, <1>3, <1>5, LostKeeps
<1>6. ASSUME OnText, NEW k \in spaces, BecomesUnchecked([e EXCEPT !.x = k + 1]) PROVE IInv'
  <2>1. k \in Column /\ Current(e).text[k] = Space /\ k \in Nat
    BY Numbers
  <2>2. Room(presses) \in Column
    BY <1>3, Bounds
  <2>3. \A i \in Column : Room(presses) <= i => Current(e).text[i] = Nul
    BY <1>4, <1>6, <2>2, LineFacts DEF OnText
  <2>4. k + 1 \in Nat /\ k + 1 <= Room(presses + 1)
    <3>1. ~(Room(presses) <= k)
      BY <2>1, <2>3, Characters
    <3> QED
      BY <1>4, <2>1, <3>1
  <2>5. PICK n : n = [e EXCEPT !.x = k + 1]
    OBVIOUS
  <2>6. n = InMode(At(e, k + 1, e.y, e.offset), "NORMAL")
    BY <1>3, <1>4, <2>5 DEF Editor, At, InMode
  <2>7. EditorFits(n, presses + 1)
    BY <1>3, <2>4, <2>6, AlongFacts
  <2> QED
    BY <1>1, <1>6, <2>5, <2>7, UncheckedKeeps
<1>7. CASE BecomesUnchecked(next_line([e EXCEPT !.x = 0]))
  <2>1. PICK m : m = [e EXCEPT !.x = 0]
    OBVIOUS
  <2>2. m = At(e, 0, e.y, e.offset)
    BY <1>4, <2>1 DEF Editor, At
  <2>3. EditorFits(m, presses) /\ y_pos(m) = e.y + e.offset
    <3>1. 0 <= Room(presses) /\ presses <= presses
      BY <1>3, <1>4
    <3> QED
      BY <1>3, <1>4, <2>2, <3>1, AtFacts
  <2>4. PICK n : n = next_line(m)
    OBVIOUS
  <2>5. y_pos(m) + 1 <= Rows(presses + 1)
    BY <1>4, <2>3
  <2>6. EditorFits(n, presses + 1)
    BY <1>3, <2>3, <2>4, <2>5, DownFacts
  <2> QED
    BY <1>1, <1>7, <2>1, <2>4, <2>6, UncheckedKeeps
<1> HIDE DEF spaces
<1> QED
  BY <1>2, <1>5, <1>6, <1>7

\* Going down a line at a time.
LEMMA WalkExists ==
  ASSUME NEW ed, NEW m \in Nat
  PROVE  \E w : w = [n \in 0 .. m |-> IF n = 0 THEN ed ELSE next_line(w[n - 1])]
<1> DEFINE T == {k \in Nat : \E w : w = [n \in 0 .. k |-> IF n = 0 THEN ed
                                                         ELSE next_line(w[n - 1])]}
<1>1. 0 \in T
  <2> DEFINE w == [n \in 0 .. 0 |-> ed]
  <2>1. \A n \in 0 .. 0 : n = 0
    OBVIOUS
  <2>2. w = [n \in 0 .. 0 |-> IF n = 0 THEN ed ELSE next_line(w[n - 1])]
    BY <2>1
  <2> QED
    BY <2>2
<1>2. ASSUME NEW k \in Nat, k \in T PROVE k + 1 \in T
  <2>1. PICK w : w = [n \in 0 .. k |-> IF n = 0 THEN ed ELSE next_line(w[n - 1])]
    BY <1>2
  <2> DEFINE v == [n \in 0 .. k + 1 |-> IF n = 0 THEN ed ELSE next_line(w[n - 1])]
  <2>2. \A n \in 0 .. k + 1 : n # 0 => n - 1 \in 0 .. k /\ n - 1 \in 0 .. k + 1
    OBVIOUS
  <2>3. \A n \in 0 .. k : n \in 0 .. k + 1
    OBVIOUS
  <2>4. \A n \in 0 .. k : v[n] = w[n]
    <3>1. \A n \in 0 .. k : v[n] = IF n = 0 THEN ed ELSE next_line(w[n - 1])
      BY <2>3
    <3>2. \A n \in 0 .. k : w[n] = IF n = 0 THEN ed ELSE next_line(w[n - 1])
      BY <2>1
    <3> QED
      BY <3>1, <3>2
  <2>5. v = [n \in 0 .. k + 1 |-> IF n = 0 THEN ed ELSE next_line(v[n - 1])]
    <3>1. \A n \in 0 .. k + 1 : n # 0 => next_line(v[n - 1]) = next_line(w[n - 1])
      BY <2>2, <2>4
    <3> QED
      BY <3>1
  <2> HIDE DEF v
  <2>6. k + 1 \in Nat /\ \E u : u = [n \in 0 .. k + 1 |-> IF n = 0 THEN ed ELSE next_line(u[n - 1])]
    BY <2>5
  <2> QED
    BY <2>6
<1> HIDE DEF T
<1>3. \A k \in 0 .. m : k \in T
  BY <1>1, <1>2, Upwards
<1>4. m \in T
  BY <1>3
<1> QED
  BY <1>4 DEF T

\* Where one arrives.
Walk(ed) == CHOOSE w : w = [n \in Slot |-> IF n = 0 THEN ed ELSE next_line(w[n - 1])]

LEMMA WalkFacts ==
  ASSUME NEW p \in 0 .. MaxPresses, NEW ed, EditorFits(ed, p), HasEnd(ed.lines, y_pos(ed) + 1),
         NEW n, n = Walk(ed)[EndFrom(ed.lines, y_pos(ed) + 1) - (y_pos(ed) + 1)]
  PROVE  /\ EditorFits(n, p) /\ n.lines = ed.lines
         /\ OnLine(ed) /\ n.offset = 0 => OnLine(n)
<1>1. /\ y_pos(ed) \in Nat /\ ArrayFits(ed.lines, Rows(p), Room(p)) /\ Rows(p) \in Nat
      /\ y_pos(ed) + 1 \in Nat
  BY EditorFacts, Bounds
<1>2. PICK z \in Nat : z = EndFrom(ed.lines, y_pos(ed) + 1) /\ z \in Slot
  BY <1>1, EndFacts
<1>3. /\ y_pos(ed) + 1 <= z /\ ed.lines[z].length = -1
      /\ \A j \in Nat : y_pos(ed) + 1 <= j /\ j < z => ed.lines[j].length # -1
  BY <1>1, <1>2, EndFacts
<1>4. z <= Rows(p)
  BY <1>1, <1>2, <1>3 DEF ArrayFits
<1>5. PICK m \in Nat : m = z - (y_pos(ed) + 1)
  BY <1>1, <1>2, <1>3
<1>6. PICK w : w = Walk(ed)
  OBVIOUS
<1>7. \A k \in Nat : k <= m => w[k] = IF k = 0 THEN ed ELSE next_line(w[k - 1])
  <2>1. PICK b \in Nat : Slot = 0 .. b
    BY BoundsAssumption DEF Slot
  <2>2. \E v : v = [k \in 0 .. b |-> IF k = 0 THEN ed ELSE next_line(v[k - 1])]
    BY ONLY b \in Nat, WalkExists, ZenonT(60)
  <2>3. w = [k \in Slot |-> IF k = 0 THEN ed ELSE next_line(w[k - 1])]
    BY <1>6, <2>1, <2>2 DEF Walk
  <2>4. \A k \in Nat : k <= m => k \in Slot
    <3>1. \A k \in Nat : k <= m => k <= z
      BY <1>1, <1>2, <1>5
    <3> QED
      BY <1>2, <3>1, Numbers
  <2> QED
    BY <2>3, <2>4
<1> DEFINE T == {k \in Nat : /\ EditorFits(w[k], p) /\ w[k].lines = ed.lines
                             /\ y_pos(w[k]) = y_pos(ed) + k
                             /\ OnLine(ed) /\ w[k].offset = 0 => OnLine(w[k])}
<1>8. 0 \in T
  <2>1. w[0] = ed
    BY <1>7
  <2> QED
    BY <1>1, <2>1
<1>9. ASSUME NEW k \in Nat, k < m, k \in T PROVE k + 1 \in T
  <2>1. PICK a, b : a = w[k] /\ b = w[k + 1]
    OBVIOUS
  <2>2. /\ EditorFits(a, p) /\ a.lines = ed.lines /\ y_pos(a) = y_pos(ed) + k
        /\ OnLine(ed) /\ a.offset = 0 => OnLine(a)
    BY <1>9, <2>1
  <2>3. b = next_line(a)
    <3>1. k + 1 \in Nat /\ k + 1 <= m /\ k + 1 # 0 /\ (k + 1) - 1 = k
      BY <1>9
    <3> QED
      BY <1>7, <2>1, <3>1
  <2>4. /\ y_pos(a) + 1 \in Nat /\ y_pos(ed) + 1 <= y_pos(a) + 1 /\ y_pos(a) + 1 < z
        /\ y_pos(a) + 1 <= Rows(p) /\ y_pos(a) + 1 = y_pos(ed) + (k + 1)
    BY <1>1, <1>2, <1>4, <1>5, <1>9, <2>2
  <2>5. a.lines[y_pos(a) + 1].length # -1
    BY <1>3, <2>2, <2>4
  <2>6. p <= p
    OBVIOUS
  <2>7. EditorFits(b, p) /\ (OnLine(a) /\ b.offset = 0 => OnLine(b))
    BY <2>2, <2>3, <2>4, <2>6, DownFacts
  <2>8. /\ b.lines = a.lines /\ y_pos(b) = y_pos(a) + 1
        /\ b.offset = 0 => a.offset = 0
    BY <2>2, <2>3, <2>4, <2>5, <2>6, NextFacts
  <2> QED
    BY <2>1, <2>2, <2>4, <2>7, <2>8
<1> HIDE DEF T
<1>10. \A k \in 0 .. m : k \in T
  BY <1>8, <1>9, Upwards
<1>11. m \in T /\ n = w[m]
  BY <1>2, <1>5, <1>6, <1>10
<1> QED
  BY <1>11 DEF T

\* G
LEMMA LastLineKeeps == IInv /\ LastLine => IInv'
<1> SUFFICES ASSUME IInv, LastLine PROVE IInv'
  OBVIOUS
<1>1. Press("NORMAL")
  BY DEF LastLine
<1>2. \/ ~HasEnd(e.lines, y_pos(e) + 1) /\ Lost
      \/ /\ HasEnd(e.lines, y_pos(e) + 1)
         /\ Becomes(Walk(e)[EndFrom(e.lines, y_pos(e) + 1) - (y_pos(e) + 1)])
  BY DEF LastLine, Walk
<1>3. /\ presses \in 0 .. MaxPresses /\ presses + 1 \in 0 .. MaxPresses /\ presses <= presses + 1
      /\ EditorFits(e, presses)
      /\ careful => OnLine(e)
  BY <1>1, PressFacts
<1>4. /\ y_pos(e) \in Nat /\ HasEnd(e.lines, 0)
  BY <1>3, EditorFacts
<1>5. careful => HasEnd(e.lines, y_pos(e) + 1)
  <2>1. num_lines(e.lines) \in Slot /\ num_lines(e.lines) \in Nat
        /\ e.lines[num_lines(e.lines)].length = -1
    BY <1>4, NumFacts
  <2>2. careful => y_pos(e) + 1 <= num_lines(e.lines)
    BY <1>3, <1>4, <2>1 DEF OnLine
  <2> QED
    BY <2>1, <2>2 DEF HasEnd
<1>6. CASE ~HasEnd(e.lines, y_pos(e) + 1) /\ Lost
  BY <1>1, <1>5, <1>6, LostKeeps
<1>7. CASE /\ HasEnd(e.lines, y_pos(e) + 1)
           /\ Becomes(Walk(e)[EndFrom(e.lines, y_pos(e) + 1) - (y_pos(e) + 1)])
  <2>1. PICK n : n = Walk(e)[EndFrom(e.lines, y_pos(e) + 1) - (y_pos(e) + 1)]
    OBVIOUS
  <2>2. EditorFits(n, presses) /\ (OnLine(e) /\ n.offset = 0 => OnLine(n))
    BY <1>3, <1>7, <2>1, WalkFacts
  <2>3. EditorFits(n, presses + 1)
    BY <1>3, <2>2, EditorWider
  <2> QED
    BY <1>1, <1>3, <1>7, <2>1, <2>2, <2>3, BecomesKeeps
<1> QED
  BY <1>2, <1>6, <1>7

-----------------------------------------------------------------------------
(* Keys that change lines *)

\* x
LEMMA DeleteCharacterKeeps == IInv /\ DeleteCharacter => IInv'
<1> SUFFICES ASSUME IInv, DeleteCharacter PROVE IInv'
  OBVIOUS
<1>1. /\ Press("NORMAL")
      /\ \/ ~OnText /\ Lost
         \/ (OnText \/ Current(e).length = 0) /\ Becomes(delete_char(e))
  BY DEF DeleteCharacter
<1>2. /\ presses \in 0 .. MaxPresses /\ presses + 1 \in 0 .. MaxPresses /\ presses <= presses + 1
      /\ EditorFits(e, presses) /\ e.mode = "NORMAL"
      /\ careful => OnLine(e)
      /\ careful => OnText
      /\ careful => Current(e).length \in Nat
  BY <1>1, PressFacts DEF OnText
<1>3. CASE ~OnText /\ Lost
  BY <1>1, <1>2, <1>3, LostKeeps
<1>4. ASSUME OnText \/ Current(e).length = 0, Becomes(delete_char(e)) PROVE IInv'
  <2>1. PICK n : n = delete_char(e)
    OBVIOUS
  <2>2. /\ EditorFits(n, presses) /\ n.mode = e.mode /\ n.y = e.y /\ n.offset = e.offset
        /\ num_lines(n.lines) = num_lines(e.lines)
        /\ Current(e).length = 0 => n = e
        /\ Current(e).length # 0 =>
             /\ Current(n).length = Current(e).length - 1
             /\ n.x = IF e.x > Current(e).length - 2 THEN AtLeast0(e.x - 1) ELSE e.x
        /\ AllClean(e.lines) /\ e.x < Current(e).length /\ y_pos(e) < num_lines(e.lines)
             => AllClean(n.lines)
    BY <1>2, <1>4, <2>1, DeleteFactsAt DEF OnText
  <2>3. ASSUME careful, Current(e).length # 0 PROVE OnLine(n)
    <3>1. /\ Current(e).length \in Nat /\ e.x \in Nat
          /\ e.x <= AtLeast0(Current(e).length - 1)
          /\ y_pos(e) < num_lines(e.lines) /\ AllClean(e.lines)
      BY <1>2, <2>3, EditorFacts DEF OnLine
    <3>2. e.x < Current(e).length
      BY <2>3, <3>1 DEF AtLeast0
    <3>3. n.x <= AtLeast0(Current(n).length - 1)
      <4>1. PICK x, l : x = e.x /\ l = Current(e).length
        OBVIOUS
      <4>2. x \in Nat /\ l \in Nat /\ l # 0 /\ x < l
        BY <2>3, <3>1, <3>2, <4>1
      <4>3. (IF x > l - 2 THEN AtLeast0(x - 1) ELSE x) <= AtLeast0(l - 1 - 1)
        BY <4>2 DEF AtLeast0
      <4> QED
        BY <2>2, <2>3, <4>1, <4>3
    <3> QED
      BY <1>2, <2>2, <3>1, <3>2, <3>3 DEF OnLine, y_pos
  <2>4. EditorFits(n, presses + 1)
    BY <1>2, <2>2, EditorWider
  <2> QED
    BY <1>1, <1>2, <1>4, <2>1, <2>2, <2>3, <2>4, BecomesKeeps
<1> QED
  BY <1>1, <1>3, <1>4

\* DEL
LEMMA BackspaceKeeps == IInv /\ Backspace => IInv'
<1> SUFFICES ASSUME IInv, Backspace PROVE IInv'
  OBVIOUS
<1>1. PICK m : m = [e EXCEPT !.x = @ - 1]
  OBVIOUS
<1>2. PICK left : left = delete_char(m)
  OBVIOUS
<1>3. PICK right : right = [left EXCEPT !.x = @ + 1]
  OBVIOUS
<1>4. /\ Press("INSERT") /\ e.x > 0
      /\ \/ ~OnText /\ Lost
         \/ /\ OnText \/ Current(e).length = 0
            /\ \/ e.x = Current(e).length /\ Current(left).length = 0 /\ Becomes(left)
               \/ e.x = Current(e).length /\ Current(left).length # 0 /\ Becomes(right)
               \/ e.x # Current(e).length /\ Becomes(left)
  BY <1>1, <1>2, <1>3 DEF Backspace
<1>5. /\ presses \in 0 .. MaxPresses /\ presses + 1 \in 0 .. MaxPresses /\ presses <= presses + 1
      /\ EditorFits(e, presses) /\ e.mode = "INSERT"
      /\ careful => OnLine(e)
      /\ careful => OnText
      /\ careful => Current(e).length \in Nat
  BY <1>4, PressFacts DEF OnText
<1>6. CASE ~OnText /\ Lost
  BY <1>4, <1>5, <1>6, LostKeeps
<1>7. ASSUME OnText \/ Current(e).length = 0 PROVE
        /\ EditorFits(left, presses + 1) /\ EditorFits(right, presses + 1)
        /\ careful => /\ OnLine(left)
                      /\ e.x = Current(e).length /\ Current(left).length # 0 => OnLine(right)
  <2>1. /\ e \in Editor /\ e.x \in Nat /\ e.x <= Room(presses) /\ e.y \in Nat
        /\ e.offset \in Nat /\ e.y + e.offset <= Rows(presses)
        /\ Room(presses) \in Nat /\ Room(presses + 1) = Room(presses) + 1
    BY <1>5, EditorFacts, Bounds
  <2>2. m = At(e, e.x - 1, e.y, e.offset)
    BY <1>1, <2>1 DEF Editor, At
  <2>3. e.x - 1 \in Nat /\ e.x - 1 <= Room(presses) /\ presses <= presses
    BY <1>4, <1>5, <2>1
  <2>4. /\ EditorFits(m, presses) /\ m.x = e.x - 1 /\ m.y = e.y /\ m.offset = e.offset
        /\ m.lines = e.lines /\ m.mode = e.mode
    BY <1>5, <2>1, <2>2, <2>3, AtFacts, SMTT(30)
  <2>5. Current(m) = Current(e) /\ y_pos(m) = y_pos(e)
    BY <2>4 DEF Current, y_pos
  <2>6. /\ EditorFits(left, presses) /\ left.mode = m.mode /\ left.y = m.y
        /\ left.offset = m.offset /\ num_lines(left.lines) = num_lines(m.lines)
        /\ Current(m).length # 0 =>
             /\ Current(left).length = Current(m).length - 1
             /\ left.x = IF m.x > Current(m).length - 2 THEN AtLeast0(m.x - 1) ELSE m.x
        /\ AllClean(m.lines) /\ m.x < Current(m).length /\ y_pos(m) < num_lines(m.lines)
             => AllClean(left.lines)
    BY <1>2, <1>5, <1>7, <2>4, <2>5, DeleteFactsAt DEF OnText
  <2>7. EditorFits(left, presses + 1) /\ left \in Editor /\ left.x \in Nat
        /\ left.x <= Room(presses)
    BY <1>5, <2>6, EditorWider, EditorFacts
  <2>8. right = InMode(At(left, left.x + 1, left.y, left.offset), "INSERT")
    BY <1>3, <1>5, <2>4, <2>6, <2>7 DEF Editor, At, InMode
  <2>9. /\ EditorFits(right, presses + 1)
        /\ OnLine(left) /\ left.x + 1 <= AtLeast0(Current(left).length - 0) => OnLine(right)
    <3>1. left.x + 1 \in Nat /\ left.x + 1 <= Room(presses + 1)
      BY <2>1, <2>7
    <3>2. PICK q, x : q = presses + 1 /\ x = left.x + 1
      OBVIOUS
    <3>3. /\ presses \in 0 .. MaxPresses /\ q \in 0 .. MaxPresses /\ presses <= q
          /\ EditorFits(left, presses) /\ x \in Nat /\ x <= Room(q)
          /\ right = InMode(At(left, x, left.y, left.offset), "INSERT")
      BY <1>5, <2>6, <2>8, <3>1, <3>2
    <3>4. /\ EditorFits(right, q)
          /\ OnLine(left) /\ x <= AtLeast0(Current(left).length - 0) => OnLine(right)
      BY ONLY <3>3, AlongFacts
    <3> QED
      BY <3>2, <3>4
  <2>10. ASSUME careful
         PROVE  /\ OnLine(left)
                /\ e.x = Current(e).length /\ Current(left).length # 0 => OnLine(right)
    <3>1. PICK x, l : x = e.x /\ l = Current(e).length
      OBVIOUS
    <3>2. /\ l \in Nat /\ x \in Nat /\ 0 < x /\ x <= AtLeast0(l - 0)
          /\ y_pos(e) < num_lines(e.lines) /\ AllClean(e.lines)
      BY <1>4, <1>5, <2>1, <2>10, <3>1 DEF OnLine
    <3>3. x <= l /\ l # 0 /\ x - 1 < l
      BY <3>2 DEF AtLeast0
    <3>4. /\ Current(left).length = l - 1
          /\ left.x = IF x - 1 > l - 2 THEN AtLeast0(x - 1 - 1) ELSE x - 1
      BY <2>4, <2>5, <2>6, <3>1, <3>3
    <3>5. /\ left.x <= AtLeast0(l - 1 - 0)
          /\ x = l /\ l - 1 # 0 => left.x + 1 <= AtLeast0(l - 1 - 0)
      BY <3>2, <3>3, <3>4 DEF AtLeast0
    <3>6. AllClean(left.lines)
      BY <2>4, <2>5, <2>6, <3>1, <3>2, <3>3
    <3>7. y_pos(left) = y_pos(e)
      BY <2>4, <2>6 DEF y_pos
    <3>8. OnLine(left)
      BY <1>5, <2>4, <2>6, <3>2, <3>4, <3>5, <3>6, <3>7 DEF OnLine
    <3> QED
      BY <2>9, <3>1, <3>4, <3>5, <3>8
  <2> QED
    BY <2>7, <2>9, <2>10
<1> QED
  BY <1>4, <1>6, <1>7, BecomesKeeps

\* A new line, and the cursor at its start.
LEMMA BelowFacts ==
  ASSUME NEW p \in 0 .. MaxPresses, p + 1 \in 0 .. MaxPresses, NEW ed, EditorFits(ed, p),
         NEW n, n = NewLineBelow(ed)
  PROVE  EditorFits(n, p + 1) /\ n.x = 0 /\ (OnLine(ed) => OnLine(n))
<1>1. /\ EditorFits(n, p + 1) /\ n.x = 0
      /\ y_pos(ed) < num_lines(ed.lines) =>
           /\ y_pos(n) < num_lines(n.lines)
           /\ AllClean(ed.lines) => AllClean(n.lines)
  BY NewLineFacts
<1>2. Current(n).length \in Int
  BY <1>1, EditorFacts
<1>3. n.x <= AtLeast0(Current(n).length - (IF n.mode = "NORMAL" THEN 1 ELSE 0))
  BY <1>1, <1>2 DEF AtLeast0
<1> QED
  BY <1>1, <1>3 DEF OnLine

\* RET, and o
LEMMA ReturnKeeps == IInv /\ Return => IInv'
<1> SUFFICES ASSUME IInv, Return PROVE IInv'
  OBVIOUS
<1>1. Press("INSERT") /\ Becomes(NewLineBelow(e))
  BY DEF Return
<1>2. /\ presses \in 0 .. MaxPresses /\ presses + 1 \in 0 .. MaxPresses
      /\ EditorFits(e, presses)
      /\ careful => OnLine(e)
  BY <1>1, PressFacts
<1>3. PICK n : n = NewLineBelow(e)
  OBVIOUS
<1>4. EditorFits(n, presses + 1) /\ (OnLine(e) => OnLine(n))
  BY <1>2, <1>3, BelowFacts
<1> QED
  BY <1>1, <1>2, <1>3, <1>4, BecomesKeeps

LEMMA OpenLineKeeps == IInv /\ OpenLine => IInv'
<1> SUFFICES ASSUME IInv, OpenLine PROVE IInv'
  OBVIOUS
<1>1. Press("NORMAL") /\ Becomes([NewLineBelow(e) EXCEPT !.mode = "INSERT"])
  BY DEF OpenLine
<1>2. /\ presses \in 0 .. MaxPresses /\ presses + 1 \in 0 .. MaxPresses
      /\ EditorFits(e, presses)
      /\ careful => OnLine(e)
  BY <1>1, PressFacts
<1>3. PICK m : m = NewLineBelow(e)
  OBVIOUS
<1>4. EditorFits(m, presses + 1) /\ m.x = 0 /\ (OnLine(e) => OnLine(m))
  BY <1>2, <1>3, BelowFacts
<1>5. PICK n : n = InMode(m, "INSERT")
  OBVIOUS
<1>6. n = [NewLineBelow(e) EXCEPT !.mode = "INSERT"]
  BY <1>3, <1>5 DEF InMode
<1>7. /\ EditorFits(n, presses + 1)
      /\ n.x = 0 /\ n.y = m.y /\ n.offset = m.offset /\ n.lines = m.lines
  BY <1>2, <1>4, <1>5, ModeFacts
<1>8. OnLine(m) => OnLine(n)
  <2>1. Current(m).length \in Int
    BY <1>2, <1>4, EditorFacts
  <2>2. 0 <= AtLeast0(Current(m).length - (IF n.mode = "NORMAL" THEN 1 ELSE 0))
    BY <2>1 DEF AtLeast0
  <2> QED
    BY <1>7, <2>2, OnLineStill
<1> QED
  BY <1>1, <1>2, <1>4, <1>6, <1>7, <1>8, BecomesKeeps

\* The lines without one of them.
LEMMA DeleteClean ==
  ASSUME NEW ls \in [Slot -> Line], HasEnd(ls, 0), NEW n \in Nat, n < num_lines(ls),
         HasEnd(ls, n), NEW d, d = delete_line(ls, n)
  PROVE  num_lines(d) = num_lines(ls) - 1 /\ (AllClean(ls) => AllClean(d))
<1>1. PICK z \in Nat : z = num_lines(ls) /\ z \in Slot
  BY NumFacts
<1>2. PICK m : m = EndFrom(ls, n)
  OBVIOUS
<1>3. /\ \A i \in Slot : n <= i /\ i < m => d[i] = ls[i + 1] /\ i + 1 \in Slot
      /\ \A i \in Slot : ~(n <= i /\ i < m) => d[i] = ls[i]
      /\ num_lines(d) = z - 1 /\ m = z
  BY <1>1, <1>2, DeleteFacts
<1>4. ASSUME AllClean(ls), NEW i \in Nat, i < z - 1 PROVE Clean(d[i])
  <2>1. i \in Slot
    <3>1. i <= z
      BY <1>1, <1>4
    <3> QED
      BY <1>1, <3>1, Numbers
  <2>2. i < z /\ i + 1 < z /\ i + 1 \in Nat
    BY <1>1, <1>4
  <2>3. d[i] = ls[i + 1] \/ d[i] = ls[i]
    BY <1>3, <2>1, <2>2
  <2> QED
    BY <1>1, <1>4, <2>2, <2>3 DEF AllClean
<1> QED
  BY <1>1, <1>3, <1>4 DEF AllClean

\* A line for an array without any.
LEMMA InsertFirst ==
  ASSUME NEW ls \in [Slot -> Line], HasEnd(ls, 0), num_lines(ls) = 0, NEW d,
         d = insert_line(ls, 0)
  PROVE  num_lines(d) = 1 /\ AllClean(d)
<1>1. 0 \in Slot /\ 0 \in Nat
  BY Numbers
<1>2. 1 \in Slot
  BY BoundsAssumption DEF Slot
<1>3. PICK z : z = num_lines(ls) /\ z + 1 \in Slot /\ z = 0 /\ z + 1 = 1
  BY <1>2
<1>4. d[0] = EmptyLine /\ num_lines(d) = 1
  BY <1>1, <1>3, InsertFacts
<1>5. \A i \in Nat : i < 1 => i = 0
  OBVIOUS
<1>6. Clean(EmptyLine)
  BY EmptyFits DEF Clean
<1> QED
  BY <1>4, <1>5, <1>6 DEF AllClean

\* On a line of the file, the end is found from the cursor on.
LEMMA EndBelow ==
  ASSUME NEW p \in 0 .. MaxPresses, NEW ed, EditorFits(ed, p), OnLine(ed)
  PROVE  HasEnd(ed.lines, y_pos(ed))
<1>1. y_pos(ed) \in Nat /\ HasEnd(ed.lines, 0) /\ y_pos(ed) < num_lines(ed.lines)
  BY EditorFacts DEF OnLine
<1>2. /\ num_lines(ed.lines) \in Slot /\ num_lines(ed.lines) \in Nat
      /\ ed.lines[num_lines(ed.lines)].length = -1
  BY <1>1, NumFacts
<1>3. y_pos(ed) <= num_lines(ed.lines)
  BY <1>1, <1>2
<1> QED
  BY <1>2, <1>3 DEF HasEnd

\* What is left of an editor when a line of its array is deleted, and the cursor in it
\* moved up perhaps.
LEMMA WithoutFacts ==
  ASSUME NEW p \in 0 .. MaxPresses, NEW ed, EditorFits(ed, p), NEW k \in Nat,
         HasEnd(ed.lines, k), NEW d, d = delete_line(ed.lines, k),
         NEW y \in Nat, y <= ed.y, NEW n, n = Having(ed, ed.x, y, d)
  PROVE  /\ EditorFits(n, p) /\ ArrayFits(d, Rows(p), Room(p)) /\ HasEnd(d, k)
         /\ n.x = ed.x /\ n.y = y /\ n.offset = ed.offset /\ n.lines = d /\ n.mode = ed.mode
         /\ y_pos(n) = y + ed.offset
<1>1. /\ ed \in Editor /\ ed.x \in Nat /\ ed.x <= Room(p) /\ ed.y \in Nat /\ ed.offset \in Nat
      /\ ed.y + ed.offset <= Rows(p) /\ Rows(p) \in Nat
      /\ ArrayFits(ed.lines, Rows(p), Room(p)) /\ ed.lines \in [Slot -> Line]
      /\ HasEnd(ed.lines, 0)
  BY EditorFacts, Bounds
<1>2. ArrayFits(d, Rows(p), Room(p))
  BY <1>1, DeleteFits
<1>3. HasEnd(d, k)
  BY <1>1, DeleteFacts
<1>4. y + ed.offset <= Rows(p)
  BY <1>1
<1> QED
  BY <1>1, <1>2, <1>3, <1>4, HavingFacts

\* dd
LEMMA DeleteLineKeeps == IInv /\ DeleteLine => IInv'
<1> SUFFICES ASSUME IInv, DeleteLine PROVE IInv'
  OBVIOUS
<1> DEFINE without == [e EXCEPT !.lines = delete_line(@, y_pos(e))]
           above == IF Current(without).length = -1 /\ e.y > 0
                      THEN [without EXCEPT !.y = @ - 1] ELSE without
           filled == IF num_lines(above.lines) = 0
                       THEN [above EXCEPT !.lines = insert_line(@, 0)] ELSE above
<1>1. /\ Press("NORMAL")
      /\ \/ ~HasEnd(e.lines, y_pos(e)) /\ Lost
         \/ HasEnd(e.lines, y_pos(e)) /\ Becomes(WithinLine(filled))
  BY DEF DeleteLine
<1>2. /\ presses \in 0 .. MaxPresses /\ presses + 1 \in 0 .. MaxPresses /\ presses <= presses + 1
      /\ EditorFits(e, presses) /\ e.mode = "NORMAL"
      /\ careful => OnLine(e)
      /\ careful => e.offset = 0
  BY <1>1, PressFacts
<1>3. CASE ~HasEnd(e.lines, y_pos(e)) /\ Lost
  BY <1>1, <1>2, <1>3, EndBelow, LostKeeps
<1>4. ASSUME HasEnd(e.lines, y_pos(e)), Becomes(WithinLine(filled)) PROVE IInv'
  <2>1. /\ e \in Editor /\ e.x \in Nat /\ e.x <= Room(presses) /\ e.y \in Nat /\ e.offset \in Nat
        /\ e.y + e.offset <= Rows(presses) /\ y_pos(e) = e.y + e.offset /\ y_pos(e) \in Nat
        /\ e.lines \in [Slot -> Line] /\ HasEnd(e.lines, 0)
        /\ Room(presses) \in Nat /\ Room(presses + 1) = Room(presses) + 1
        /\ Rows(presses) \in Nat /\ Rows(presses + 1) = Rows(presses) + 1
        /\ Rows(presses) + 1 \in Slot
    BY <1>2, EditorFacts, Bounds
  <2>2. PICK d : d = delete_line(e.lines, y_pos(e))
    OBVIOUS
  <2>3. without = Having(e, e.x, e.y, d) /\ Current(without) = d[y_pos(e)]
    BY <2>1, <2>2 DEF Editor, Having, Current, y_pos
  <2>4. PICK y : y = IF d[y_pos(e)].length = -1 /\ e.y > 0 THEN e.y - 1 ELSE e.y
    OBVIOUS
  <2>5. above = Having(e, e.x, y, d)
    BY <2>1, <2>2, <2>3, <2>4 DEF Editor, Having
  <2>6. y \in Nat /\ y <= e.y
    BY <2>1, <2>4
  <2>7. /\ EditorFits(above, presses) /\ ArrayFits(d, Rows(presses), Room(presses))
        /\ above.lines = d
    BY <1>2, <1>4, <2>1, <2>2, <2>5, <2>6, WithoutFacts
  <2>8. d \in [Slot -> Line] /\ HasEnd(d, 0)
    BY <2>7 DEF ArrayFits
  <2>9. PICK ls : ls = IF num_lines(d) = 0 THEN insert_line(d, 0) ELSE d
    OBVIOUS
  <2>10. filled = Having(e, e.x, y, ls)
    BY <2>1, <2>5, <2>7, <2>9 DEF Editor, Having
  <2> HIDE DEF without, above, filled
  <2>11. ArrayFits(ls, Rows(presses + 1), Room(presses + 1))
    <3>1. PICK r, w, s, v : /\ r = Rows(presses) /\ w = Room(presses) /\ s = Rows(presses + 1)
                            /\ v = Room(presses + 1)
      OBVIOUS
    <3>2. /\ r \in Nat /\ w \in Nat /\ s \in Nat /\ v \in Nat /\ s = r + 1 /\ r <= s /\ w <= v
          /\ s <= s /\ s \in Slot /\ ArrayFits(d, r, w) /\ 0 \in Slot
      BY <2>1, <2>7, <3>1, Numbers
    <3>3. ArrayFits(insert_line(d, 0), s, w)
      BY ONLY <3>2, InsertFits
    <3>4. ArrayFits(d, s, v)
      BY ONLY <3>2, ArrayWider
    <3>5. PICK i : i = insert_line(d, 0)
      OBVIOUS
    <3>6. ArrayFits(i, s, w)
      BY <3>3, <3>5
    <3>7. ArrayFits(i, s, v)
      BY ONLY <3>2, <3>6, ArrayWider
    <3> QED
      BY <2>9, <3>1, <3>4, <3>5, <3>7
  <2>12. PICK f : f = filled
    OBVIOUS
  <2>13. /\ EditorFits(f, presses + 1) /\ f.y = y /\ f.offset = e.offset /\ f.lines = ls
         /\ f.mode = e.mode /\ y_pos(f) = y + e.offset
    <3>1. e.x <= Room(presses + 1) /\ y + e.offset <= Rows(presses + 1)
      BY <2>1, <2>6
    <3> QED
      BY <1>2, <2>1, <2>6, <2>10, <2>11, <2>12, <3>1, HavingFacts
  <2>14. PICK n : n = WithinLine(f)
    OBVIOUS
  <2>15. /\ EditorFits(n, presses + 1)
         /\ n.y = f.y /\ n.offset = f.offset /\ n.lines = f.lines /\ n.mode = f.mode
         /\ Current(n) = Current(f) /\ n.x <= AtLeast0(Current(f).length - 1)
    BY <1>2, <2>13, <2>14, WithinFacts
  <2>16. ASSUME careful PROVE OnLine(n)
    <3>1. /\ e.offset = 0 /\ y_pos(e) < num_lines(e.lines) /\ AllClean(e.lines)
      BY <1>2, <2>16 DEF OnLine
    <3>2. num_lines(d) = num_lines(e.lines) - 1 /\ AllClean(d)
      BY <1>4, <2>1, <2>2, <3>1, DeleteClean
    <3>3. /\ num_lines(d) \in Nat /\ d[num_lines(d)].length = -1
          /\ \A j \in Nat : j < num_lines(d) => d[j].length # -1
      BY <2>8, NumFacts
    <3> num_lines(e.lines) \in Nat
      BY <2>1, NumFacts
    <3>4. y < num_lines(ls) /\ AllClean(ls)
      <4>1. CASE num_lines(d) = 0
        <5>1. ls = insert_line(d, 0) /\ y_pos(e) = 0
          BY <2>1, <2>9, <3>1, <3>2, <4>1
        <5>2. num_lines(ls) = 1 /\ AllClean(ls)
          BY <2>8, <4>1, <5>1, InsertFirst
        <5> QED
          BY <2>1, <2>6, <3>1, <5>1, <5>2
      <4>2. CASE num_lines(d) # 0
        <5>1. PICK z \in Nat : z = num_lines(d) /\ z # 0
          BY <3>3, <4>2
        <5>2. ls = d /\ y_pos(e) = e.y /\ e.y < z + 1
          BY <2>1, <2>9, <3>1, <3>2, <4>2, <5>1
        <5>3. e.y = z \/ e.y < z
          BY <2>1, <5>2
        <5>4. y < z
          BY <2>1, <2>4, <3>3, <5>1, <5>2, <5>3
        <5> QED
          BY <3>2, <5>1, <5>2, <5>4
      <4> QED
        BY <4>1, <4>2
    <3>5. y_pos(n) = y
      BY <2>6, <2>13, <2>15, <3>1 DEF y_pos
    <3> QED
      BY <1>2, <2>13, <2>15, <3>4, <3>5 DEF OnLine
  <2> QED
    BY <1>1, <1>4, <2>12, <2>14, <2>15, <2>16, BecomesKeeps
<1> HIDE DEF without, above, filled
<1> QED
  BY <1>1, <1>3, <1>4

\* dj and dk
LEMMA DeleteTwoKeeps ==
  ASSUME IInv, Press("NORMAL"), NEW ed, EditorFits(ed, presses), careful => OnLine(ed),
         DeleteTwo(ed)
  PROVE  IInv'
<1> DEFINE without == [ed EXCEPT !.lines = delete_line(delete_line(@, y_pos(ed)), y_pos(ed))]
<1>1. \/ ~HasEnd(ed.lines, y_pos(ed)) /\ Lost
      \/ /\ HasEnd(ed.lines, y_pos(ed))
         /\ BecomesUnchecked(IF Current(without).length = -1 THEN prev_line(without) ELSE without)
  BY DEF DeleteTwo
<1>2. /\ presses \in 0 .. MaxPresses /\ presses + 1 \in 0 .. MaxPresses /\ presses <= presses + 1
  BY PressFacts
<1>3. CASE ~HasEnd(ed.lines, y_pos(ed)) /\ Lost
  BY <1>2, <1>3, EndBelow, LostKeeps
<1>4. ASSUME HasEnd(ed.lines, y_pos(ed)),
             BecomesUnchecked(IF Current(without).length = -1 THEN prev_line(without) ELSE without)
      PROVE  IInv'
  <2>1. /\ ed \in Editor /\ ed.y \in Nat /\ y_pos(ed) \in Nat /\ ed.lines \in [Slot -> Line]
    BY <1>2, EditorFacts
  <2>2. PICK k : k = y_pos(ed)
    OBVIOUS
  <2>3. PICK d : d = delete_line(ed.lines, k)
    OBVIOUS
  <2>4. PICK m : m = Having(ed, ed.x, ed.y, d)
    OBVIOUS
  <2>5. /\ EditorFits(m, presses) /\ HasEnd(m.lines, k) /\ m.x = ed.x /\ m.y = ed.y
        /\ m.lines = d
    BY <1>2, <1>4, <2>1, <2>2, <2>3, <2>4, WithoutFacts
  <2>6. PICK d2 : d2 = delete_line(m.lines, k)
    OBVIOUS
  <2>7. PICK w : w = Having(m, m.x, m.y, d2)
    OBVIOUS
  <2>8. EditorFits(w, presses)
    BY <1>2, <2>1, <2>2, <2>5, <2>6, <2>7, WithoutFacts
  <2>9. without = w
    BY <2>1, <2>2, <2>3, <2>4, <2>5, <2>6, <2>7 DEF Editor, Having
  <2>10. PICK n : n = IF Current(w).length = -1 THEN prev_line(w) ELSE w
    OBVIOUS
  <2>11. EditorFits(n, presses)
    BY <1>2, <2>8, <2>10, UpFacts
  <2>12. EditorFits(n, presses + 1)
    BY <1>2, <2>11, EditorWider
  <2> HIDE DEF without
  <2> QED
    BY <1>4, <2>9, <2>10, <2>12, UncheckedKeeps
<1> HIDE DEF without
<1> QED
  BY <1>1, <1>3, <1>4

LEMMA DeleteWithKeeps == IInv /\ (DeleteWithNext \/ DeleteWithPrevious) => IInv'
<1> SUFFICES ASSUME IInv, DeleteWithNext \/ DeleteWithPrevious PROVE IInv'
  OBVIOUS
<1>1. Press("NORMAL") /\ (DeleteTwo(e) \/ DeleteTwo(prev_line(e)))
  BY DEF DeleteWithNext, DeleteWithPrevious
<1>2. /\ presses \in 0 .. MaxPresses /\ EditorFits(e, presses)
      /\ careful => e.offset = 0 /\ OnLine(e)
  BY <1>1, PressFacts
<1>3. PICK a, b : a = e /\ b = prev_line(e)
  OBVIOUS
<1>4. /\ EditorFits(a, presses) /\ EditorFits(b, presses)
      /\ careful => OnLine(a) /\ OnLine(b)
  BY <1>2, <1>3, UpFacts
<1> QED
  BY <1>1, <1>3, <1>4, DeleteTwoKeeps

\* DEL in the first column
LEMMA BackspaceAtStartKeeps == IInv /\ BackspaceAtStart => IInv'
<1> SUFFICES ASSUME IInv, BackspaceAtStart PROVE IInv'
  OBVIOUS
<1>1. PICK w : w = [e EXCEPT !.lines = delete_line(@, e.y)]
  OBVIOUS
<1>2. PICK u : u = prev_line(w)
  OBVIOUS
<1>3. PICK up : up = goto_eol(u)
  OBVIOUS
<1>4. PICK n : n = [up EXCEPT !.x = IF Current(up).length # 0 THEN @ + 1 ELSE @]
  OBVIOUS
<1>5. /\ Press("INSERT")
      /\ \/ Becomes(e)
         \/ e.y > 0 /\ ~HasEnd(e.lines, e.y) /\ Lost
         \/ e.y > 0 /\ HasEnd(e.lines, e.y) /\ Becomes(n)
  BY <1>1, <1>2, <1>3, <1>4 DEF BackspaceAtStart
<1>6. /\ presses \in 0 .. MaxPresses /\ presses + 1 \in 0 .. MaxPresses /\ presses <= presses + 1
      /\ EditorFits(e, presses) /\ EditorFits(e, presses + 1) /\ e.mode = "INSERT"
      /\ careful => OnLine(e)
      /\ careful => e.offset = 0
  BY <1>5, PressFacts
<1>7. /\ e \in Editor /\ e.x \in Nat /\ e.x <= Room(presses) /\ e.y \in Nat /\ e.offset \in Nat
      /\ y_pos(e) = e.y + e.offset
      /\ e.lines \in [Slot -> Line] /\ HasEnd(e.lines, 0)
      /\ Room(presses) \in Nat /\ Room(presses + 1) = Room(presses) + 1
  BY <1>6, EditorFacts, Bounds
<1>8. careful => y_pos(e) = e.y
  BY <1>6, <1>7
<1>9. CASE Becomes(e)
  BY <1>5, <1>6, <1>9, BecomesKeeps
<1>10. CASE e.y > 0 /\ ~HasEnd(e.lines, e.y) /\ Lost
  BY <1>5, <1>6, <1>8, <1>10, EndBelow, LostKeeps
<1>11. ASSUME e.y > 0, HasEnd(e.lines, e.y), Becomes(n) PROVE IInv'
  <2>1. PICK d : d = delete_line(e.lines, e.y)
    OBVIOUS
  <2>2. w = Having(e, e.x, e.y, d)
    BY <1>1, <1>7, <2>1 DEF Editor, Having
  <2>3. e.y <= e.y
    BY <1>7
  <2>4. /\ EditorFits(w, presses) /\ w.x = e.x /\ w.y = e.y /\ w.offset = e.offset
        /\ w.lines = d /\ w.mode = e.mode
    BY <1>6, <1>7, <1>11, <2>1, <2>2, <2>3, WithoutFacts
  <2>5. /\ EditorFits(u, presses) /\ u.lines = w.lines /\ u.mode = w.mode
        /\ u.y = w.y - 1 /\ u.offset = w.offset
    BY <1>2, <1>6, <1>11, <2>4, PrevFacts
  <2>6. /\ EditorFits(up, presses)
        /\ up.y = u.y /\ up.offset = u.offset /\ up.lines = u.lines /\ up.mode = u.mode
        /\ up.x = AtLeast0(Current(u).length - 1) /\ Current(up) = Current(u)
    BY <1>3, <1>6, <2>5, EolFacts
  <2>7. /\ up \in Editor /\ up.x \in Nat /\ up.x <= Room(presses)
        /\ Current(up).length \in Int
    BY <1>6, <2>6, EditorFacts
  <2>8. PICK x, q : /\ x = IF Current(up).length # 0 THEN up.x + 1 ELSE up.x
                    /\ q = presses + 1
    OBVIOUS
  <2>9. x \in Nat /\ x <= Room(q)
    BY <1>7, <2>7, <2>8
  <2>10. n = InMode(At(up, x, up.y, up.offset), "INSERT")
    BY <1>4, <1>6, <2>4, <2>5, <2>6, <2>7, <2>8 DEF Editor, At, InMode
  <2>11. /\ EditorFits(n, q)
         /\ n.x = x /\ n.y = up.y /\ n.offset = up.offset /\ n.lines = up.lines
         /\ n.mode = "INSERT"
    BY <1>6, <2>6, <2>8, <2>9, <2>10, AlongFacts
  <2>12. ASSUME careful PROVE OnLine(n)
    <3>1. /\ e.offset = 0 /\ e.y < num_lines(e.lines) /\ AllClean(e.lines)
      BY <1>6, <1>8, <2>12 DEF OnLine
    <3>2. num_lines(d) = num_lines(e.lines) - 1 /\ AllClean(d)
      BY <1>7, <1>11, <2>1, <3>1, DeleteClean
    <3>3. n.lines = d /\ y_pos(n) = e.y - 1
      BY <1>7, <2>4, <2>5, <2>6, <2>11, <3>1 DEF y_pos
    <3>4. num_lines(e.lines) \in Nat
      BY <1>7, NumFacts
    <3>5. y_pos(n) < num_lines(n.lines)
      BY <1>7, <3>1, <3>2, <3>3, <3>4
    <3>6. Current(n) = Current(up)
      BY <2>11 DEF Current, y_pos
    <3>7. Current(up).length \in Nat
      <4>1. e.y - 1 \in Nat /\ HasEnd(d, 0)
        BY <1>6, <1>7, <1>11, <2>4, EditorFacts
      <4>2. d[e.y - 1].length # -1
        BY <3>3, <3>5, <4>1, NumFacts
      <4>3. Current(up).length # -1
        BY <3>3, <3>6, <4>2 DEF Current
      <4>4. -1 <= Current(up).length
        BY <1>6, <2>6, EditorFacts
      <4> QED
        BY <2>7, <4>3, <4>4
    <3>8. n.x <= AtLeast0(Current(n).length - 0)
      BY <2>6, <2>8, <2>11, <3>6, <3>7 DEF AtLeast0
    <3> QED
      BY <2>11, <3>2, <3>3, <3>5, <3>8 DEF OnLine
  <2> QED
    BY <1>5, <1>11, <2>8, <2>11, <2>12, BecomesKeeps
<1> QED
  BY <1>5, <1>9, <1>10, <1>11

\* Any other key
LEMMA TypeKeeps ==
  ASSUME IInv, NEW c \in Char, Type(c)
  PROVE  IInv'
<1> DEFINE typed == [text |-> [shiftright(e.lines[e.y].text, e.x) EXCEPT ![e.x] = c],
                     length |-> e.lines[e.y].length + 1]
<1>1. PICK n : n = [e EXCEPT !.lines[e.y] = typed, !.x = @ + 1]
  OBVIOUS
<1>2. /\ Press("INSERT")
      /\ \/ e.lines[e.y].text = NoText /\ Lost
         \/ e.lines[e.y].text # NoText /\ Becomes(n)
  BY <1>1 DEF Type
<1>3. /\ presses \in 0 .. MaxPresses /\ presses + 1 \in 0 .. MaxPresses /\ presses <= presses + 1
      /\ EditorFits(e, presses) /\ e.mode = "INSERT"
      /\ careful => OnLine(e)
      /\ careful => e.offset = 0
      /\ careful => Current(e).text # NoText
  BY <1>2, PressFacts
<1>4. /\ e \in Editor /\ e.x \in Nat /\ e.x <= Room(presses) /\ e.y \in Nat /\ e.offset \in Nat
      /\ e.y + e.offset <= Rows(presses) /\ y_pos(e) = e.y + e.offset /\ e.y \in Slot
      /\ e.lines \in [Slot -> Line] /\ HasEnd(e.lines, 0)
      /\ ArrayFits(e.lines, Rows(presses), Room(presses)) /\ Current(e) = e.lines[y_pos(e)]
      /\ Room(presses) \in Nat /\ Room(presses + 1) = Room(presses) + 1
      /\ Room(presses) + 1 \in Column
      /\ Rows(presses) \in Nat /\ Rows(presses + 1) = Rows(presses) + 1
  BY <1>3, EditorFacts, Bounds
<1>5. careful => y_pos(e) = e.y
  BY <1>3, <1>4
<1>6. CASE e.lines[e.y].text = NoText /\ Lost
  BY <1>2, <1>3, <1>4, <1>5, <1>6, LostKeeps
<1>7. ASSUME e.lines[e.y].text # NoText, Becomes(n) PROVE IInv'
  <2>1. PICK l, w, x, r, ls, i : /\ l = e.lines[e.y] /\ w = Room(presses) /\ x = e.x
                                 /\ r = Rows(presses) /\ ls = e.lines /\ i = e.y
    OBVIOUS
  <2>2. PICK t : t = [shiftright(l.text, x) EXCEPT ![x] = c]
    OBVIOUS
  <2>3. PICK m : m = [text |-> t, length |-> l.length + 1]
    OBVIOUS
  <2>4. LineFits(l, w)
    BY <1>4, <2>1 DEF ArrayFits
  <2>5. /\ LineFits(m, w + 1) /\ m \in Line /\ m.text # NoText
        /\ \E g \in Nat : OneMore(l, m, g)
        /\ x <= l.length /\ Clean(l) => Clean(m)
    BY <1>4, <1>7, <2>1, <2>2, <2>3, <2>4, TypeFacts, SMTT(30)
  <2>6. PICK d : d = SetLine(ls, i, m)
    OBVIOUS
  <2>7. ArrayFits(d, r + 1, w + 1) /\ num_lines(d) = num_lines(ls)
    <3>1. PICK g : OneMore(ls[i], m, g)
      BY <2>1, <2>5
    <3>2. /\ r \in Nat /\ w \in Nat /\ w + 1 \in Column /\ ArrayFits(ls, r, w)
          /\ i \in Slot /\ m \in Line /\ LineFits(m, w + 1) /\ m.text # NoText
          /\ OneMore(ls[i], m, g) /\ d = SetLine(ls, i, m)
      BY <1>4, <2>1, <2>5, <2>6, <3>1
    <3> QED
      BY ONLY <3>2, SetMore
  <2>8. n = Having(e, x + 1, e.y, d)
    <3>1. typed = m
      BY <2>1, <2>2, <2>3
    <3> HIDE DEF typed
    <3>2. n = [e EXCEPT !.lines[e.y] = m, !.x = @ + 1]
      BY <1>1, <3>1
    <3> QED
      BY <1>4, <2>1, <2>6, <3>2 DEF Having, SetLine, Editor
  <2>9. /\ EditorFits(n, presses + 1)
        /\ n.x = x + 1 /\ n.y = e.y /\ n.offset = e.offset /\ n.lines = d /\ n.mode = e.mode
        /\ y_pos(n) = e.y + e.offset
    <3>1. /\ x + 1 \in Nat /\ x + 1 <= Room(presses + 1) /\ e.y + e.offset <= Rows(presses + 1)
      BY <1>4, <2>1
    <3>2. ArrayFits(d, Rows(presses + 1), Room(presses + 1))
      BY <1>4, <2>1, <2>7
    <3> QED
      BY <1>3, <1>4, <2>8, <3>1, <3>2, HavingFacts
  <2>10. ASSUME careful PROVE OnLine(n)
    <3>1. /\ e.offset = 0 /\ y_pos(e) = e.y /\ y_pos(e) < num_lines(e.lines)
          /\ AllClean(e.lines) /\ x <= AtLeast0(l.length - 0)
      BY <1>3, <1>4, <1>5, <2>1, <2>10 DEF OnLine
    <3>2. l.length \in Nat
      BY <1>7, <2>1, <2>4 DEF LineFits
    <3>3. x <= l.length /\ x \in Nat
      BY <1>4, <2>1, <3>1, <3>2 DEF AtLeast0
    <3>4. Clean(l)
      BY <1>4, <2>1, <3>1 DEF AllClean
    <3>5. Clean(m)
      BY <2>5, <3>3, <3>4
    <3>6. AllClean(d)
      BY <1>4, <2>1, <2>6, <2>7, <3>1, <3>5, SetClean
    <3>7. d[i] = m
      BY <1>4, <2>1, <2>6 DEF SetLine
    <3>8. Current(n) = m /\ m.length = l.length + 1
      BY <1>4, <2>1, <2>3, <2>9, <3>1, <3>7 DEF Current
    <3>9. n.x <= AtLeast0(Current(n).length - 0)
      BY <2>9, <3>2, <3>3, <3>8 DEF AtLeast0
    <3> QED
      BY <1>3, <1>4, <2>1, <2>7, <2>9, <3>1, <3>6, <3>9 DEF OnLine
  <2> QED
    BY <1>2, <1>7, <2>9, <2>10, BecomesKeeps
<1> QED
  BY <1>2, <1>6, <1>7

-----------------------------------------------------------------------------
(* Writing the file *)

LEMMA Joined ==
  ASSUME NEW C, NEW s \in Seq(C), NEW t \in Seq(C), NEW g, g = s \o t
  PROVE  /\ g \in Seq(C) /\ Len(s) \in Nat /\ Len(t) \in Nat /\ Len(g) = Len(s) + Len(t)
         /\ Len(g) \in Nat
         /\ \A k \in Nat : 1 <= k /\ k <= Len(s) => g[k] = s[k]
         /\ \A k \in Nat : Len(s) < k /\ k <= Len(g) => /\ g[k] = t[k - Len(s)]
                                                        /\ k - Len(s) \in 1 .. Len(t)
<1>1. /\ g \in Seq(C) /\ Len(s) \in Nat /\ Len(t) \in Nat /\ Len(g) = Len(s) + Len(t)
      /\ \A k \in 1 .. Len(s) + Len(t) :
           g[k] = IF k <= Len(s) THEN s[k] ELSE t[k - Len(s)]
  OBVIOUS
<1> QED
  BY <1>1

\* A line as it is written.
LEMMA SavedFacts ==
  ASSUME NEW w \in Nat, w \in Column, NEW l, LineFits(l, w), l.text # NoText
  PROVE  /\ Saved(l) \in Seq(Char) /\ l.length \in Nat /\ l.length <= w
         /\ Len(Saved(l)) = l.length + 1 /\ Saved(l)[l.length + 1] = Newline
         /\ \A k \in Nat : 1 <= k /\ k <= l.length => Saved(l)[k] = l.text[k - 1]
<1>1. /\ l.text \in Text /\ l.length \in Nat /\ l.length <= w /\ l.length <= strlen(l.text)
      /\ \A k \in Nat : k < strlen(l.text) => l.text[k] # Nul
      /\ strlen(l.text) \in Nat
  BY LineFacts
<1>2. ASSUME NEW k \in 1 .. l.length + 1 PROVE Saved(l)[k] \in Char
  <2>1. CASE k <= l.length
    <3>1. k - 1 \in Nat /\ k - 1 <= w /\ k - 1 < strlen(l.text)
      BY <1>1, <2>1
    <3>2. k - 1 \in Column
      BY <3>1, Numbers
    <3>3. l.text[k - 1] \in Char \union {Nul} /\ l.text[k - 1] # Nul
      BY <1>1, <3>1, <3>2 DEF Text
    <3> QED
      BY <2>1, <3>3 DEF Saved
  <2>2. CASE ~(k <= l.length)
    BY <2>2, Characters DEF Saved
  <2> QED
    BY <2>1, <2>2
<1>3. l.length + 1 \in Nat
  BY <1>1
<1>4. Saved(l) = [k \in 1 .. l.length + 1 |-> Saved(l)[k]]
  BY DEF Saved
<1>5. Saved(l) \in Seq(Char) /\ Len(Saved(l)) = l.length + 1
  <2>1. PICK f, n : f = Saved(l) /\ n = l.length + 1
    OBVIOUS
  <2>2. n \in Nat /\ f = [k \in 1 .. n |-> f[k]] /\ \A k \in 1 .. n : f[k] \in Char
    BY <1>2, <1>3, <1>4, <2>1
  <2>3. f \in [1 .. n -> Char]
    BY <2>2
  <2>4. f \in Seq(Char) /\ Len(f) = n
    BY ONLY <2>2, <2>3
  <2> QED
    BY <2>1, <2>4
<1>6. Saved(l)[l.length + 1] = Newline
  BY <1>1 DEF Saved
<1>7. \A k \in Nat : 1 <= k /\ k <= l.length => Saved(l)[k] = l.text[k - 1]
  BY <1>1 DEF Saved
<1> QED
  BY <1>1, <1>5, <1>6, <1>7

\* One line after the other.
LEMMA WrittenExists ==
  ASSUME NEW ls, NEW m \in Nat
  PROVE  \E u : u = [n \in 0 .. m |-> IF n = 0 THEN << >> ELSE u[n - 1] \o Saved(ls[n - 1])]
<1> DEFINE T == {k \in Nat : \E u : u = [n \in 0 .. k |-> IF n = 0 THEN << >>
                                                         ELSE u[n - 1] \o Saved(ls[n - 1])]}
<1>1. 0 \in T
  <2> DEFINE u == [n \in 0 .. 0 |-> << >>]
  <2>1. \A n \in 0 .. 0 : n = 0
    OBVIOUS
  <2>2. u = [n \in 0 .. 0 |-> IF n = 0 THEN << >> ELSE u[n - 1] \o Saved(ls[n - 1])]
    BY <2>1
  <2> QED
    BY <2>2
<1>2. ASSUME NEW k \in Nat, k \in T PROVE k + 1 \in T
  <2>1. PICK u : u = [n \in 0 .. k |-> IF n = 0 THEN << >> ELSE u[n - 1] \o Saved(ls[n - 1])]
    BY <1>2
  <2> DEFINE v == [n \in 0 .. k + 1 |-> IF n = 0 THEN << >> ELSE u[n - 1] \o Saved(ls[n - 1])]
  <2>2. \A n \in 0 .. k + 1 : n # 0 => n - 1 \in 0 .. k /\ n - 1 \in 0 .. k + 1
    OBVIOUS
  <2>3. \A n \in 0 .. k : n \in 0 .. k + 1
    OBVIOUS
  <2>4. \A n \in 0 .. k : v[n] = u[n]
    <3>1. \A n \in 0 .. k : v[n] = IF n = 0 THEN << >> ELSE u[n - 1] \o Saved(ls[n - 1])
      BY <2>3
    <3>2. \A n \in 0 .. k : u[n] = IF n = 0 THEN << >> ELSE u[n - 1] \o Saved(ls[n - 1])
      BY <2>1
    <3> QED
      BY <3>1, <3>2
  <2>5. v = [n \in 0 .. k + 1 |-> IF n = 0 THEN << >> ELSE v[n - 1] \o Saved(ls[n - 1])]
    <3>1. \A n \in 0 .. k + 1 : n # 0 => v[n - 1] \o Saved(ls[n - 1]) = u[n - 1] \o Saved(ls[n - 1])
      BY <2>2, <2>4
    <3> QED
      BY <3>1
  <2> HIDE DEF v
  <2>6. k + 1 \in Nat /\ \E x : x = [n \in 0 .. k + 1 |-> IF n = 0 THEN << >>
                                                      ELSE x[n - 1] \o Saved(ls[n - 1])]
    BY <2>5
  <2> QED
    BY <2>6
<1> HIDE DEF T
<1>3. \A k \in 0 .. m : k \in T
  BY <1>1, <1>2, Upwards
<1>4. m \in T
  BY <1>3
<1> QED
  BY <1>4 DEF T

\* What has been written after each of them.
Upto(ls, m) ==
  CHOOSE u : u = [n \in 0 .. m |-> IF n = 0 THEN << >> ELSE u[n - 1] \o Saved(ls[n - 1])]

LEMMA UptoFacts ==
  ASSUME NEW ls, NEW m \in Nat, NEW u, u = Upto(ls, m)
  PROVE  u[0] = << >> /\ \A k \in Nat : k < m => u[k + 1] = u[k] \o Saved(ls[k])
<1>1. u = [n \in 0 .. m |-> IF n = 0 THEN << >> ELSE u[n - 1] \o Saved(ls[n - 1])]
  BY WrittenExists DEF Upto
<1>2. u[0] = << >>
  BY <1>1
<1>3. ASSUME NEW k \in Nat, k < m PROVE u[k + 1] = u[k] \o Saved(ls[k])
  <2>1. k + 1 \in 0 .. m /\ k + 1 # 0 /\ (k + 1) - 1 = k
    BY <1>3
  <2>2. u[k + 1] = u[(k + 1) - 1] \o Saved(ls[(k + 1) - 1])
    BY <1>1, <2>1
  <2> QED
    BY <2>1, <2>2
<1> QED
  BY <1>2, <1>3

LEMMA WrittenIs ==
  ASSUME NEW ls, NEW m, m = num_lines(ls)
  PROVE  Written(ls) = Upto(ls, m)[m]
BY DEF Written, Upto

\* The file that is written can be read again.
LEMMA WrittenFits ==
  ASSUME NEW p \in 0 .. MaxPresses, NEW ls, ArrayFits(ls, Rows(p), Room(p)),
         NEW f, f = Written(ls)
  PROVE  /\ FileFits(f, p) /\ f \in Seq(Char) /\ f \in Seq(Char \union {Nul}) /\ f # Absent
         /\ Len(f) = 0 \/ f[Len(f)] = Newline
<1>1. PICK r \in Nat, w \in Nat : r = Rows(p) /\ w = Room(p)
  BY Bounds
<1>2. w \in Column
  <2>1. w <= w + 1
    BY <1>1
  <2> QED
    BY <1>1, <2>1, Bounds
<1>3. /\ HasEnd(ls, 0) /\ \A i \in Slot : LineFits(ls[i], w)
      /\ \A i \in 0 .. num_lines(ls) - 1 : ls[i].text # NoText
      /\ Cardinality(Breaks(ls, num_lines(ls))) <= r
  BY <1>1 DEF ArrayFits
<1>4. PICK z \in Nat : z = num_lines(ls)
  BY <1>3, NumFacts
<1>5. PICK u : u = Upto(ls, z)
  OBVIOUS
<1>6. u[0] = << >> /\ \A k \in Nat : k < z => u[k + 1] = u[k] \o Saved(ls[k])
  BY <1>5, UptoFacts, ZenonT(60)
<1>7. f = u[z]
  BY <1>4, <1>5, WrittenIs
<1> DEFINE Embeds(s, n, h) ==
             /\ \A q \in LineEnds(s) : h[q] \in Breaks(ls, n)
             /\ \A q, t \in LineEnds(s) : h[q] = h[t] => q = t
           Windows(s) == \A a, b \in 1 .. Len(s) :
                           (\A q \in a .. b : s[q] # Newline) => b - a + 1 <= w
           T == {n \in Nat : /\ u[n] \in Seq(Char)
                             /\ Len(u[n]) = 0 \/ u[n][Len(u[n])] = Newline
                             /\ Windows(u[n])
                             /\ \E h : Embeds(u[n], n, h)}
<1>8. 0 \in T
  <2>1. << >> \in Seq(Char) /\ Len(<< >>) = 0 /\ LineEnds(<< >>) = {}
    BY DEF LineEnds
  <2>2. Windows(<< >>)
    BY <2>1
  <2>3. Embeds(<< >>, 0, << >>)
    BY <2>1
  <2> HIDE DEF Windows, Embeds
  <2> QED
    BY <1>6, <2>1, <2>2, <2>3
<1>9. ASSUME NEW n \in Nat, n < z, n \in T PROVE n + 1 \in T
  <2>1. PICK s, t, g : s = u[n] /\ t = Saved(ls[n]) /\ g = u[n + 1]
    OBVIOUS
  <2>2. PICK h : Embeds(s, n, h)
    BY <1>9, <2>1
  <2>3. s \in Seq(Char) /\ Windows(s) /\ (Len(s) = 0 \/ s[Len(s)] = Newline)
    BY <1>9, <2>1
  <2>4. LineFits(ls[n], w) /\ ls[n].text # NoText
    <3>1. n \in 0 .. num_lines(ls) - 1
      BY <1>4, <1>9
    <3>2. n \in Slot
      BY <1>3, <1>4, <1>9, NumFacts
    <3> QED
      BY <1>3, <3>1, <3>2
  <2>5. PICK c \in Nat : c = ls[n].length
    BY <1>2, <2>4, SavedFacts
  <2>6. /\ t \in Seq(Char) /\ c <= w /\ Len(t) = c + 1 /\ t[c + 1] = Newline
        /\ \A k \in Nat : 1 <= k /\ k <= c => t[k] = ls[n].text[k - 1]
    BY <1>2, <2>1, <2>4, <2>5, SavedFacts, SMTT(30)
  <2>7. g = s \o t
    BY <1>6, <1>9, <2>1
  <2>8. PICK m \in Nat : m = Len(s)
    BY <2>3
  <2>9. /\ g \in Seq(Char) /\ Len(g) = m + c + 1
        /\ \A k \in Nat : 1 <= k /\ k <= m => g[k] = s[k]
        /\ \A k \in Nat : m < k /\ k <= m + c + 1 => g[k] = t[k - m] /\ k - m \in 1 .. c + 1
    <3>1. /\ g \in Seq(Char) /\ Len(g) = Len(s) + Len(t)
          /\ \A k \in Nat : 1 <= k /\ k <= Len(s) => g[k] = s[k]
          /\ \A k \in Nat : Len(s) < k /\ k <= Len(g) => /\ g[k] = t[k - Len(s)]
                                                         /\ k - Len(s) \in 1 .. Len(t)
      <4>1. s \in Seq(Char) /\ t \in Seq(Char) /\ g = s \o t
        BY <2>3, <2>6, <2>7
      <4> QED
        BY ONLY <4>1, Joined
    <3>2. Len(g) = m + c + 1
      BY <2>6, <2>8, <3>1
    <3> QED
      BY <2>6, <2>8, <3>1, <3>2
  <2>10. g[m + c + 1] = Newline
    <3>1. m + c + 1 \in Nat /\ m < m + c + 1 /\ m + c + 1 <= m + c + 1 /\ (m + c + 1) - m = c + 1
      OBVIOUS
    <3>2. g[m + c + 1] = t[(m + c + 1) - m]
      BY <2>9, <3>1
    <3> QED
      BY <2>6, <3>1, <3>2
  <2> HIDE DEF Embeds
  <2>11. Windows(g)
    <3>1. SUFFICES ASSUME NEW a \in 1 .. Len(g), NEW b \in 1 .. Len(g),
                          \A q \in a .. b : g[q] # Newline
                   PROVE  b - a + 1 <= w
      OBVIOUS
    <3>2. a \in Nat /\ b \in Nat /\ 1 <= a /\ 1 <= b /\ b <= m + c + 1
      BY <2>9
    <3>3. CASE b < a
      BY <3>2, <3>3
    <3>4. CASE a <= b /\ b <= m
      <4>1. a \in 1 .. Len(s) /\ b \in 1 .. Len(s)
        BY <2>8, <3>2, <3>4
      <4>2. \A q \in a .. b : q \in Nat /\ 1 <= q /\ q <= m
        BY <3>2, <3>4
      <4>3. \A q \in a .. b : s[q] # Newline
        BY <2>9, <3>1, <4>2
      <4> QED
        BY <2>3, <4>1, <4>3
    <3>5. CASE a <= m /\ m < b
      <4>1. m \in a .. b /\ 1 <= m /\ m # 0
        BY <3>2, <3>5
      <4>2. g[m] = s[m] /\ s[m] = Newline
        BY <2>3, <2>8, <2>9, <4>1
      <4> QED
        BY <3>1, <4>1, <4>2
    <3>6. CASE m < a /\ a <= b
      <4>1. b # m + c + 1
        <5>1. b \in a .. b
          BY <3>2, <3>6
        <5> QED
          BY <2>10, <3>1, <5>1
      <4>2. m + 1 <= a /\ b <= m + c
        BY <3>2, <3>6, <4>1
      <4>3. b - a + 1 <= c
        BY <3>2, <4>2
      <4>4. b - a + 1 \in Int
        BY <3>2
      <4> QED
        BY <2>6, <4>3, <4>4
    <3> QED
      BY <3>2, <3>3, <3>4, <3>5, <3>6
  <2> HIDE DEF Windows
  <2>12. \E i : Embeds(g, n + 1, i)
    <3> DEFINE i == [q \in LineEnds(g) |-> IF q <= m THEN h[q] ELSE <<n, q - m - 1>>]
    <3>1. /\ \A q \in LineEnds(s) : h[q] \in Breaks(ls, n)
          /\ \A q, v \in LineEnds(s) : h[q] = h[v] => q = v
      BY <2>2 DEF Embeds
    <3>2. /\ DOMAIN g = 1 .. m + c + 1 /\ DOMAIN s = 1 .. m
      BY <2>3, <2>8, <2>9
    <3>3. \A q \in LineEnds(g) : q \in Nat /\ 1 <= q /\ q <= m + c + 1 /\ g[q] = Newline
      BY <3>2 DEF LineEnds
    <3>4. ASSUME NEW q \in LineEnds(g), q <= m PROVE q \in LineEnds(s)
      <4>1. q \in 1 .. m /\ s[q] = Newline
        BY <2>9, <3>3, <3>4
      <4> QED
        BY <3>2, <4>1 DEF LineEnds
    <3>5. /\ \A b \in Breaks(ls, n) : /\ b = <<b[1], b[2]>> /\ b[1] \in Nat /\ b[1] < n
                                      /\ b[2] \in Nat /\ b[2] <= Width
                                      /\ IsBreak(ls[b[1]], b[2])
          /\ \A j, k \in Nat : j < n + 1 /\ k <= Width /\ IsBreak(ls[j], k)
                                 => <<j, k>> \in Breaks(ls, n + 1)
      <4>1. n + 1 \in Nat
        OBVIOUS
      <4> QED
        BY <4>1, BreaksHas
    <3>6. ASSUME NEW b \in Breaks(ls, n) PROVE b \in Breaks(ls, n + 1)
      <4>1. PICK j, k : j = b[1] /\ k = b[2]
        OBVIOUS
      <4>2. b = <<j, k>> /\ j \in Nat /\ j < n /\ k \in Nat /\ k <= Width /\ IsBreak(ls[j], k)
        BY <3>5, <4>1
      <4>3. j < n + 1
        BY <4>2
      <4> QED
        BY <3>5, <4>2, <4>3
    <3>7. ASSUME NEW q \in LineEnds(g), ~(q <= m) PROVE <<n, q - m - 1>> \in Breaks(ls, n + 1)
      <4>1. q \in Nat /\ m < q /\ q <= m + c + 1 /\ g[q] = Newline
        BY <3>3, <3>7
      <4>2. g[q] = t[q - m] /\ q - m - 1 \in Nat /\ q - m - 1 <= c /\ q - m \in Nat
        BY <2>9, <4>1
      <4>3. q - m - 1 <= Width
        <5>1. w < Width
          BY <1>2, Numbers
        <5> QED
          BY <2>6, <4>2, <5>1, Numbers
      <4>4. IsBreak(ls[n], q - m - 1)
        <5>1. CASE q - m - 1 = c
          BY <2>5, <5>1 DEF IsBreak
        <5>2. CASE q - m - 1 # c
          <6>1. q - m - 1 < c /\ 1 <= q - m /\ q - m <= c
            BY <4>2, <5>2
          <6>2. t[q - m] = ls[n].text[q - m - 1]
            BY <2>6, <4>2, <6>1
          <6> QED
            BY <2>5, <4>1, <4>2, <6>1, <6>2 DEF IsBreak
        <5> QED
          BY <5>1, <5>2
      <4>5. n < n + 1
        OBVIOUS
      <4> QED
        BY <3>5, <4>2, <4>3, <4>4, <4>5
    <3>8. \A q \in LineEnds(g) : i[q] \in Breaks(ls, n + 1)
      BY <3>1, <3>4, <3>6, <3>7
    <3>9. ASSUME NEW q \in LineEnds(g), NEW v \in LineEnds(g), i[q] = i[v] PROVE q = v
      <4>1. q \in Nat /\ v \in Nat
        BY <3>3
      <4>2. CASE q <= m /\ v <= m
        BY <3>1, <3>4, <3>9, <4>2
      <4>3. CASE ~(q <= m) /\ ~(v <= m)
        <5>1. <<n, q - m - 1>> = <<n, v - m - 1>>
          BY <3>9, <4>3
        <5>2. q - m - 1 = v - m - 1
          BY <5>1
        <5> QED
          BY <4>1, <5>2
      <4>4. CASE q <= m /\ ~(v <= m)
        <5>1. h[q] = <<n, v - m - 1>> /\ h[q] \in Breaks(ls, n)
          BY <3>1, <3>4, <3>9, <4>4
        <5>2. h[q][1] = n /\ h[q][1] < n
          BY <3>5, <5>1
        <5> QED
          BY <5>2
      <4>5. CASE ~(q <= m) /\ v <= m
        <5>1. h[v] = <<n, q - m - 1>> /\ h[v] \in Breaks(ls, n)
          BY <3>1, <3>4, <3>9, <4>5
        <5>2. h[v][1] = n /\ h[v][1] < n
          BY <3>5, <5>1
        <5> QED
          BY <5>2
      <4> QED
        BY <4>2, <4>3, <4>4, <4>5
    <3> HIDE DEF i
    <3> QED
      BY <3>8, <3>9 DEF Embeds
  <2> QED
    BY <2>1, <2>9, <2>10, <2>11, <2>12
<1> HIDE DEF T
<1>10. \A n \in 0 .. z : n \in T
  BY <1>8, <1>9, Upwards
<1>11. z \in T
  BY <1>10
<1>12. /\ f \in Seq(Char) /\ (Len(f) = 0 \/ f[Len(f)] = Newline) /\ Windows(f)
  BY <1>7, <1>11 DEF T
<1>13. Cardinality(LineEnds(f)) <= r
  <2>1. PICK h : /\ \A q \in LineEnds(f) : h[q] \in Breaks(ls, z)
                 /\ \A q, t \in LineEnds(f) : h[q] = h[t] => q = t
    BY <1>7, <1>11 DEF T
  <2>2. IsFiniteSet(Breaks(ls, z)) /\ Cardinality(Breaks(ls, z)) \in Nat
    BY BreaksFinite
  <2>3. /\ Cardinality(LineEnds(f)) <= Cardinality(Breaks(ls, z))
        /\ Cardinality(LineEnds(f)) \in Nat
    BY <2>1, <2>2, Embedded
  <2> QED
    BY <1>3, <1>4, <2>2, <2>3
<1>14. f \in Seq(Char \union {Nul})
  BY <1>12
<1>15. f # Absent
  BY <1>14, BoundsAssumption
<1>16. FileFits(f, p)
  BY <1>1, <1>12, <1>13 DEF FileFits
<1> QED
  BY <1>12, <1>14, <1>15, <1>16

-----------------------------------------------------------------------------
(* Reading the file *)

\* The n-th of a set of positions.
LEMMA NthFacts ==
  ASSUME NEW m \in Nat, NEW S \in SUBSET (1 .. m), NEW K, K = Cardinality(S)
  PROVE  /\ K \in Nat
         /\ \A n \in 1 .. K : Nth(S, n) \in S /\ Nth(S, n) \in Nat
         /\ \A n \in 1 .. K : \A q \in S : q < Nth(S, n) => n # 1
         /\ \A q \in S : K # 0 => ~(Nth(S, K) < q)
         /\ \A n \in 1 .. K : n + 1 \in 1 .. K =>
              /\ Nth(S, n) < Nth(S, n + 1)
              /\ \A q \in S : ~(Nth(S, n) < q /\ q < Nth(S, n + 1))
<1>1. /\ K \in Nat
      /\ \A p \in S : Rank(S, p) \in 1 .. K
      /\ \A p, r \in S : r < p => Rank(S, r) < Rank(S, p)
      /\ \A n \in 1 .. K : \E p \in S : Rank(S, p) = n
  BY Ranks
<1>2. ASSUME NEW n \in 1 .. K PROVE Nth(S, n) \in S /\ Rank(S, Nth(S, n)) = n
  <2>1. Nth(S, n) = CHOOSE p \in S : Rank(S, p) = n
    BY DEF Nth, Rank
  <2> QED
    BY <1>1, <2>1
<1>3. \A p \in S : p \in Nat
  OBVIOUS
<1>4. \A n \in 1 .. K : Nth(S, n) \in Nat
  BY <1>2, <1>3
<1>5. ASSUME NEW n \in 1 .. K, NEW q \in S, q < Nth(S, n) PROVE n # 1
  <2>1. Rank(S, q) < n /\ Rank(S, q) \in 1 .. K
    BY <1>1, <1>2, <1>5
  <2> QED
    BY <1>1, <2>1
<1>6. ASSUME NEW q \in S, K # 0, Nth(S, K) < q PROVE FALSE
  <2>1. K \in 1 .. K
    BY <1>1, <1>6
  <2>2. K < Rank(S, q) /\ Rank(S, q) \in 1 .. K
    BY <1>1, <1>2, <1>6, <2>1
  <2> QED
    BY <1>1, <2>2
<1>7. ASSUME NEW n \in 1 .. K, n + 1 \in 1 .. K
      PROVE  /\ Nth(S, n) < Nth(S, n + 1)
             /\ \A q \in S : ~(Nth(S, n) < q /\ q < Nth(S, n + 1))
  <2>1. /\ Nth(S, n) \in S /\ Rank(S, Nth(S, n)) = n
        /\ Nth(S, n + 1) \in S /\ Rank(S, Nth(S, n + 1)) = n + 1
    BY <1>2, <1>7
  <2>2. Nth(S, n) # Nth(S, n + 1)
    BY <1>1, <2>1
  <2>3. ~(Nth(S, n + 1) < Nth(S, n))
    <3>1. SUFFICES ASSUME Nth(S, n + 1) < Nth(S, n) PROVE FALSE
      OBVIOUS
    <3>2. n + 1 < n
      BY <1>1, <2>1, <3>1
    <3> QED
      BY <1>1, <3>2
  <2>4. ASSUME NEW q \in S, Nth(S, n) < q, q < Nth(S, n + 1) PROVE FALSE
    <3>1. n < Rank(S, q) /\ Rank(S, q) < n + 1 /\ Rank(S, q) \in 1 .. K
      BY <1>1, <2>1, <2>4
    <3> QED
      BY <1>1, <3>1
  <2> QED
    BY <1>4, <1>7, <2>2, <2>3, <2>4
<1> QED
  BY <1>1, <1>2, <1>4, <1>5, <1>6, <1>7

LEMMA LineEndsFacts ==
  ASSUME NEW f \in Seq(Char \union {Nul})
  PROVE  /\ Len(f) \in Nat /\ DOMAIN f = 1 .. Len(f)
         /\ LineEnds(f) \in SUBSET (1 .. Len(f)) /\ Cardinality(LineEnds(f)) \in Nat
         /\ \A p \in 1 .. Len(f) : p \in LineEnds(f) <=> f[p] = Newline
<1>1. Len(f) \in Nat /\ DOMAIN f = 1 .. Len(f)
  OBVIOUS
<1>2. /\ LineEnds(f) \in SUBSET (1 .. Len(f))
      /\ \A p \in 1 .. Len(f) : p \in LineEnds(f) <=> f[p] = Newline
  BY <1>1 DEF LineEnds
<1> QED
  BY <1>1, <1>2, Ranks

\* Where the n-th line starts.
StartOf(f, n) == IF n = 1 THEN 1 ELSE Nth(LineEnds(f), n - 1) + 1

\* A line lies in the file, and no line ends in it.
LEMMA StartFacts ==
  ASSUME NEW f \in Seq(Char \union {Nul}), NEW n \in 1 .. Cardinality(LineEnds(f)),
         NEW from, from = StartOf(f, n), NEW to, to = Nth(LineEnds(f), n)
  PROVE  /\ from \in Nat /\ from >= 1 /\ to \in Nat /\ from <= to /\ to <= Len(f)
         /\ f[to] = Newline
         /\ \A q \in from .. to - 1 : q \in 1 .. Len(f) /\ f[q] # Newline
<1>1. PICK S, K : S = LineEnds(f) /\ K = Cardinality(S)
  OBVIOUS
<1>2. PICK m \in Nat : m = Len(f)
  BY LineEndsFacts
<1>3. /\ S \in SUBSET (1 .. m) /\ \A p \in 1 .. m : p \in S <=> f[p] = Newline
  BY <1>1, <1>2, LineEndsFacts
<1>4. /\ K \in Nat
      /\ \A k \in 1 .. K : Nth(S, k) \in S /\ Nth(S, k) \in Nat
      /\ \A k \in 1 .. K : \A q \in S : q < Nth(S, k) => k # 1
      /\ \A k \in 1 .. K : k + 1 \in 1 .. K =>
           /\ Nth(S, k) < Nth(S, k + 1)
           /\ \A q \in S : ~(Nth(S, k) < q /\ q < Nth(S, k + 1))
  <2>1. S \in SUBSET (1 .. m) /\ K = Cardinality(S) /\ m \in Nat
    BY <1>1, <1>3
  <2> QED
    BY ONLY <2>1, NthFacts
<1>5. n \in 1 .. K /\ n \in Nat
  BY <1>1, <1>4
<1>6. to \in S /\ to \in Nat /\ to >= 1 /\ to <= m /\ f[to] = Newline /\ to = Nth(S, n)
  BY <1>1, <1>3, <1>4, <1>5
<1>7. from \in Nat /\ from >= 1 /\ from <= to /\ \A q \in S : ~(from <= q /\ q < to)
  <2>1. CASE n = 1
    <3>1. from = 1
      BY <2>1 DEF StartOf
    <3>2. \A q \in S : ~(q < to)
      BY <1>4, <1>5, <1>6, <2>1
    <3> QED
      BY <1>6, <3>1, <3>2
  <2>2. CASE n # 1
    <3>1. PICK k \in 1 .. K : k = n - 1 /\ k + 1 = n
      BY <1>4, <1>5, <2>2
    <3>2. /\ Nth(S, k) < to /\ \A q \in S : ~(Nth(S, k) < q /\ q < to)
      BY <1>4, <1>5, <1>6, <3>1
    <3>3. from = Nth(S, k) + 1
      BY <1>1, <2>2, <3>1 DEF StartOf
    <3>4. Nth(S, k) \in Nat
      BY <1>4
    <3>5. \A q \in S : q \in Nat /\ (from <= q => Nth(S, k) < q)
      BY <1>3, <3>3, <3>4
    <3> QED
      BY <1>6, <3>2, <3>3, <3>4, <3>5
  <2> QED
    BY <2>1, <2>2
<1>8. ASSUME NEW q \in from .. to - 1 PROVE q \in 1 .. m /\ f[q] # Newline
  <2>1. q \in Nat /\ from <= q /\ q < to
    BY <1>6, <1>7
  <2>2. q \in 1 .. m
    BY <1>6, <1>7, <2>1
  <2> QED
    BY <1>3, <1>7, <2>1, <2>2
<1> QED
  BY <1>2, <1>6, <1>7, <1>8

\* What is kept of a line, with all its characters if none of them is a zero.
LEMMA ReadFacts ==
  ASSUME NEW f \in Seq(Char \union {Nul}), NEW n \in 1 .. Cardinality(LineEnds(f)),
         NEW from, from = StartOf(f, n), NEW to, to = Nth(LineEnds(f), n),
         NEW s, s = Read(f, n)
  PROVE  /\ s \in Seq(Char) /\ Len(s) \in Nat /\ Len(s) <= to - from
         /\ \A k \in 1 .. Len(s) : s[k] \in Char /\ s[k] # Newline
         /\ (\A q \in 1 .. Len(f) : f[q] # Nul) =>
              /\ Len(s) = to - from
              /\ \A k \in Nat : 1 <= k /\ k <= to - from => s[k] = f[from + k - 1]
<1>1. /\ from \in Nat /\ from >= 1 /\ to \in Nat /\ from <= to /\ to <= Len(f)
      /\ \A q \in from .. to - 1 : q \in 1 .. Len(f) /\ f[q] # Newline
  BY StartFacts
<1>2. Len(f) \in Nat /\ \A q \in 1 .. Len(f) : f[q] \in Char \union {Nul}
  OBVIOUS
<1>3. PICK kept : kept = {p \in from .. to - 1 : f[p] # Nul}
  OBVIOUS
<1>4. PICK m : m = Cardinality(kept)
  OBVIOUS
<1>5. s = [k \in 1 .. m |-> f[Nth(kept, k)]]
  BY <1>3, <1>4 DEF Read, StartOf
<1>6. kept \in SUBSET (1 .. Len(f)) /\ kept \in SUBSET (from .. to - 1)
  BY <1>1, <1>3
<1>7. m \in Nat /\ \A k \in 1 .. m : Nth(kept, k) \in kept
  BY <1>2, <1>4, <1>6, NthFacts
<1>8. ASSUME NEW k \in 1 .. m PROVE s[k] \in Char /\ s[k] # Newline
  <2>1. PICK q : q = Nth(kept, k)
    OBVIOUS
  <2>2. q \in from .. to - 1 /\ f[q] # Nul
    BY <1>3, <1>7, <2>1
  <2>3. f[q] \in Char /\ f[q] # Newline
    BY <1>1, <1>2, <2>2
  <2> QED
    BY <1>5, <2>1, <2>3
<1>9. s \in Seq(Char) /\ Len(s) = m
  <2>1. s \in [1 .. m -> Char]
    BY <1>5, <1>8
  <2> QED
    BY ONLY <1>7, <2>1
<1>10. from \in Int /\ to - 1 \in Int /\ IsFiniteSet(from .. to - 1)
       /\ Cardinality(from .. to - 1) = to - from
  <2>1. from \in Int /\ to - 1 \in Int
    BY <1>1
  <2>2. /\ IsFiniteSet(from .. to - 1)
        /\ Cardinality(from .. to - 1) = IF from > to - 1 THEN 0 ELSE (to - 1) - from + 1
    BY <2>1, FS_Interval
  <2> QED
    BY <1>1, <2>1, <2>2
<1>11. m <= to - from
  <2>1. PICK I : I = from .. to - 1
    OBVIOUS
  <2>2. kept \in SUBSET I /\ IsFiniteSet(I) /\ Cardinality(I) = to - from
    BY <1>6, <1>10, <2>1
  <2>3. Cardinality(kept) <= Cardinality(I)
    BY ONLY <2>2, FS_Subset
  <2> QED
    BY <1>4, <2>2, <2>3
<1>12. ASSUME \A q \in 1 .. Len(f) : f[q] # Nul
       PROVE  /\ m = to - from
              /\ \A k \in Nat : 1 <= k /\ k <= to - from => s[k] = f[from + k - 1]
  <2>1. kept = from .. to - 1
    BY <1>1, <1>3, <1>12
  <2>2. m = to - from
    BY <1>4, <1>10, <2>1
  <2>3. ASSUME NEW k \in 1 .. m PROVE Nth(kept, k) = from + k - 1
    <3>1. PICK p : p = from + k - 1
      OBVIOUS
    <3>2. p \in from .. to - 1 /\ p \in Int
      BY <1>1, <1>7, <2>2, <3>1, SMTT(30)
    <3>3. \A q \in kept : Cardinality({i \in kept : i <= q}) = q - from + 1
      <4>1. SUFFICES ASSUME NEW q \in from .. to - 1
                     PROVE  Cardinality({i \in from .. to - 1 : i <= q}) = q - from + 1
        BY <2>1
      <4>2. {i \in from .. to - 1 : i <= q} = from .. q
        BY <1>1
      <4>3. from \in Int /\ q \in Int /\ ~(from > q)
        BY <1>1
      <4>4. Cardinality(from .. q) = IF from > q THEN 0 ELSE q - from + 1
        BY <4>3, FS_Interval
      <4> QED
        BY <4>2, <4>3, <4>4
    <3>4. p - from + 1 = k
      BY <1>1, <1>7, <3>1
    <3>5. \A q \in kept : q - from + 1 = k => q = p
      BY <1>1, <1>7, <2>1, <3>1, SMTT(30)
    <3>6. Nth(kept, k) = CHOOSE q \in kept : Cardinality({i \in kept : i <= q}) = k
      BY DEF Nth
    <3>7. p \in kept
      BY <2>1, <3>2
    <3> QED
      BY <3>1, <3>3, <3>4, <3>5, <3>6, <3>7
  <2>4. ASSUME NEW k \in Nat, 1 <= k, k <= to - from PROVE s[k] = f[from + k - 1]
    <3>1. k \in 1 .. m
      BY <1>1, <2>2, <2>4
    <3> QED
      BY <1>5, <2>3, <3>1
  <2> QED
    BY <2>2, <2>4
<1> QED
  BY <1>7, <1>8, <1>9, <1>11, <1>12

\* A string in a block of its own.
LEMMA AllocatedFacts ==
  ASSUME NEW w \in Nat, w \in Column, NEW s \in Seq(Char), Len(s) <= w,
         NEW l, l = [text |-> Allocated(s), length |-> Len(s)]
  PROVE  /\ l \in Line /\ LineFits(l, w) /\ l.text # NoText /\ Clean(l)
         /\ l.length = Len(s) /\ l.length \in Nat
         /\ \A k \in Nat : k < Len(s) => l.text[k] = s[k + 1]
<1>1. Len(s) \in Nat /\ \A k \in 1 .. Len(s) : s[k] \in Char
  OBVIOUS
<1>2. \A k \in Column : k \in Nat /\ (k < Len(s) => k + 1 \in 1 .. Len(s))
  BY <1>1, Numbers
<1>3. /\ l.length = Len(s) /\ l.text = Allocated(s)
      /\ \A k \in Column : l.text[k] = IF k < Len(s) THEN s[k + 1] ELSE Nul
  BY DEF Allocated
<1>4. l.text \in Text
  <2>1. \A k \in Column : (IF k < Len(s) THEN s[k + 1] ELSE Nul) \in Char \union {Nul}
    BY <1>1, <1>2
  <2> QED
    BY <1>3, <2>1 DEF Allocated, Text
<1>5. l.text # NoText
  BY <1>4, Characters
<1>6. \A k \in Nat : k < Len(s) => k \in Column
  <2>1. \A k \in Nat : k < Len(s) => k <= w
    BY <1>1
  <2> QED
    BY <2>1, Numbers
<1>7. \A k \in Nat : k < Len(s) => l.text[k] = s[k + 1]
  BY <1>3, <1>6
<1>8. \A k \in Nat : k < Len(s) => l.text[k] # Nul
  BY <1>1, <1>2, <1>6, <1>7, Characters
<1>9. \A k \in Column : Len(s) <= k => l.text[k] = Nul
  BY <1>1, <1>2, <1>3
<1>10. \A k \in Column : w <= k => l.text[k] = Nul
  <2>1. \A k \in Column : w <= k => Len(s) <= k
    BY <1>1, <1>2
  <2> QED
    BY <1>9, <2>1
<1>11. l.length \in 0 .. w /\ \A k \in 0 .. l.length - 1 : k \in Nat /\ k < Len(s)
  BY <1>1, <1>3
<1>12. LineFits(l, w)
  BY <1>4, <1>8, <1>10, <1>11 DEF LineFits
<1>13. l \in Line
  <2>1. Len(s) \in -1 .. Width
    BY <1>1, Numbers
  <2>2. l.text \in Text \union {NoText}
    BY <1>4
  <2>3. l = [text |-> Allocated(s), length |-> Len(s)] /\ Allocated(s) \in Text \union {NoText}
    BY <1>3, <2>2
  <2> QED
    BY <2>1, <2>3 DEF Line
<1> QED
  BY <1>1, <1>3, <1>5, <1>7, <1>9, <1>12, <1>13 DEF Clean

\* What lies behind the lines.
LEMMA BlankFacts ==
  /\ EndMark \in Line /\ UnusedSlot \in Line /\ EndMark.length = -1 /\ UnusedSlot.length = 0
  /\ \A w : LineFits(EndMark, w) /\ LineFits(UnusedSlot, w)
<1>1. 0 \in -1 .. Width /\ -1 \in -1 .. Width
  BY Numbers
<1> QED
  BY <1>1 DEF EndMark, UnusedSlot, Line, LineFits

\* The array a file is read into.
LEMMA LoadFacts ==
  ASSUME NEW f \in Seq(Char \union {Nul}), NEW K, K = Cardinality(LineEnds(f)), K \in Slot,
         NEW w \in Nat, w \in Column,
         \A n \in 1 .. K : Len(Read(f, n)) <= w,
         NEW ls, ls = load_file(f)
  PROVE  /\ ls \in [Slot -> Line] /\ \A i \in Slot : LineFits(ls[i], w)
         /\ \A i \in Nat : i < K => /\ ls[i].text # NoText /\ Clean(ls[i])
                                   /\ ls[i].length = Len(Read(f, i + 1))
                                   /\ ls[i].length \in Nat
                                   /\ \A k \in Nat : k < ls[i].length
                                                       => ls[i].text[k] = Read(f, i + 1)[k + 1]
         /\ ls[K].length = -1 /\ \A i \in Slot : ls[i].length = -1 => i = K
         /\ HasEnd(ls, 0) /\ num_lines(ls) = K
<1>1. /\ K \in Nat /\ \A i \in Slot : i \in Nat
      /\ \A i \in Nat : i < K => i \in Slot /\ i + 1 \in 1 .. K
  <2>1. K \in Nat /\ \A i \in Nat : i < K => i <= K /\ i + 1 \in 1 .. K
    BY Numbers
  <2> QED
    BY <2>1, Numbers
<1>2. ls = [i \in Slot |->
              IF i < K
                THEN [text |-> Allocated(Read(f, i + 1)), length |-> Len(Read(f, i + 1))]
              ELSE IF i = K THEN EndMark ELSE UnusedSlot]
  BY DEF load_file
<1>3. ASSUME NEW i \in Slot, i < K
      PROVE  /\ ls[i] \in Line /\ LineFits(ls[i], w) /\ ls[i].text # NoText /\ Clean(ls[i])
             /\ ls[i].length = Len(Read(f, i + 1)) /\ ls[i].length \in Nat
             /\ \A k \in Nat : k < ls[i].length => ls[i].text[k] = Read(f, i + 1)[k + 1]
  <2>1. PICK s : s = Read(f, i + 1)
    OBVIOUS
  <2>2. PICK l : l = [text |-> Allocated(s), length |-> Len(s)]
    OBVIOUS
  <2>3. ls[i] = l
    BY <1>2, <1>3, <2>1, <2>2
  <2>4. i + 1 \in 1 .. K
    BY <1>1, <1>3
  <2>5. s \in Seq(Char)
    BY <2>1, <2>4, ReadFacts
  <2>6. Len(s) <= w
    BY <2>1, <2>4
  <2>7. /\ l \in Line /\ LineFits(l, w) /\ l.text # NoText /\ Clean(l)
        /\ l.length = Len(s) /\ l.length \in Nat
        /\ \A k \in Nat : k < Len(s) => l.text[k] = s[k + 1]
    BY <2>2, <2>5, <2>6, AllocatedFacts
  <2> QED
    BY <2>1, <2>3, <2>7
<1>4. /\ ls[K] = EndMark /\ \A i \in Slot : ~(i < K) /\ i # K => ls[i] = UnusedSlot
  BY <1>1, <1>2
<1>5. \A i \in Slot : ls[i] \in Line /\ LineFits(ls[i], w) /\ (ls[i].length = -1 => i = K)
  <2>1. SUFFICES ASSUME NEW i \in Slot
                 PROVE  ls[i] \in Line /\ LineFits(ls[i], w) /\ (ls[i].length = -1 => i = K)
    OBVIOUS
  <2>2. CASE i < K
    BY <1>3, <2>2
  <2>3. CASE i = K
    BY <1>4, <2>3, BlankFacts
  <2>4. CASE ~(i < K) /\ i # K
    BY <1>4, <2>4, BlankFacts
  <2> QED
    BY <2>2, <2>3, <2>4
<1>6. ls \in [Slot -> Line]
  <2>1. DOMAIN ls = Slot /\ ls = [i \in Slot |-> ls[i]]
    BY <1>2
  <2> QED
    BY <1>5, <2>1
<1>7. ls[K].length = -1
  BY <1>4, BlankFacts
<1>8. \A j \in Nat : j < K => ls[j].length # -1
  BY <1>1, <1>3
<1>9. HasEnd(ls, 0) /\ num_lines(ls) = K
  BY <1>7, <1>8, NumIs
<1> QED
  BY <1>1, <1>3, <1>5, <1>6, <1>7, <1>9

\* It is sound, if the file fits.
LEMMA LoadFits ==
  ASSUME NEW p \in 0 .. MaxPresses, NEW f \in Seq(Char \union {Nul}), f # Absent,
         FileFits(f, p), NEW ls, ls = load_file(f)
  PROVE  /\ ArrayFits(ls, Rows(p), Room(p)) /\ AllClean(ls)
         /\ num_lines(ls) = Cardinality(LineEnds(f)) /\ num_lines(ls) \in Slot
         /\ \A n \in 1 .. Cardinality(LineEnds(f)) : Len(Read(f, n)) <= Room(p)
<1>1. PICK r \in Nat, w \in Nat : r = Rows(p) /\ w = Room(p) /\ w + 1 \in Column /\ w \in Column
  <2>1. /\ Rows(p) \in Nat /\ Room(p) \in Nat /\ Room(p) + 1 \in Column
        /\ Room(p) <= Room(p) + 1
    BY Bounds
  <2> QED
    BY <2>1, Numbers
<1>2. PICK K \in Nat : K = Cardinality(LineEnds(f))
  BY LineEndsFacts
<1>3. /\ K <= r
      /\ \A a, b \in 1 .. Len(f) : (\A q \in a .. b : f[q] # Newline) => b - a + 1 <= w
  BY <1>1, <1>2 DEF FileFits
<1>4. K \in Slot
  <2>1. K <= Rows(p) + 1
    BY <1>1, <1>2, <1>3
  <2> QED
    BY <1>2, <2>1, Bounds
<1>5. ASSUME NEW n \in 1 .. K PROVE Len(Read(f, n)) <= w
  <2>1. PICK from, to, s : from = StartOf(f, n) /\ to = Nth(LineEnds(f), n) /\ s = Read(f, n)
    OBVIOUS
  <2>2. /\ from \in Nat /\ from >= 1 /\ to \in Nat /\ from <= to /\ to <= Len(f)
        /\ \A q \in from .. to - 1 : q \in 1 .. Len(f) /\ f[q] # Newline
    BY <1>2, <1>5, <2>1, StartFacts
  <2>3. Len(s) \in Nat /\ Len(s) <= to - from
    BY <1>2, <1>5, <2>1, ReadFacts
  <2>4. to - from <= w
    <3>1. CASE from = to
      BY <2>2, <3>1
    <3>2. CASE from < to
      <4>1. from \in from .. to - 1 /\ to - 1 \in from .. to - 1
        BY <2>2, <3>2
      <4>2. from \in 1 .. Len(f) /\ to - 1 \in 1 .. Len(f)
        BY <2>2, <4>1
      <4>3. (to - 1) - from + 1 <= w
        BY <1>3, <2>2, <4>2
      <4> QED
        BY <2>2, <4>3
    <3> QED
      BY <2>2, <3>1, <3>2
  <2> QED
    BY <2>1, <2>2, <2>3, <2>4
<1>6. /\ ls \in [Slot -> Line] /\ \A i \in Slot : LineFits(ls[i], w)
      /\ \A i \in Nat : i < K => /\ ls[i].text # NoText /\ Clean(ls[i])
                                /\ ls[i].length = Len(Read(f, i + 1))
                                /\ ls[i].length \in Nat
                                /\ \A k \in Nat : k < ls[i].length
                                                    => ls[i].text[k] = Read(f, i + 1)[k + 1]
      /\ \A i \in Slot : ls[i].length = -1 => i = K
      /\ HasEnd(ls, 0) /\ num_lines(ls) = K
  BY <1>1, <1>2, <1>4, <1>5, LoadFacts, SMTT(30)
<1>7. Cardinality(Breaks(ls, K)) <= r
  <2> DEFINE S == Breaks(ls, K)
             h == [b \in S |-> b[1] + 1]
  <2>1. \A b \in S : /\ b = <<b[1], b[2]>> /\ b[1] \in Nat /\ b[1] < K
                     /\ b[2] \in Nat /\ IsBreak(ls[b[1]], b[2])
    BY BreaksHas
  <2> HIDE DEF S
  <2>2. ASSUME NEW b \in S PROVE b[2] = ls[b[1]].length /\ b[1] + 1 \in 1 .. K
    <3>1. PICK i \in Nat, k \in Nat : i = b[1] /\ k = b[2]
      BY <2>1
    <3>2. i < K /\ (k = ls[i].length \/ (k < ls[i].length /\ ls[i].text[k] = Newline))
      BY <2>1, <3>1 DEF IsBreak
    <3>3. i + 1 \in 1 .. K
      BY <1>2, <3>2
    <3>4. \A j \in 1 .. Len(Read(f, i + 1)) : Read(f, i + 1)[j] # Newline
      BY <1>2, <3>3, ReadFacts
    <3>5. ASSUME k < ls[i].length PROVE ls[i].text[k] # Newline
      <4>1. /\ ls[i].length = Len(Read(f, i + 1)) /\ ls[i].length \in Nat
            /\ ls[i].text[k] = Read(f, i + 1)[k + 1]
        BY <1>6, <3>2, <3>5
      <4>2. k + 1 \in 1 .. Len(Read(f, i + 1))
        BY <3>5, <4>1
      <4> QED
        BY <3>4, <4>1, <4>2
    <3> QED
      BY <3>1, <3>2, <3>3, <3>5
  <2>3. \A b \in S : h[b] \in 1 .. K
    BY <2>2
  <2>4. \A b, c \in S : h[b] = h[c] => b = c
    <3>1. SUFFICES ASSUME NEW b \in S, NEW c \in S, h[b] = h[c] PROVE b = c
      OBVIOUS
    <3>2. b[1] + 1 = c[1] + 1
      BY <3>1
    <3>3. b[1] = c[1]
      BY <2>1, <3>2
    <3>4. b[2] = c[2]
      BY <2>2, <3>3
    <3> QED
      BY <2>1, <3>3, <3>4
  <2> HIDE DEF h
  <2>5. IsFiniteSet(1 .. K) /\ Cardinality(1 .. K) = K
    <3>1. 1 \in Int /\ K \in Int
      BY <1>2
    <3>2. IsFiniteSet(1 .. K) /\ Cardinality(1 .. K) = IF 1 > K THEN 0 ELSE K - 1 + 1
      BY <3>1, FS_Interval
    <3> QED
      BY <1>2, <3>2
  <2>6. Cardinality(S) <= Cardinality(1 .. K) /\ Cardinality(S) \in Nat
    BY <2>3, <2>4, <2>5, Embedded
  <2> QED
    BY <1>1, <1>2, <1>3, <2>5, <2>6 DEF S
<1>8. \A i \in 0 .. K - 1 : ls[i].text # NoText
  <2>1. \A i \in 0 .. K - 1 : i \in Nat /\ i < K
    BY <1>2
  <2> QED
    BY <1>6, <2>1
<1>9. ArrayFits(ls, r, w)
  BY <1>3, <1>6, <1>7, <1>8 DEF ArrayFits
<1>10. AllClean(ls)
  BY <1>6 DEF AllClean
<1> QED
  BY <1>1, <1>2, <1>4, <1>5, <1>6, <1>9, <1>10

\* And so is that of a new file.
LEMMA CreateFits ==
  ASSUME NEW p \in 0 .. MaxPresses, NEW ls, ls = create_file
  PROVE  ArrayFits(ls, Rows(p), Room(p)) /\ AllClean(ls)
<1>1. PICK r \in Nat, w \in Nat : r = Rows(p) /\ w = Room(p) /\ 1 <= r /\ w \in Nat
  BY Bounds
<1>2. 0 \in Slot /\ 1 \in Slot
  BY BoundsAssumption DEF Slot
<1>3. ls = [i \in Slot |-> IF i = 0 THEN EmptyLine ELSE IF i = 1 THEN EndMark ELSE UnusedSlot]
  BY DEF create_file
<1>4. ls[0] = EmptyLine /\ ls[1] = EndMark /\ \A i \in Slot : i # 0 /\ i # 1 => ls[i] = UnusedSlot
  BY <1>2, <1>3
<1>5. \A i \in Slot : ls[i] \in Line /\ LineFits(ls[i], w) /\ (ls[i].length = -1 => i = 1)
  BY <1>1, <1>4, BlankFacts, EmptyFits
<1>6. ls \in [Slot -> Line]
  BY <1>3, <1>5
<1>7. HasEnd(ls, 0) /\ num_lines(ls) = 1
  <2>1. ls[1].length = -1 /\ \A j \in Nat : j < 1 => j = 0
    BY <1>4, BlankFacts
  <2>2. \A j \in Nat : j < 1 => ls[j].length # -1
    BY <1>4, <2>1, EmptyFits
  <2> QED
    BY <1>2, <2>1, <2>2, NumIs
<1>8. \A i \in 0 .. 1 - 1 : ls[i].text # NoText
  BY <1>4, EmptyFits
<1>9. Cardinality(Breaks(ls, 1)) <= r
  <2>1. \A b \in Breaks(ls, 1) : /\ b = <<b[1], b[2]>> /\ b[1] \in Nat /\ b[1] < 1
                                 /\ b[2] \in Nat /\ IsBreak(ls[b[1]], b[2])
    BY BreaksHas
  <2>2. \A b \in Breaks(ls, 1) : b[1] = 0
    BY <2>1
  <2>3. \A b \in Breaks(ls, 1) : IsBreak(EmptyLine, b[2])
    BY <1>4, <2>1, <2>2
  <2>4. \A b \in Breaks(ls, 1) : b[2] = 0
    BY <2>1, <2>3, EmptyFits DEF IsBreak
  <2>5. Breaks(ls, 1) \in SUBSET {<<0, 0>>}
    BY <2>1, <2>2, <2>4
  <2>6. IsFiniteSet({<<0, 0>>}) /\ Cardinality({<<0, 0>>}) = 1
    BY FS_Singleton
  <2>7. Cardinality(Breaks(ls, 1)) <= 1 /\ Cardinality(Breaks(ls, 1)) \in Nat
    BY <2>5, <2>6, FS_Subset, FS_CardinalityType
  <2> QED
    BY <1>1, <2>7
<1>10. \A i \in Slot : ls[i].length = -1 => i <= r
  BY <1>1, <1>5
<1>11. ArrayFits(ls, r, w)
  BY <1>5, <1>6, <1>7, <1>8, <1>9, <1>10 DEF ArrayFits
<1>12. AllClean(ls)
  <2>1. \A i \in Nat : i < 1 => ls[i] = EmptyLine
    <3>1. \A i \in Nat : i < 1 => i = 0
      OBVIOUS
    <3> QED
      BY <1>4, <3>1
  <2>2. Clean(EmptyLine)
    BY EmptyFits DEF Clean
  <2> QED
    BY <1>7, <2>1, <2>2 DEF AllClean
<1> QED
  BY <1>1, <1>11, <1>12

\* The editor starts on the first line of either.
LEMMA OpenedFacts ==
  ASSUME NEW p \in 0 .. MaxPresses, NEW f, f = Absent \/ f \in Seq(Char \union {Nul}),
         FileFits(f, p), NEW n, n = Opened(f)
  PROVE  /\ EditorFits(n, p) /\ n.offset = 0 /\ n.y < MaxY
         /\ num_lines(n.lines) > 0 => OnLine(n)
<1>1. PICK ls : ls = IF f = Absent THEN create_file ELSE load_file(f)
  OBVIOUS
<1>2. ArrayFits(ls, Rows(p), Room(p)) /\ AllClean(ls)
  BY <1>1, CreateFits, LoadFits
<1>3. /\ n = [mode |-> "NORMAL", x |-> 0, y |-> 0, offset |-> 0, lines |-> ls]
  BY <1>1 DEF Opened
<1>4. n.mode = "NORMAL" /\ n.x = 0 /\ n.y = 0 /\ n.offset = 0 /\ n.lines = ls
  BY <1>3
<1>5. n \in Editor
  BY <1>2, <1>3, Numbers DEF Editor, ArrayFits
<1>6. 0 <= Room(p) /\ 0 + 0 <= Rows(p)
  BY Bounds
<1>7. EditorFits(n, p)
  BY <1>2, <1>4, <1>5, <1>6 DEF EditorFits
<1>8. y_pos(n) = 0 /\ n.y < MaxY
  BY <1>4, BoundsAssumption DEF y_pos
<1>9. ASSUME num_lines(n.lines) > 0 PROVE OnLine(n)
  <2>1. Current(n).length \in Int /\ num_lines(n.lines) \in Nat
    BY <1>7, EditorFacts, NumFacts
  <2>2. n.x <= AtLeast0(Current(n).length - 1)
    BY <1>4, <2>1 DEF AtLeast0
  <2>3. y_pos(n) < num_lines(n.lines)
    BY <1>8, <1>9, <2>1
  <2> QED
    BY <1>2, <1>4, <2>2, <2>3 DEF OnLine
<1> QED
  BY <1>4, <1>7, <1>8, <1>9

\* What has been written is read back, and written again, as it was.
LEMMA ReadBack ==
  ASSUME NEW p \in 0 .. MaxPresses, NEW f \in Seq(Char), f # Absent, FileFits(f, p),
         Len(f) = 0 \/ f[Len(f)] = Newline
  PROVE  Written(load_file(f)) = f
<1>1. PICK ls, L : ls = load_file(f) /\ L = LineEnds(f)
  OBVIOUS
<1>2. PICK K \in Nat, m \in Nat : K = Cardinality(L) /\ m = Len(f)
  BY <1>1, LineEndsFacts
<1>3. PICK w \in Nat : w = Room(p) /\ w \in Column
  <2>1. Room(p) \in Nat /\ Room(p) + 1 \in Column /\ Room(p) <= Room(p) + 1
    BY Bounds
  <2> QED
    BY <2>1, Numbers
<1>4. f \in Seq(Char \union {Nul}) /\ \A q \in 1 .. Len(f) : f[q] # Nul
  BY Characters
<1>5. /\ num_lines(ls) = K /\ K \in Slot
      /\ \A n \in 1 .. K : Len(Read(f, n)) <= w
  BY <1>1, <1>2, <1>3, <1>4, LoadFits
<1>6. /\ \A i \in Slot : LineFits(ls[i], w)
      /\ \A i \in Nat : i < K => /\ ls[i].text # NoText
                                /\ ls[i].length = Len(Read(f, i + 1))
                                /\ ls[i].length \in Nat
                                /\ \A k \in Nat : k < ls[i].length
                                                    => ls[i].text[k] = Read(f, i + 1)[k + 1]
  BY <1>1, <1>2, <1>3, <1>4, <1>5, LoadFacts, SMTT(30)
<1>7. PICK u : u = Upto(ls, K)
  OBVIOUS
<1>8. u[0] = << >> /\ \A k \in Nat : k < K => u[k + 1] = u[k] \o Saved(ls[k])
  BY <1>7, UptoFacts, ZenonT(60)
<1>9. Written(ls) = u[K]
  BY <1>5, <1>7, WrittenIs
<1> DEFINE E(n) == IF n = 0 THEN 0 ELSE Nth(L, n)
           T == {n \in Nat : /\ u[n] \in Seq(Char) /\ Len(u[n]) = E(n)
                             /\ \A k \in Nat : 1 <= k /\ k <= E(n) => u[n][k] = f[k]}
<1>10. 0 \in T
  <2>1. << >> \in Seq(Char) /\ Len(<< >>) = 0 /\ E(0) = 0
    OBVIOUS
  <2>2. \A k \in Nat : ~(1 <= k /\ k <= 0)
    OBVIOUS
  <2> QED
    BY <1>8, <2>1, <2>2
<1>11. ASSUME NEW n \in Nat, n < K, n \in T PROVE n + 1 \in T
  <2>1. PICK s, l, g, a : s = u[n] /\ l = ls[n] /\ g = u[n + 1] /\ a = E(n)
    OBVIOUS
  <2>2. PICK from, to, r : /\ from = StartOf(f, n + 1) /\ to = Nth(LineEnds(f), n + 1)
                           /\ r = Read(f, n + 1)
    OBVIOUS
  <2>3. n + 1 \in 1 .. Cardinality(LineEnds(f)) /\ n + 1 # 0 /\ (n + 1) - 1 = n /\ n + 1 \in Nat
    BY <1>1, <1>2, <1>11
  <2>4. /\ from \in Nat /\ from >= 1 /\ to \in Nat /\ from <= to /\ to <= Len(f)
        /\ f[to] = Newline
    BY <1>4, <2>2, <2>3, StartFacts
  <2>5. /\ Len(r) = to - from
        /\ \A k \in Nat : 1 <= k /\ k <= to - from => r[k] = f[from + k - 1]
    BY <1>4, <2>2, <2>3, ReadFacts
  <2>6. E(n + 1) = to
    BY <1>1, <2>2, <2>3
  <2>7. /\ s \in Seq(Char) /\ Len(s) = a /\ a \in Nat
        /\ \A k \in Nat : 1 <= k /\ k <= a => s[k] = f[k]
    BY <1>11, <2>1
  <2>8. from = a + 1
    <3>1. CASE n = 0
      BY <2>1, <2>2, <3>1 DEF StartOf
    <3>2. CASE n # 0
      <4>1. n + 1 # 1
        BY <3>2
      <4> QED
        BY <1>1, <2>1, <2>2, <2>3, <3>2, <4>1 DEF StartOf
    <3> QED
      BY <3>1, <3>2
  <2> HIDE DEF E
  <2>9. PICK c \in Nat : c = to - from /\ to = a + c + 1
    BY <2>4, <2>7, <2>8
  <2>10. LineFits(l, w) /\ l.text # NoText /\ l.length = c
         /\ \A k \in Nat : k < c => l.text[k] = r[k + 1]
    <3>1. n \in Slot
      BY <1>5, <1>11, Numbers
    <3> QED
      BY <1>6, <1>11, <2>1, <2>2, <2>5, <2>9, <3>1, SMTT(30)
  <2>11. PICK t : t = Saved(l)
    OBVIOUS
  <2>12. /\ t \in Seq(Char) /\ Len(t) = c + 1 /\ t[c + 1] = Newline
         /\ \A k \in Nat : 1 <= k /\ k <= c => t[k] = l.text[k - 1]
    BY <1>3, <2>10, <2>11, SavedFacts, SMTT(30)
  <2>13. g = s \o t
    BY <1>8, <1>11, <2>1, <2>11
  <2>14. /\ g \in Seq(Char) /\ Len(g) = to
         /\ \A k \in Nat : 1 <= k /\ k <= a => g[k] = s[k]
         /\ \A k \in Nat : a < k /\ k <= to => g[k] = t[k - a]
    <3>1. s \in Seq(Char) /\ t \in Seq(Char) /\ g = s \o t
      BY <2>7, <2>12, <2>13
    <3>2. /\ g \in Seq(Char) /\ Len(g) = Len(s) + Len(t)
          /\ \A k \in Nat : 1 <= k /\ k <= Len(s) => g[k] = s[k]
          /\ \A k \in Nat : Len(s) < k /\ k <= Len(g) => g[k] = t[k - Len(s)]
      BY ONLY <3>1, Joined
    <3>3. Len(g) = to
      <4>1. a \in Nat /\ Len(s) = a /\ Len(t) = c + 1 /\ to = a + c + 1
        BY <2>7, <2>9, <2>12
      <4>2. Len(g) = Len(s) + Len(t)
        BY <3>2
      <4>3. Len(g) = a + (c + 1)
        BY <4>1, <4>2
      <4> QED
        BY <4>1, <4>3
    <3> QED
      BY <2>7, <3>2, <3>3
  <2>15. ASSUME NEW k \in Nat, 1 <= k, k <= to PROVE g[k] = f[k]
    <3>1. CASE k <= a
      BY <2>7, <2>14, <2>15, <3>1
    <3>2. CASE a < k /\ k < to
      <4>1. k - a \in Nat /\ 1 <= k - a /\ k - a <= c /\ k - a - 1 \in Nat /\ k - a - 1 < c
        BY <2>7, <2>9, <3>2
      <4>2. g[k] = t[k - a]
        BY <2>14, <2>15, <3>2
      <4>3. t[k - a] = l.text[k - a - 1]
        BY <2>12, <4>1
      <4>4. (k - a - 1) + 1 = k - a /\ from + (k - a) - 1 = k
        BY <2>7, <2>8, <4>1
      <4>5. l.text[k - a - 1] = r[k - a]
        BY <2>10, <4>1, <4>4
      <4>6. r[k - a] = f[from + (k - a) - 1]
        BY <2>5, <2>9, <4>1
      <4> QED
        BY <4>2, <4>3, <4>4, <4>5, <4>6
    <3>3. CASE k = to
      <4>1. a < k /\ k - a = c + 1
        BY <2>7, <2>9, <3>3
      <4> QED
        BY <2>4, <2>12, <2>14, <2>15, <3>3, <4>1
    <3> QED
      BY <2>4, <2>7, <2>15, <3>1, <3>2, <3>3
  <2> QED
    BY <2>1, <2>3, <2>6, <2>14, <2>15
<1>12. E(K) = m
  <2>1. /\ L \in SUBSET (1 .. m) /\ \A q \in 1 .. m : q \in L <=> f[q] = Newline
    BY <1>1, <1>2, <1>4, LineEndsFacts
  <2>2. m # 0 => m \in L
    BY <1>2, <2>1
  <2>3. CASE K = 0
    <3>1. IsFiniteSet(L)
      BY <2>1, Ranks
    <3>2. L = {}
      BY <1>2, <2>3, <3>1, FS_EmptySet
    <3> QED
      BY <2>2, <2>3, <3>2
  <2>4. CASE K # 0
    <3>1. /\ \A n \in 1 .. K : Nth(L, n) \in L /\ Nth(L, n) \in Nat
          /\ \A q \in L : K # 0 => ~(Nth(L, K) < q)
      BY <1>2, <2>1, NthFacts
    <3>2. K \in 1 .. K
      BY <2>4
    <3>3. Nth(L, K) \in Nat /\ 1 <= Nth(L, K) /\ Nth(L, K) <= m
      BY <2>1, <3>1, <3>2
    <3>4. ~(Nth(L, K) < m)
      BY <2>2, <2>4, <3>1, <3>3
    <3> QED
      BY <2>4, <3>3, <3>4
  <2> QED
    BY <2>3, <2>4
<1>13. K \in T
  <2> HIDE DEF T
  <2>1. \A n \in 0 .. K : n \in T
    BY <1>10, <1>11, Upwards
  <2> QED
    BY <2>1
<1> HIDE DEF E
<1>14. PICK v : v = u[K]
  OBVIOUS
<1>15. v \in Seq(Char) /\ Len(v) = Len(f) /\ \A k \in 1 .. Len(f) : v[k] = f[k]
  BY <1>2, <1>12, <1>13, <1>14
<1>16. v = f
  BY <1>15
<1> QED
  BY <1>1, <1>9, <1>14, <1>16

-----------------------------------------------------------------------------
(* One string within another *)

\* h finds the bytes of s in t, in order.
Finds(h, s, t) ==
  /\ \A k \in 1 .. Len(s) : h[k] \in 1 .. Len(t) /\ t[h[k]] = s[k]
  /\ \A j, k \in 1 .. Len(s) : j < k => h[j] < h[k]

Within(s, t) == \E h : Finds(h, s, t)

LEMMA WithinItself ==
  ASSUME NEW C, NEW s \in Seq(C)
  PROVE  Within(s, s)
<1> DEFINE h == [k \in 1 .. Len(s) |-> k]
<1>1. Finds(h, s, s)
  BY DEF Finds
<1> QED
  BY <1>1 DEF Within

LEMMA WithinJoined ==
  ASSUME NEW C, NEW s \in Seq(C), NEW t \in Seq(C), NEW a \in Seq(C), NEW b \in Seq(C),
         Within(s, t), Within(a, b), NEW v, v = s \o a, NEW w, w = t \o b
  PROVE  v \in Seq(C) /\ w \in Seq(C) /\ Within(v, w)
<1>1. PICK f, g : Finds(f, s, t) /\ Finds(g, a, b)
  BY DEF Within
<1>2. PICK ns \in Nat, nt \in Nat, na \in Nat, nb \in Nat :
        ns = Len(s) /\ nt = Len(t) /\ na = Len(a) /\ nb = Len(b)
  OBVIOUS
<1>3. /\ v \in Seq(C) /\ Len(v) = Len(s) + Len(a)
      /\ \A k \in Nat : 1 <= k /\ k <= Len(s) => v[k] = s[k]
      /\ \A k \in Nat : Len(s) < k /\ k <= Len(v) => v[k] = a[k - Len(s)]
  BY Joined
<1>4. /\ w \in Seq(C) /\ Len(w) = Len(t) + Len(b)
      /\ \A k \in Nat : 1 <= k /\ k <= Len(t) => w[k] = t[k]
      /\ \A k \in Nat : Len(t) < k /\ k <= Len(w) => w[k] = b[k - Len(t)]
  BY Joined
<1>5. /\ Len(v) = ns + na /\ Len(w) = nt + nb
      /\ \A k \in Nat : 1 <= k /\ k <= ns => v[k] = s[k]
      /\ \A k \in Nat : ns < k /\ k <= ns + na => v[k] = a[k - ns]
      /\ \A k \in Nat : 1 <= k /\ k <= nt => w[k] = t[k]
      /\ \A k \in Nat : nt < k /\ k <= nt + nb => w[k] = b[k - nt]
  BY <1>2, <1>3, <1>4
<1>6. /\ \A k \in 1 .. ns : f[k] \in 1 .. nt /\ t[f[k]] = s[k]
      /\ \A j, k \in 1 .. ns : j < k => f[j] < f[k]
      /\ \A k \in 1 .. na : g[k] \in 1 .. nb /\ b[g[k]] = a[k]
      /\ \A j, k \in 1 .. na : j < k => g[j] < g[k]
  BY <1>1, <1>2 DEF Finds
<1> DEFINE h == [k \in 1 .. ns + na |-> IF k <= ns THEN f[k] ELSE nt + g[k - ns]]
<1>7. ASSUME NEW k \in 1 .. ns + na, k <= ns
      PROVE  k \in 1 .. ns /\ h[k] = f[k] /\ h[k] \in Nat /\ 1 <= h[k] /\ h[k] <= nt
  <2>1. k \in 1 .. ns
    BY <1>7
  <2> QED
    BY <1>6, <1>7, <2>1
<1>8. ASSUME NEW k \in 1 .. ns + na, ~(k <= ns)
      PROVE  /\ k - ns \in 1 .. na /\ h[k] = nt + g[k - ns] /\ g[k - ns] \in 1 .. nb
             /\ h[k] \in Nat /\ nt < h[k] /\ h[k] <= nt + nb /\ h[k] - nt = g[k - ns]
  <2>1. k - ns \in 1 .. na
    BY <1>8
  <2>2. g[k - ns] \in 1 .. nb /\ h[k] = nt + g[k - ns]
    BY <1>6, <1>8, <2>1
  <2> QED
    BY <2>1, <2>2
<1> HIDE DEF h
<1>9. ASSUME NEW k \in 1 .. ns + na PROVE h[k] \in 1 .. nt + nb /\ w[h[k]] = v[k]
  <2>1. CASE k <= ns
    <3>1. k \in 1 .. ns /\ h[k] = f[k] /\ h[k] \in Nat /\ 1 <= h[k] /\ h[k] <= nt
      BY <1>7, <2>1
    <3>2. k \in Nat /\ 1 <= k
      BY <3>1
    <3>3. w[h[k]] = t[f[k]]
      BY <1>5, <3>1
    <3>4. v[k] = s[k]
      BY <1>5, <3>2, <2>1
    <3> QED
      BY <1>6, <3>1, <3>3, <3>4
  <2>2. CASE ~(k <= ns)
    <3>1. /\ k - ns \in 1 .. na /\ g[k - ns] \in 1 .. nb
          /\ h[k] \in Nat /\ nt < h[k] /\ h[k] <= nt + nb /\ h[k] - nt = g[k - ns]
      BY <1>8, <2>2
    <3>2. w[h[k]] = b[g[k - ns]]
      <4>1. PICK o \in Nat : o = h[k]
        BY <3>1
      <4>2. nt < o /\ o <= nt + nb /\ o - nt = g[k - ns]
        BY <3>1, <4>1
      <4>3. w[o] = b[o - nt]
        BY <1>5, <4>2
      <4> QED
        BY <4>1, <4>2, <4>3
    <3>3. v[k] = a[k - ns]
      <4>1. k \in Nat /\ ns < k /\ k <= ns + na
        BY <2>2
      <4> QED
        BY <1>5, <4>1
    <3> QED
      BY <1>6, <3>1, <3>2, <3>3
  <2> QED
    BY <2>1, <2>2
<1>10. ASSUME NEW j \in 1 .. ns + na, NEW k \in 1 .. ns + na, j < k PROVE h[j] < h[k]
  <2>1. CASE k <= ns
    <3>1. j <= ns
      BY <1>10, <2>1
    <3> QED
      BY <1>6, <1>7, <1>10, <2>1, <3>1
  <2>2. CASE j <= ns /\ ~(k <= ns)
    BY <1>7, <1>8, <2>2, SMTT(30)
  <2>3. CASE ~(j <= ns)
    <3>1. ~(k <= ns) /\ j - ns < k - ns
      BY <1>10, <2>3
    <3>2. /\ j - ns \in 1 .. na /\ h[j] = nt + g[j - ns] /\ g[j - ns] \in 1 .. nb
          /\ k - ns \in 1 .. na /\ h[k] = nt + g[k - ns] /\ g[k - ns] \in 1 .. nb
      BY <1>8, <2>3, <3>1
    <3>3. g[j - ns] < g[k - ns]
      BY <1>6, <3>1, <3>2
    <3> QED
      BY <3>2, <3>3, SMTT(30)
  <2> QED
    BY <2>1, <2>2, <2>3
<1>11. Finds(h, v, w)
  BY <1>5, <1>9, <1>10 DEF Finds
<1> QED
  BY <1>3, <1>4, <1>11 DEF Within

LEMMA WithinMore ==
  ASSUME NEW C, NEW s \in Seq(C), NEW t \in Seq(C), NEW b \in Seq(C), Within(s, t),
         NEW w, w = t \o b
  PROVE  w \in Seq(C) /\ Within(s, w)
<1>1. PICK h : Finds(h, s, t)
  BY DEF Within
<1>2. PICK nt \in Nat : nt = Len(t)
  OBVIOUS
<1>3. /\ w \in Seq(C) /\ Len(w) = Len(t) + Len(b)
      /\ \A k \in Nat : 1 <= k /\ k <= Len(t) => w[k] = t[k]
  BY Joined
<1>4. nt <= Len(w)
  BY <1>2, <1>3
<1>5. \A k \in 1 .. Len(s) : h[k] \in 1 .. nt /\ t[h[k]] = s[k]
  BY <1>1, <1>2 DEF Finds
<1>6. \A k \in 1 .. nt : k \in 1 .. Len(w) /\ w[k] = t[k]
  BY <1>2, <1>3, <1>4
<1>7. Finds(h, s, w)
  BY <1>1, <1>5, <1>6 DEF Finds
<1> QED
  BY <1>3, <1>7 DEF Within

\* How much of s has been found in the first bytes of t.
Found(u, s, t, m) ==
  u = [n \in 0 .. m |-> IF n = 0 THEN 0 ELSE Match(s, u[n - 1], t[n])]

\* Looking for s from the front.
LEMMA KeptExists ==
  ASSUME NEW s, NEW t, NEW m \in Nat
  PROVE  \E u : Found(u, s, t, m)
<1> DEFINE T == {k \in Nat : \E u : u = [n \in 0 .. k |-> IF n = 0 THEN 0
                                                         ELSE Match(s, u[n - 1], t[n])]}
<1>1. 0 \in T
  <2> DEFINE u == [n \in 0 .. 0 |-> 0]
  <2>1. \A n \in 0 .. 0 : n = 0
    OBVIOUS
  <2>2. u = [n \in 0 .. 0 |-> IF n = 0 THEN 0 ELSE Match(s, u[n - 1], t[n])]
    BY <2>1
  <2> QED
    BY <2>2
<1>2. ASSUME NEW k \in Nat, k \in T PROVE k + 1 \in T
  <2>1. PICK u : u = [n \in 0 .. k |-> IF n = 0 THEN 0 ELSE Match(s, u[n - 1], t[n])]
    BY <1>2
  <2> DEFINE v == [n \in 0 .. k + 1 |-> IF n = 0 THEN 0 ELSE Match(s, u[n - 1], t[n])]
  <2>2. \A n \in 0 .. k + 1 : n # 0 => n - 1 \in 0 .. k /\ n - 1 \in 0 .. k + 1
    OBVIOUS
  <2>3. \A n \in 0 .. k : n \in 0 .. k + 1
    OBVIOUS
  <2>4. \A n \in 0 .. k : v[n] = u[n]
    <3>1. \A n \in 0 .. k : v[n] = IF n = 0 THEN 0 ELSE Match(s, u[n - 1], t[n])
      BY <2>3
    <3>2. \A n \in 0 .. k : u[n] = IF n = 0 THEN 0 ELSE Match(s, u[n - 1], t[n])
      BY <2>1
    <3> QED
      BY <3>1, <3>2
  <2>5. v = [n \in 0 .. k + 1 |-> IF n = 0 THEN 0 ELSE Match(s, v[n - 1], t[n])]
    <3>1. \A n \in 0 .. k + 1 : n # 0 => Match(s, v[n - 1], t[n]) = Match(s, u[n - 1], t[n])
      BY <2>2, <2>4
    <3> QED
      BY <3>1
  <2> HIDE DEF v
  <2>6. k + 1 \in Nat /\ \E x : x = [n \in 0 .. k + 1 |-> IF n = 0 THEN 0
                                                      ELSE Match(s, x[n - 1], t[n])]
    BY <2>5
  <2> QED
    BY <2>6
<1> HIDE DEF T
<1>3. \A k \in 0 .. m : k \in T
  BY <1>1, <1>2, Upwards
<1>4. m \in T
  BY <1>3
<1>5. \E u : u = [n \in 0 .. m |-> IF n = 0 THEN 0 ELSE Match(s, u[n - 1], t[n])]
  BY <1>4 DEF T
<1> QED
  BY <1>5 DEF Found

\* All of it is found, if it is there in order.
LEMMA KeptFacts ==
  ASSUME NEW C, NEW s \in Seq(C), NEW t \in Seq(C), Within(s, t)
  PROVE  Kept(s, t) = Len(s)
<1>1. PICK c \in Nat, m \in Nat : c = Len(s) /\ m = Len(t)
  OBVIOUS
<1>2. PICK h : Finds(h, s, t)
  BY DEF Within
<1>3. /\ \A k \in 1 .. c : h[k] \in 1 .. m /\ t[h[k]] = s[k]
      /\ \A j, k \in 1 .. c : j < k => h[j] < h[k]
  BY <1>1, <1>2 DEF Finds
<1> DEFINE F == CHOOSE u : u = [n \in 0 .. m |-> IF n = 0 THEN 0 ELSE Match(s, u[n - 1], t[n])]
<1>4. F = [n \in 0 .. m |-> IF n = 0 THEN 0 ELSE Match(s, F[n - 1], t[n])]
  <2> HIDE DEF F
  <2>1. m \in Nat
    OBVIOUS
  <2>2. \E u : Found(u, s, t, m)
    BY ONLY <2>1, KeptExists
  <2>3. \E u : u = [n \in 0 .. m |-> IF n = 0 THEN 0 ELSE Match(s, u[n - 1], t[n])]
    BY <2>2 DEF Found
  <2> QED
    BY ONLY <2>3 DEF F
<1>5. Kept(s, t) = F[m]
  BY <1>1 DEF Kept
<1> HIDE DEF F
<1> DEFINE T == {n \in Nat : /\ F[n] \in 0 .. c
                             /\ \A k \in 1 .. c : h[k] <= n => k <= F[n]}
<1>6. 0 \in T
  <2>1. F[0] = 0
    BY <1>4
  <2>2. \A k \in 1 .. c : ~(h[k] <= 0)
    BY <1>3
  <2> QED
    BY <2>1, <2>2
<1>7. ASSUME NEW n \in Nat, n < m, n \in T PROVE n + 1 \in T
  <2>1. PICK d \in Nat : d = F[n] /\ d <= c
    BY <1>7
  <2>2. \A k \in 1 .. c : h[k] <= n => k <= d
    BY <1>7, <2>1
  <2>3. F[n + 1] = Match(s, d, t[n + 1])
    <3>1. n + 1 \in 0 .. m /\ n + 1 # 0 /\ (n + 1) - 1 = n
      BY <1>7
    <3>2. F[n + 1] = Match(s, F[(n + 1) - 1], t[n + 1])
      BY <1>4, <3>1
    <3> QED
      BY <2>1, <3>1, <3>2
  <2>4. F[n + 1] = IF d < c /\ t[n + 1] = s[d + 1] THEN d + 1 ELSE d
    BY <1>1, <2>3 DEF Match
  <2>5. F[n + 1] \in 0 .. c /\ d <= F[n + 1]
    BY <2>1, <2>4
  <2>6. ASSUME NEW k \in 1 .. c, h[k] <= n + 1 PROVE k <= F[n + 1]
    <3>1. h[k] \in Nat /\ k \in Nat /\ 1 <= k /\ k <= c
      BY <1>3
    <3>2. CASE h[k] <= n
      BY <2>2, <2>5, <3>1, <3>2, <2>1
    <3>3. CASE ~(h[k] <= n)
      <4>1. h[k] = n + 1
        BY <2>6, <3>1, <3>3
      <4>2. k - 1 <= d
        <5>1. CASE k = 1
          BY <2>1, <5>1
        <5>2. CASE k # 1
          <6>1. k - 1 \in 1 .. c /\ k - 1 < k
            BY <3>1, <5>2
          <6>2. h[k - 1] < h[k] /\ h[k - 1] \in Nat
            BY <1>3, <6>1
          <6>3. h[k - 1] <= n
            BY <4>1, <6>2
          <6> QED
            BY <2>2, <6>1, <6>3
        <5> QED
          BY <5>1, <5>2
      <4>3. CASE k <= d
        BY <2>1, <2>5, <3>1, <4>3
      <4>4. CASE ~(k <= d)
        <5>1. k = d + 1 /\ d < c
          BY <2>1, <3>1, <4>2, <4>4
        <5>2. t[n + 1] = s[d + 1]
          BY <1>3, <4>1, <5>1
        <5> QED
          BY <2>4, <3>1, <5>1, <5>2
      <4> QED
        BY <4>3, <4>4
    <3> QED
      BY <3>2, <3>3
  <2>7. n + 1 \in Nat
    OBVIOUS
  <2> QED
    BY <2>5, <2>6, <2>7
<1>8. m \in T
  <2> HIDE DEF T
  <2>1. \A n \in 0 .. m : n \in T
    BY <1>6, <1>7, Upwards
  <2> QED
    BY <2>1
<1>9. F[m] \in 0 .. c /\ \A k \in 1 .. c : k <= F[m]
  BY <1>3, <1>8
<1>10. F[m] = c
  <2>1. CASE c = 0
    BY <1>9, <2>1
  <2>2. CASE c # 0
    <3>1. c \in 1 .. c
      BY <2>2
    <3> QED
      BY <1>9, <3>1
  <2> QED
    BY <2>1, <2>2
<1> QED
  BY <1>1, <1>5, <1>10

\* One cell more in a line.
LEMMA SavedMore ==
  ASSUME NEW w \in Nat, w + 1 \in Column, NEW l, LineFits(l, w), l.text # NoText,
         NEW m, LineFits(m, w + 1), m.text # NoText, NEW g, OneMore(l, m, g)
  PROVE  Within(Saved(l), Saved(m))
<1>1. w \in Column /\ w + 1 \in Nat
  BY Numbers
<1>2. PICK s, t : s = Saved(l) /\ t = Saved(m)
  OBVIOUS
<1>3. /\ l.length \in Nat /\ Len(s) = l.length + 1 /\ s[l.length + 1] = Newline
      /\ \A k \in Nat : 1 <= k /\ k <= l.length => s[k] = l.text[k - 1]
  BY <1>1, <1>2, SavedFacts
<1>4. /\ m.length \in Nat /\ Len(t) = m.length + 1 /\ t[m.length + 1] = Newline
      /\ \A k \in Nat : 1 <= k /\ k <= m.length => t[k] = m.text[k - 1]
  BY <1>1, <1>2, SavedFacts
<1>5. /\ m.length = l.length + 1 /\ g \in Nat /\ g <= l.length
      /\ \A k \in Nat : k < g => m.text[k] = l.text[k]
      /\ \A k \in Nat : g < k /\ k <= l.length => m.text[k] = l.text[k - 1]
  BY DEF OneMore
<1>6. PICK n \in Nat : n = l.length
  BY <1>3
<1> DEFINE h == [k \in 1 .. n + 1 |-> IF k <= g THEN k ELSE k + 1]
<1>7. ASSUME NEW k \in 1 .. n + 1 PROVE h[k] \in 1 .. n + 2 /\ t[h[k]] = s[k]
  <2>1. k \in Nat /\ 1 <= k /\ k <= n + 1
    OBVIOUS
  <2>2. CASE k <= g
    <3>1. h[k] = k /\ k <= n /\ k <= n + 1 /\ k - 1 \in Nat /\ k - 1 < g
      BY <1>5, <1>6, <2>1, <2>2
    <3>2. s[k] = l.text[k - 1]
      BY <1>3, <1>6, <2>1, <3>1
    <3>3. t[k] = m.text[k - 1]
      BY <1>4, <1>5, <1>6, <2>1
    <3>4. m.text[k - 1] = l.text[k - 1]
      BY <1>5, <3>1
    <3> QED
      BY <2>1, <3>1, <3>2, <3>3, <3>4
  <2>3. CASE ~(k <= g) /\ k <= n
    <3>1. h[k] = k + 1 /\ g < k /\ k + 1 \in Nat /\ 1 <= k + 1 /\ k + 1 <= m.length /\ (k + 1) - 1 = k
      BY <1>5, <1>6, <2>1, <2>3
    <3>2. s[k] = l.text[k - 1]
      BY <1>3, <1>6, <2>1, <2>3
    <3>3. t[k + 1] = m.text[k]
      BY <1>4, <3>1
    <3>4. m.text[k] = l.text[k - 1]
      BY <1>5, <1>6, <2>1, <2>3, <3>1
    <3> QED
      BY <2>1, <2>3, <3>1, <3>2, <3>3, <3>4
  <2>4. CASE k = n + 1
    <3>1. h[k] = n + 2
      BY <1>5, <1>6, <2>4
    <3>2. t[n + 2] = Newline
      <4>1. m.length + 1 = n + 2
        BY <1>5, <1>6
      <4> QED
        BY <1>4, <4>1
    <3> QED
      BY <1>3, <1>6, <2>4, <3>1, <3>2
  <2> QED
    BY <2>1, <2>2, <2>3, <2>4
<1>8. \A j, k \in 1 .. n + 1 : j < k => h[j] < h[k]
  <2>1. g \in Nat
    BY <1>5
  <2> QED
    BY <2>1
<1> HIDE DEF h
<1>9. Len(s) = n + 1 /\ Len(t) = n + 2
  BY <1>3, <1>4, <1>5, <1>6
<1>10. Finds(h, s, t)
  BY <1>7, <1>8, <1>9 DEF Finds
<1> QED
  BY <1>2, <1>10 DEF Within

\* u has what the first lines of an array of z lines give.
Parts(ls, z, u) ==
  /\ z \in Nat /\ u[0] = << >> /\ Written(ls) = u[z]
  /\ \A k \in Nat : k < z => /\ Saved(ls[k]) \in Seq(Char)
                            /\ u[k + 1] = u[k] \o Saved(ls[k])
  /\ \A k \in Nat : k <= z => u[k] \in Seq(Char)

LEMMA UptoFits ==
  ASSUME NEW r \in Nat, NEW w \in Nat, w \in Column, NEW ls, ArrayFits(ls, r, w),
         NEW z, z = num_lines(ls), NEW u, u = Upto(ls, z)
  PROVE  Parts(ls, z, u)
<1>1. /\ HasEnd(ls, 0) /\ \A i \in Slot : LineFits(ls[i], w)
      /\ \A i \in 0 .. num_lines(ls) - 1 : ls[i].text # NoText
  BY DEF ArrayFits
<1>2. z \in Nat /\ z \in Slot
  BY <1>1, NumFacts
<1>3. u[0] = << >> /\ \A k \in Nat : k < z => u[k + 1] = u[k] \o Saved(ls[k])
  <2>1. z \in Nat /\ u = Upto(ls, z)
    BY <1>2
  <2> QED
    BY ONLY <2>1, UptoFacts, ZenonT(60)
<1>4. \A k \in Nat : k < z => Saved(ls[k]) \in Seq(Char)
  <2>1. SUFFICES ASSUME NEW k \in Nat, k < z PROVE Saved(ls[k]) \in Seq(Char)
    OBVIOUS
  <2>2. k \in Slot /\ k \in 0 .. num_lines(ls) - 1
    BY <1>1, <1>2, <2>1, NumFacts
  <2>3. LineFits(ls[k], w) /\ ls[k].text # NoText
    BY <1>1, <2>2
  <2> QED
    BY <2>3, SavedFacts
<1> DEFINE T == {k \in Nat : u[k] \in Seq(Char)}
<1>5. 0 \in T
  <2>1. << >> \in Seq(Char)
    OBVIOUS
  <2> QED
    BY <1>3, <2>1
<1>6. ASSUME NEW k \in Nat, k < z, k \in T PROVE k + 1 \in T
  <2>1. PICK s, t, v : s = u[k] /\ t = Saved(ls[k]) /\ v = u[k + 1]
    OBVIOUS
  <2>2. s \in Seq(Char) /\ t \in Seq(Char) /\ v = s \o t
    BY <1>3, <1>4, <1>6, <2>1
  <2>3. v \in Seq(Char)
    BY <2>2
  <2>4. k + 1 \in Nat
    OBVIOUS
  <2> QED
    BY <2>1, <2>3, <2>4
<1> HIDE DEF T
<1>7. \A k \in 0 .. z : k \in T
  BY <1>2, <1>5, <1>6, Upwards
<1>8. \A k \in Nat : k <= z => u[k] \in Seq(Char)
  <2>1. \A k \in Nat : k <= z => k \in 0 .. z
    BY <1>2
  <2> QED
    BY <1>7, <2>1 DEF T
<1> QED
  BY <1>2, <1>3, <1>4, <1>8, WrittenIs DEF Parts

\* As many lines, and each within its own.
LEMMA LinesMore ==
  ASSUME NEW r \in Nat, NEW w \in Nat, w \in Column, NEW ls, ArrayFits(ls, r, w),
         NEW q \in Nat, NEW v \in Nat, v \in Column, NEW d, ArrayFits(d, q, v),
         num_lines(d) = num_lines(ls),
         \A i \in Nat : i < num_lines(ls) => Within(Saved(ls[i]), Saved(d[i]))
  PROVE  Within(Written(ls), Written(d))
<1>1. PICK z : z = num_lines(ls) /\ z = num_lines(d)
  OBVIOUS
<1>2. PICK a, b : a = Upto(ls, z) /\ b = Upto(d, z)
  OBVIOUS
<1>3. /\ z \in Nat /\ a[0] = << >> /\ Written(ls) = a[z]
      /\ \A k \in Nat : k < z => /\ Saved(ls[k]) \in Seq(Char)
                                /\ a[k + 1] = a[k] \o Saved(ls[k])
      /\ \A k \in Nat : k <= z => a[k] \in Seq(Char)
  <2>1. r \in Nat /\ w \in Nat /\ w \in Column /\ ArrayFits(ls, r, w) /\ z = num_lines(ls)
        /\ a = Upto(ls, z)
    BY <1>1, <1>2
  <2>2. Parts(ls, z, a)
    BY ONLY <2>1, UptoFits
  <2> QED
    BY <2>2 DEF Parts
<1>4. /\ b[0] = << >> /\ Written(d) = b[z]
      /\ \A k \in Nat : k < z => /\ Saved(d[k]) \in Seq(Char)
                                /\ b[k + 1] = b[k] \o Saved(d[k])
      /\ \A k \in Nat : k <= z => b[k] \in Seq(Char)
  <2>1. q \in Nat /\ v \in Nat /\ v \in Column /\ ArrayFits(d, q, v) /\ z = num_lines(d)
        /\ b = Upto(d, z)
    BY <1>1, <1>2
  <2>2. Parts(d, z, b)
    BY ONLY <2>1, UptoFits
  <2> QED
    BY <2>2 DEF Parts
<1> DEFINE T == {k \in Nat : Within(a[k], b[k])}
<1>5. 0 \in T
  <2>1. << >> \in Seq(Char)
    OBVIOUS
  <2>2. Within(<< >>, << >>)
    BY <2>1, WithinItself
  <2> QED
    BY <1>3, <1>4, <2>2
<1>6. ASSUME NEW k \in Nat, k < z, k \in T PROVE k + 1 \in T
  <2>1. PICK f, g, s, t, x, y : /\ f = a[k] /\ g = b[k] /\ s = Saved(ls[k]) /\ t = Saved(d[k])
                                /\ x = a[k + 1] /\ y = b[k + 1]
    OBVIOUS
  <2>2. /\ f \in Seq(Char) /\ g \in Seq(Char) /\ s \in Seq(Char) /\ t \in Seq(Char)
        /\ Within(f, g) /\ Within(s, t)
    <3>1. k <= z
      BY <1>3, <1>6
    <3> QED
      BY <1>1, <1>3, <1>4, <1>6, <2>1, <3>1
  <2>3. x = f \o s /\ y = g \o t
    BY <1>3, <1>4, <1>6, <2>1
  <2>4. Within(x, y)
    BY ONLY <2>2, <2>3, WithinJoined
  <2>5. k + 1 \in Nat
    OBVIOUS
  <2> QED
    BY <2>1, <2>4, <2>5
<1> HIDE DEF T
<1>7. \A k \in 0 .. z : k \in T
  BY <1>3, <1>5, <1>6, Upwards
<1>8. z \in T
  BY <1>3, <1>7
<1> QED
  BY <1>3, <1>4, <1>8 DEF T

\* One line more, an empty one at n.
LEMMA LinesInsert ==
  ASSUME NEW r \in Nat, NEW w \in Nat, w \in Column, NEW ls, ArrayFits(ls, r, w),
         r + 1 \in Slot, NEW n \in Slot, NEW d, d = insert_line(ls, n)
  PROVE  Within(Written(ls), Written(d))
<1>1. ls \in [Slot -> Line] /\ HasEnd(ls, 0) /\ \A i \in Slot : ls[i].length = -1 => i <= r
  BY DEF ArrayFits
<1>2. PICK z \in Nat : z = num_lines(ls) /\ z \in Slot
  BY <1>1, NumFacts
<1>3. z + 1 \in Slot
  <2>1. z <= r
    BY <1>1, <1>2, NumFacts
  <2>2. z + 1 <= r + 1 /\ z + 1 \in Nat
    BY <1>2, <2>1
  <2> QED
    BY <2>2, Numbers
<1>4. /\ n \in Nat
      /\ d[n] = EmptyLine
      /\ \A i \in Slot : n < i /\ i <= z + 1 => d[i] = ls[i - 1] /\ i - 1 \in Slot
      /\ \A i \in Slot : i # n /\ ~(n < i /\ i <= z + 1) => d[i] = ls[i]
      /\ n <= z => num_lines(d) = z + 1
      /\ ~(n <= z) => num_lines(d) = z
  BY <1>1, <1>2, <1>3, InsertFacts
<1>5. ArrayFits(d, r + 1, w) /\ r + 1 \in Nat
  BY InsertFits
<1>6. \A k \in Nat : k <= z + 1 => k \in Slot
  BY <1>3, Numbers
<1>7. CASE ~(n <= z)
  <2>1. ASSUME NEW i \in Nat, i < z PROVE Within(Saved(ls[i]), Saved(d[i]))
    <3>1. i \in Slot /\ i # n /\ ~(n < i /\ i <= z + 1)
      BY <1>2, <1>4, <1>6, <1>7, <2>1
    <3>2. d[i] = ls[i]
      BY <1>4, <3>1
    <3>3. PICK u : u = Upto(ls, z)
      OBVIOUS
    <3>4. Parts(ls, z, u)
      <4>1. r \in Nat /\ w \in Nat /\ w \in Column /\ ArrayFits(ls, r, w) /\ z = num_lines(ls)
            /\ u = Upto(ls, z)
        BY <1>2, <3>3
      <4> QED
        BY ONLY <4>1, UptoFits
    <3>5. Saved(ls[i]) \in Seq(Char)
      BY <2>1, <3>4 DEF Parts
    <3> QED
      BY <3>2, <3>5, WithinItself
  <2>2. num_lines(d) = num_lines(ls)
    BY <1>2, <1>4, <1>7
  <2>3. /\ r \in Nat /\ w \in Nat /\ w \in Column /\ ArrayFits(ls, r, w)
        /\ r + 1 \in Nat /\ ArrayFits(d, r + 1, w) /\ num_lines(d) = num_lines(ls)
        /\ \A i \in Nat : i < num_lines(ls) => Within(Saved(ls[i]), Saved(d[i]))
    BY <1>2, <1>5, <2>1, <2>2
  <2> QED
    BY ONLY <2>3, LinesMore
<1>8. CASE n <= z
  <2>1. PICK a, b : a = Upto(ls, z) /\ b = Upto(d, z + 1)
    OBVIOUS
  <2>2. Parts(ls, z, a)
    <3>1. r \in Nat /\ w \in Nat /\ w \in Column /\ ArrayFits(ls, r, w) /\ z = num_lines(ls)
          /\ a = Upto(ls, z)
      BY <1>2, <2>1
    <3> QED
      BY ONLY <3>1, UptoFits
  <2>3. Parts(d, z + 1, b)
    <3>1. PICK q, y : q = r + 1 /\ y = z + 1
      OBVIOUS
    <3>2. q \in Nat /\ w \in Nat /\ w \in Column /\ ArrayFits(d, q, w) /\ y = num_lines(d)
          /\ b = Upto(d, y)
      BY <1>4, <1>5, <1>8, <2>1, <3>1
    <3>3. Parts(d, y, b)
      BY ONLY <3>2, UptoFits
    <3> QED
      BY <3>1, <3>3
  <2>4. /\ a[0] = << >> /\ Written(ls) = a[z]
        /\ \A k \in Nat : k < z => /\ Saved(ls[k]) \in Seq(Char)
                                  /\ a[k + 1] = a[k] \o Saved(ls[k])
        /\ \A k \in Nat : k <= z => a[k] \in Seq(Char)
    BY <2>2 DEF Parts
  <2>5. /\ b[0] = << >> /\ Written(d) = b[z + 1]
        /\ \A k \in Nat : k < z + 1 => /\ Saved(d[k]) \in Seq(Char)
                                      /\ b[k + 1] = b[k] \o Saved(d[k])
        /\ \A k \in Nat : k <= z + 1 => b[k] \in Seq(Char)
    BY <2>3 DEF Parts
  <2>6. ASSUME NEW k \in Nat, k <= z, Within(a[k], b[k]) PROVE Within(a[k], b[k + 1])
    <3>1. PICK f, g, t, y : f = a[k] /\ g = b[k] /\ t = Saved(d[k]) /\ y = b[k + 1]
      OBVIOUS
    <3>2. k < z + 1 /\ k <= z + 1
      BY <2>6
    <3>3. f \in Seq(Char) /\ g \in Seq(Char) /\ t \in Seq(Char) /\ Within(f, g) /\ y = g \o t
      BY <2>4, <2>5, <2>6, <3>1, <3>2
    <3>4. Within(f, y)
      BY ONLY <3>3, WithinMore
    <3> QED
      BY <3>1, <3>4
  <2> DEFINE T == {k \in Nat : /\ k <= n => Within(a[k], b[k])
                               /\ n <= k => Within(a[k], b[k + 1])}
  <2>7. 0 \in T
    <3>1. << >> \in Seq(Char)
      OBVIOUS
    <3>2. Within(a[0], b[0])
      BY <2>4, <2>5, <3>1, WithinItself
    <3>3. 0 \in Nat /\ 0 <= z
      OBVIOUS
    <3>4. Within(a[0], b[0 + 1])
      BY <2>6, <3>2, <3>3
    <3> QED
      BY <3>2, <3>4
  <2>8. ASSUME NEW k \in Nat, k < z, k \in T PROVE k + 1 \in T
    <3>1. k + 1 \in Nat /\ k + 1 <= z /\ k \in Slot /\ k + 1 \in Slot /\ k < z + 1 /\ k <= z + 1
          /\ k + 1 < z + 1 /\ k + 1 <= z + 1 /\ k <= z
      BY <1>6, <2>8
    <3>2. PICK f, s, x : f = a[k] /\ s = Saved(ls[k]) /\ x = a[k + 1]
      OBVIOUS
    <3>3. f \in Seq(Char) /\ s \in Seq(Char) /\ x = f \o s /\ Within(s, s)
      <4>1. f \in Seq(Char) /\ s \in Seq(Char) /\ x = f \o s
        BY <2>4, <2>8, <3>1, <3>2
      <4> QED
        BY <4>1, WithinItself
    <3>4. ASSUME k + 1 <= n PROVE Within(a[k + 1], b[k + 1])
      <4>1. k # n /\ ~(n < k /\ k <= z + 1) /\ k <= n
        BY <1>4, <3>4
      <4>2. d[k] = ls[k]
        BY <1>4, <3>1, <4>1
      <4>3. PICK g, y : g = b[k] /\ y = b[k + 1]
        OBVIOUS
      <4>4. g \in Seq(Char) /\ y = g \o s
        BY <2>5, <3>1, <3>2, <4>2, <4>3
      <4>5. Within(f, g)
        BY <2>8, <3>2, <4>1, <4>3
      <4>6. Within(x, y)
        BY ONLY <3>3, <4>4, <4>5, WithinJoined
      <4> QED
        BY <3>2, <4>3, <4>6
    <3>5. ASSUME n <= k PROVE Within(a[k + 1], b[(k + 1) + 1])
      <4>1. n < k + 1 /\ (k + 1) - 1 = k
        BY <1>4, <3>5
      <4>2. d[k + 1] = ls[k]
        BY <1>4, <3>1, <4>1
      <4>3. PICK g, y : g = b[k + 1] /\ y = b[(k + 1) + 1]
        OBVIOUS
      <4>4. g \in Seq(Char) /\ y = g \o s
        BY <2>5, <3>1, <3>2, <4>2, <4>3
      <4>5. Within(f, g)
        BY <2>8, <3>2, <3>5, <4>3
      <4>6. Within(x, y)
        BY ONLY <3>3, <4>4, <4>5, WithinJoined
      <4> QED
        BY <3>2, <4>3, <4>6
    <3>6. ASSUME n <= k + 1 PROVE Within(a[k + 1], b[(k + 1) + 1])
      <4>1. CASE n <= k
        BY <3>5, <4>1
      <4>2. CASE ~(n <= k)
        <5>1. k + 1 <= n
          BY <1>4, <4>2
        <5> QED
          BY <2>6, <3>1, <3>4, <5>1
      <4> QED
        BY <4>1, <4>2
    <3> QED
      BY <3>1, <3>4, <3>6
  <2> HIDE DEF T
  <2>9. \A k \in 0 .. z : k \in T
    BY <1>2, <2>7, <2>8, Upwards
  <2>10. z \in T
    BY <1>2, <2>9
  <2> QED
    BY <1>8, <2>4, <2>5, <2>10 DEF T
<1> QED
  BY <1>2, <1>4, <1>7, <1>8

\* The same lines, and all that was in them.
LEMMA SameLines ==
  ASSUME NEW p \in 0 .. MaxPresses, NEW ed, EditorFits(ed, p)
  PROVE  Within(Written(ed.lines), Written(ed.lines))
<1>1. ArrayFits(ed.lines, Rows(p), Room(p))
  BY DEF EditorFits
<1>2. PICK ls, f : ls = ed.lines /\ f = Written(ls)
  OBVIOUS
<1>3. f \in Seq(Char)
  BY <1>1, <1>2, WrittenFits
<1> QED
  BY <1>2, <1>3, WithinItself

LEMMA BelowLines ==
  ASSUME NEW p \in 0 .. MaxPresses, NEW ed, EditorFits(ed, p)
  PROVE  NewLineBelow(ed).lines = insert_line(ed.lines, y_pos(ed) + 1)
<1>1. ed \in Editor /\ ed.y \in Nat /\ ed.offset \in Nat
  BY EditorFacts
<1>2. PICK down : down = [ed EXCEPT !.y = @ + 1]
  OBVIOUS
<1>3. down.y = ed.y + 1 /\ down.offset = ed.offset /\ down.lines = ed.lines
  BY <1>1, <1>2 DEF Editor
<1>4. y_pos(down) = y_pos(ed) + 1
  BY <1>1, <1>3 DEF y_pos
<1>5. [down EXCEPT !.lines = insert_line(@, y_pos(down)), !.x = 0].lines
        = insert_line(down.lines, y_pos(down))
  BY <1>1, <1>2 DEF Editor
<1> QED
  BY <1>2, <1>3, <1>4, <1>5 DEF NewLineBelow

LEMMA BelowKeepsAll ==
  ASSUME NEW p \in 0 .. MaxPresses, p + 1 \in 0 .. MaxPresses, NEW ed, EditorFits(ed, p)
  PROVE  Within(Written(ed.lines), Written(NewLineBelow(ed).lines))
<1>1. PICK r, w, ls, n, d : /\ r = Rows(p) /\ w = Room(p) /\ ls = ed.lines
                            /\ n = y_pos(ed) + 1 /\ d = insert_line(ls, n)
  OBVIOUS
<1>2. r \in Nat /\ r + 1 \in Slot /\ w \in Nat /\ w \in Column
  <2>1. Room(p) <= Room(p) + 1 /\ Room(p) \in Nat
    BY Bounds
  <2> QED
    BY <1>1, <2>1, Bounds
<1>3. ArrayFits(ls, r, w) /\ n \in Slot
  BY <1>1, EditorFacts
<1>4. /\ r \in Nat /\ w \in Nat /\ w \in Column /\ ArrayFits(ls, r, w)
      /\ r + 1 \in Slot /\ n \in Slot /\ d = insert_line(ls, n)
  BY <1>1, <1>2, <1>3
<1>5. Within(Written(ls), Written(d))
  BY ONLY <1>4, LinesInsert
<1> QED
  BY <1>1, <1>5, BelowLines

\* A character typed into a line of the array.
LEMMA TypeKeepsAll ==
  ASSUME IInv, NEW c \in Char, Type(c)
  PROVE  Within(Written(e.lines), Written(e'.lines))
<1> DEFINE typed == [text |-> [shiftright(e.lines[e.y].text, e.x) EXCEPT ![e.x] = c],
                     length |-> e.lines[e.y].length + 1]
<1>1. PICK n : n = [e EXCEPT !.lines[e.y] = typed, !.x = @ + 1]
  OBVIOUS
<1>2. /\ Press("INSERT")
      /\ \/ e.lines[e.y].text = NoText /\ Lost
         \/ e.lines[e.y].text # NoText /\ Becomes(n)
  BY <1>1 DEF Type
<1>3. presses \in 0 .. MaxPresses /\ EditorFits(e, presses)
  BY <1>2, PressFacts
<1>4. /\ e \in Editor /\ e.x \in Nat /\ e.x <= Room(presses) /\ e.y \in Slot
      /\ e.lines \in [Slot -> Line] /\ HasEnd(e.lines, 0)
      /\ ArrayFits(e.lines, Rows(presses), Room(presses))
      /\ Room(presses) \in Nat /\ Room(presses) + 1 \in Column /\ Rows(presses) \in Nat
  BY <1>3, EditorFacts, Bounds
<1>5. CASE e.lines[e.y].text = NoText /\ Lost
  <2>1. e' = e
    BY <1>5 DEF Lost
  <2> QED
    BY <1>3, <2>1, SameLines
<1>6. CASE e.lines[e.y].text # NoText /\ Becomes(n)
  <2>1. PICK l, w, x, r, ls, i : /\ l = e.lines[e.y] /\ w = Room(presses) /\ x = e.x
                                 /\ r = Rows(presses) /\ ls = e.lines /\ i = e.y
    OBVIOUS
  <2>2. PICK t : t = [shiftright(l.text, x) EXCEPT ![x] = c]
    OBVIOUS
  <2>3. PICK m : m = [text |-> t, length |-> l.length + 1]
    OBVIOUS
  <2>4. LineFits(l, w)
    BY <1>4, <2>1 DEF ArrayFits
  <2>5. /\ LineFits(m, w + 1) /\ m \in Line /\ m.text # NoText
        /\ \E g \in Nat : OneMore(l, m, g)
    BY <1>4, <1>6, <2>1, <2>2, <2>3, <2>4, TypeFacts, SMTT(30)
  <2>6. PICK g : OneMore(l, m, g)
    BY <2>5
  <2>7. PICK d : d = SetLine(ls, i, m)
    OBVIOUS
  <2>8. ArrayFits(d, r + 1, w + 1) /\ num_lines(d) = num_lines(ls)
    <3>1. /\ r \in Nat /\ w \in Nat /\ w + 1 \in Column /\ ArrayFits(ls, r, w)
          /\ i \in Slot /\ m \in Line /\ LineFits(m, w + 1) /\ m.text # NoText
          /\ OneMore(ls[i], m, g) /\ d = SetLine(ls, i, m)
      BY <1>4, <2>1, <2>5, <2>6, <2>7
    <3> QED
      BY ONLY <3>1, SetMore
  <2>9. n.lines = d
    <3>1. typed = m
      BY <2>1, <2>2, <2>3
    <3> HIDE DEF typed
    <3>2. n = [e EXCEPT !.lines[e.y] = m, !.x = @ + 1]
      BY <1>1, <3>1
    <3> QED
      BY <1>4, <2>1, <2>7, <3>2 DEF SetLine, Editor
  <2>10. Within(Saved(l), Saved(m))
    <3>1. /\ w \in Nat /\ w + 1 \in Column /\ LineFits(l, w) /\ l.text # NoText
          /\ LineFits(m, w + 1) /\ m.text # NoText /\ OneMore(l, m, g)
      BY <1>4, <1>6, <2>1, <2>4, <2>5, <2>6
    <3> QED
      BY ONLY <3>1, SavedMore
  <2>11. /\ r \in Nat /\ w \in Nat /\ w \in Column /\ r + 1 \in Nat /\ w + 1 \in Nat
         /\ w + 1 \in Column
    <3>1. w <= w + 1
      BY <1>4, <2>1
    <3> QED
      BY <1>4, <2>1, <3>1, Numbers
  <2>12. ASSUME NEW k \in Nat, k < num_lines(ls) PROVE Within(Saved(ls[k]), Saved(d[k]))
    <3>1. k \in Slot
      BY <1>4, <2>1, <2>12, NumFacts
    <3>2. CASE k = i
      BY <1>4, <2>1, <2>7, <2>10, <3>2 DEF SetLine
    <3>3. CASE k # i
      <4>1. d[k] = ls[k]
        BY <1>4, <2>1, <2>7, <3>1, <3>3 DEF SetLine
      <4>2. PICK u, z : z = num_lines(ls) /\ u = Upto(ls, z)
        OBVIOUS
      <4>3. /\ r \in Nat /\ w \in Nat /\ w \in Column /\ ArrayFits(ls, r, w)
            /\ z = num_lines(ls) /\ u = Upto(ls, z)
        BY <1>4, <2>1, <2>11, <4>2
      <4>4. Parts(ls, z, u)
        BY ONLY <4>3, UptoFits
      <4>5. Saved(ls[k]) \in Seq(Char)
        BY <2>12, <4>2, <4>4 DEF Parts
      <4> QED
        BY <4>1, <4>5, WithinItself
    <3> QED
      BY <3>2, <3>3
  <2>13. PICK q, v : q = r + 1 /\ v = w + 1
    OBVIOUS
  <2>14. /\ r \in Nat /\ w \in Nat /\ w \in Column /\ ArrayFits(ls, r, w)
         /\ q \in Nat /\ v \in Nat /\ v \in Column /\ ArrayFits(d, q, v)
         /\ num_lines(d) = num_lines(ls)
         /\ \A k \in Nat : k < num_lines(ls) => Within(Saved(ls[k]), Saved(d[k]))
    BY <1>4, <2>1, <2>8, <2>11, <2>12, <2>13
  <2>15. Within(Written(ls), Written(d))
    BY ONLY <2>14, LinesMore
  <2>16. e' = n
    BY <1>6 DEF Becomes
  <2> QED
    BY <2>1, <2>9, <2>15, <2>16
<1> QED
  BY <1>2, <1>5, <1>6

\* Going somewhere, and to the other mode, leaves the lines as they are.
LEMMA MovingKeepsLines ==
  IInv /\ (InsertHere \/ InsertAfter \/ Move \/ Word \/ LastLine \/ Escape)
    => e'.lines = e.lines
<1> SUFFICES ASSUME IInv, InsertHere \/ InsertAfter \/ Move \/ Word \/ LastLine \/ Escape
             PROVE  e'.lines = e.lines
  OBVIOUS
<1>1. presses \in 0 .. MaxPresses /\ EditorFits(e, presses) /\ presses <= presses
  BY PressFacts DEF InsertHere, InsertAfter, Move, Word, LastLine, Escape
<1>2. e \in Editor /\ e.y \in Nat /\ e.offset \in Nat /\ e.y + e.offset <= Rows(presses)
      /\ 0 <= Room(presses)
  BY <1>1, EditorFacts, Bounds
<1>3. PICK g, h, k : g = goto_eol(e) /\ h = prev_line(e) /\ k = next_line(e)
  OBVIOUS
<1>4. g \in Editor /\ g.lines = e.lines
  BY <1>1, <1>3, EolFacts DEF EditorFits
<1>5. h.lines = e.lines
  BY <1>1, <1>3, PrevFacts
<1>6. k.lines = e.lines
  BY <1>1, <1>3, NextFacts
<1>7. ASSUME InsertHere PROVE e'.lines = e.lines
  BY <1>2, <1>7 DEF InsertHere, Becomes, Editor
<1>8. ASSUME InsertAfter PROVE e'.lines = e.lines
  <2>1. PICK ed \in {e, g} :
          e' = [ed EXCEPT !.x = IF Current(ed).length # 0 THEN @ + 1 ELSE @, !.mode = "INSERT"]
    BY <1>3, <1>8 DEF InsertAfter, Becomes
  <2>2. ed \in Editor /\ ed.lines = e.lines
    BY <1>2, <1>4
  <2> QED
    BY <2>1, <2>2 DEF Editor
<1>9. ASSUME Move PROVE e'.lines = e.lines
  <2>1. \/ e' = [e EXCEPT !.x = AtLeast0(@ - 1)]
        \/ e' = [e EXCEPT !.x = IF @ + 1 < Current(e).length THEN @ + 1 ELSE @]
        \/ e' = h \/ e' = k \/ e' = g
        \/ e' = [e EXCEPT !.x = 0]
    BY <1>3, <1>9 DEF Move, Becomes
  <2> QED
    BY <1>2, <1>4, <1>5, <1>6, <2>1 DEF Editor
<1>10. ASSUME Word PROVE e'.lines = e.lines
  <2>1. \/ e' = e
        \/ \E j \in Column : e' = [e EXCEPT !.x = j + 1]
        \/ e' = next_line([e EXCEPT !.x = 0])
    BY <1>10 DEF Word, BecomesUnchecked, Lost
  <2>2. PICK a, n : a = At(e, 0, e.y, e.offset) /\ n = next_line(a)
    OBVIOUS
  <2>3. EditorFits(a, presses) /\ a.lines = e.lines
    BY <1>1, <1>2, <2>2, AtFacts
  <2>4. n.lines = e.lines
    BY <1>1, <2>2, <2>3, NextFacts
  <2>5. [e EXCEPT !.x = 0] = a
    BY <1>2, <2>2, AtIs
  <2> QED
    BY <1>2, <2>1, <2>2, <2>4, <2>5 DEF Editor
<1>11. ASSUME LastLine PROVE e'.lines = e.lines
  <2>1. \/ e' = e
        \/ /\ HasEnd(e.lines, y_pos(e) + 1)
           /\ e' = Walk(e)[EndFrom(e.lines, y_pos(e) + 1) - (y_pos(e) + 1)]
    BY <1>11 DEF LastLine, Walk, Becomes, Lost
  <2>2. PICK n : n = Walk(e)[EndFrom(e.lines, y_pos(e) + 1) - (y_pos(e) + 1)]
    OBVIOUS
  <2>3. HasEnd(e.lines, y_pos(e) + 1) => n.lines = e.lines
    BY <1>1, <2>2, WalkFacts
  <2> QED
    BY <2>1, <2>2, <2>3
<1>12. ASSUME Escape PROVE e'.lines = e.lines
  BY <1>2, <1>12 DEF Escape, Becomes, Editor
<1> QED
  BY <1>7, <1>8, <1>9, <1>10, <1>11, <1>12

LEMMA InsertingKeepsAll ==
  ASSUME IInv, Inserting
  PROVE  Within(Written(e.lines), Written(e'.lines))
<1>1. CASE InsertHere \/ InsertAfter \/ Move \/ Word \/ LastLine \/ Escape
  <2>1. e'.lines = e.lines
    BY <1>1, MovingKeepsLines
  <2>2. presses \in 0 .. MaxPresses /\ EditorFits(e, presses)
    BY <1>1, PressFacts DEF InsertHere, InsertAfter, Move, Word, LastLine, Escape
  <2> QED
    BY <2>1, <2>2, SameLines
<1>2. CASE OpenLine \/ Return
  <2>1. PICK n : n = NewLineBelow(e)
    OBVIOUS
  <2>2. e' = n \/ e' = [n EXCEPT !.mode = "INSERT"]
    BY <1>2, <2>1 DEF OpenLine, Return, Becomes
  <2>3. presses \in 0 .. MaxPresses /\ presses + 1 \in 0 .. MaxPresses /\ EditorFits(e, presses)
    BY <1>2, PressFacts DEF OpenLine, Return
  <2>4. n \in Editor
    BY <2>1, <2>3, BelowFacts DEF EditorFits
  <2>5. e'.lines = n.lines
    BY <2>2, <2>4 DEF Editor
  <2> QED
    BY <2>1, <2>3, <2>5, BelowKeepsAll
<1>3. CASE \E c \in Char : Type(c)
  BY <1>3, TypeKeepsAll
<1> QED
  BY <1>1, <1>2, <1>3 DEF Inserting

-----------------------------------------------------------------------------
(* The theorems *)

\* The files vi may find.
LEMMA FilesFit ==
  ASSUME NEW f \in Files
  PROVE  (f = Absent \/ f \in Seq(Char \union {Nul})) /\ FileFits(f, 0)
<1>1. SUFFICES ASSUME f # Absent PROVE f \in Seq(Char \union {Nul}) /\ FileFits(f, 0)
  BY DEF FileFits
<1>2. /\ f \in Seq(Char \union {Nul})
      /\ Cardinality({q \in DOMAIN f : f[q] = Newline}) + MaxPresses + 2 <= Slots
      /\ \A a, b \in DOMAIN f : (\A q \in a .. b : f[q] # Newline)
                                  => (b - a + 1) + MaxPresses + 2 <= Width
  BY <1>1, BoundsAssumption
<1>3. PICK m \in Nat : m = Len(f) /\ DOMAIN f = 1 .. m
  BY <1>2
<1>4. /\ Rows(0) = Slots - 2 - MaxPresses /\ Room(0) = Width - 2 - MaxPresses
      /\ Slots \in Nat /\ Width \in Nat /\ MaxPresses \in Nat
  BY BoundsAssumption DEF Rows, Room
<1>5. Cardinality(LineEnds(f)) <= Rows(0)
  BY <1>2, <1>4, LineEndsFacts DEF LineEnds
<1>6. ASSUME NEW a \in 1 .. m, NEW b \in 1 .. m, \A q \in a .. b : f[q] # Newline
      PROVE  b - a + 1 <= Room(0)
  <2>1. (b - a + 1) + MaxPresses + 2 <= Width
    BY <1>2, <1>3, <1>6
  <2> QED
    BY <1>4, <2>1
<1> QED
  BY <1>2, <1>3, <1>5, <1>6 DEF FileFits

LEMMA IInvInit == Init => IInv
<1> SUFFICES ASSUME Init PROVE IInv
  OBVIOUS
<1>1. /\ disk \in Files /\ e = Opened(disk) /\ running = "reading" /\ presses = 0
      /\ careful = (num_lines(e.lines) > 0)
  BY DEF Init
<1>2. PICK f, n : f = disk /\ n = e
  OBVIOUS
<1>3. (f = Absent \/ f \in Seq(Char \union {Nul})) /\ FileFits(f, 0) /\ n = Opened(f)
  BY <1>1, <1>2, FilesFit
<1>4. 0 \in 0 .. MaxPresses
  BY BoundsAssumption
<1>5. /\ EditorFits(n, 0) /\ n.offset = 0 /\ n.y < MaxY
      /\ num_lines(n.lines) > 0 => OnLine(n)
  BY <1>3, <1>4, OpenedFacts
<1>6. n \in Editor
  BY <1>5 DEF EditorFits
<1>7. careful \in BOOLEAN
  BY <1>1
<1>8. TypeOK
  BY <1>1, <1>2, <1>3, <1>4, <1>6, <1>7 DEF TypeOK
<1>9. Caring
  BY <1>1, <1>2, <1>5 DEF Caring
<1> QED
  BY <1>1, <1>2, <1>3, <1>5, <1>8, <1>9 DEF IInv

\* :w, :q and :wq
LEMMA CommandKeeps == IInv /\ Command => IInv'
<1> SUFFICES ASSUME IInv, Command PROVE IInv'
  OBVIOUS
<1>1. /\ presses < MaxPresses /\ presses' = presses + 1 /\ e' = e /\ careful' = careful
      /\ disk' = disk \/ disk' = Written(e.lines)
      /\ running' \in {"reading", "done"}
  BY DEF Command
<1>2. /\ presses \in 0 .. MaxPresses /\ EditorFits(e, presses) /\ FileFits(disk, presses)
      /\ disk = Absent \/ disk \in Seq(Char \union {Nul})
      /\ e \in Editor /\ careful \in BOOLEAN /\ Caring
  BY DEF IInv, TypeOK
<1>3. presses + 1 \in 0 .. MaxPresses /\ presses <= presses + 1
  BY <1>1, <1>2, BoundsAssumption
<1>4. ArrayFits(e.lines, Rows(presses), Room(presses))
  BY <1>2 DEF EditorFits
<1>5. PICK f : f = disk'
  OBVIOUS
<1>6. (f = Absent \/ f \in Seq(Char \union {Nul})) /\ FileFits(f, presses)
  BY <1>1, <1>2, <1>4, <1>5, WrittenFits
<1>7. FileFits(f, presses + 1) /\ EditorFits(e, presses + 1)
  BY <1>2, <1>3, <1>6, FileWider, EditorWider
<1>8. TypeOK'
  BY <1>1, <1>2, <1>3, <1>5, <1>6 DEF TypeOK
<1>9. Caring'
  BY <1>1, <1>2 DEF Caring
<1>10. EditorFits(e, presses)' /\ FileFits(disk, presses)'
  BY <1>1, <1>5, <1>7
<1> QED
  BY <1>8, <1>9, <1>10 DEF IInv

LEMMA StartKeeps == IInv /\ Start => IInv'
<1> SUFFICES ASSUME IInv, Start PROVE IInv'
  OBVIOUS
<1>1. /\ running' = "reading" /\ e' = Opened(disk) /\ careful' = (num_lines(e'.lines) > 0)
      /\ disk' = disk /\ presses' = presses
  BY DEF Start
<1>2. /\ presses \in 0 .. MaxPresses /\ FileFits(disk, presses)
      /\ disk = Absent \/ disk \in Seq(Char \union {Nul})
  BY DEF IInv, TypeOK
<1>3. PICK f, n : f = disk /\ n = Opened(disk)
  OBVIOUS
<1>4. /\ EditorFits(n, presses) /\ n.offset = 0 /\ n.y < MaxY
      /\ num_lines(n.lines) > 0 => OnLine(n)
  BY <1>2, <1>3, OpenedFacts
<1>5. n \in Editor
  BY <1>4 DEF EditorFits
<1>6. e' = n /\ careful' = (num_lines(n.lines) > 0)
  BY <1>1, <1>3
<1>7. careful' \in BOOLEAN
  BY <1>6
<1>8. TypeOK'
  BY <1>1, <1>2, <1>5, <1>6, <1>7 DEF TypeOK
<1>9. Caring'
  BY <1>1, <1>4, <1>6 DEF Caring
<1>10. EditorFits(e, presses)' /\ FileFits(disk, presses)'
  BY <1>1, <1>2, <1>4, <1>6
<1> QED
  BY <1>8, <1>9, <1>10 DEF IInv

LEMMA NoMemoryKeeps == IInv /\ NoMemory => IInv'
<1> SUFFICES ASSUME IInv, NoMemory PROVE IInv'
  OBVIOUS
<1>1. /\ e' = e /\ disk' = disk /\ running' = "lost" /\ careful' = FALSE
      /\ presses' = presses \/ (presses < MaxPresses /\ presses' = presses + 1)
  BY DEF NoMemory
<1>2. /\ presses \in 0 .. MaxPresses /\ EditorFits(e, presses) /\ FileFits(disk, presses)
      /\ disk = Absent \/ disk \in Seq(Char \union {Nul})
      /\ e \in Editor
  BY DEF IInv, TypeOK
<1>3. PICK p \in 0 .. MaxPresses : p = presses' /\ presses <= p
  BY <1>1, <1>2, BoundsAssumption
<1>4. EditorFits(e, p) /\ FileFits(disk, p)
  BY <1>2, <1>3, EditorWider, FileWider
<1>5. TypeOK'
  BY <1>1, <1>2, <1>3 DEF TypeOK
<1>6. Caring'
  BY <1>1 DEF Caring
<1>7. EditorFits(e, presses)' /\ FileFits(disk, presses)'
  BY <1>1, <1>3, <1>4
<1> QED
  BY <1>5, <1>6, <1>7 DEF IInv

LEMMA IInvNext == IInv /\ [Next]_vars => IInv'
<1> SUFFICES ASSUME IInv, [Next]_vars PROVE IInv'
  OBVIOUS
<1>1. CASE UNCHANGED vars
  BY <1>1 DEF vars, IInv, TypeOK, Caring, OnLine
<1>2. CASE InsertHere \/ InsertAfter \/ Move \/ Word \/ LastLine
  BY <1>2, InsertHereKeeps, InsertAfterKeeps, MoveKeeps, WordKeeps, LastLineKeeps
<1>3. CASE DeleteCharacter \/ DeleteLine \/ DeleteWithNext \/ DeleteWithPrevious
  BY <1>3, DeleteCharacterKeeps, DeleteLineKeeps, DeleteWithKeeps
<1>4. CASE OpenLine \/ Command \/ Start \/ NoMemory
  BY <1>4, OpenLineKeeps, CommandKeeps, StartKeeps, NoMemoryKeeps
<1>5. CASE Escape \/ Backspace \/ BackspaceAtStart \/ Return
  BY <1>5, EscapeKeeps, BackspaceKeeps, BackspaceAtStartKeeps, ReturnKeeps
<1>6. ASSUME NEW c \in Char, Type(c) PROVE IInv'
  BY <1>6, TypeKeeps
<1> QED
  BY <1>1, <1>2, <1>3, <1>4, <1>5, <1>6 DEF Next

\* The inductive invariant of the editor: its array is sound and has room for what the
\* keys that are left may add, in the memory of the program and in the file alike.
THEOREM Invariant == Spec => []IInv
<1>1. Init => IInv
  BY IInvInit
<1>2. IInv /\ [Next]_vars => IInv'
  BY IInvNext
<1> QED
  BY <1>1, <1>2, PTL DEF Spec

\* Every variable stays in its type: within the bounds no cursor leaves the array and no
\* line its block, whatever nm_keyhandler(), im_keyhandler() and main() do with a key.
THEOREM TypeCorrect == Spec => []TypeOK
<1>1. IInv => TypeOK
  BY DEF IInv
<1> QED
  BY <1>1, Invariant, PTL

\* The array stays marked at its end, and no line's length exceeds its string, whatever
\* keys are pressed: what num_lines(), delete_line() and write_lines() rely on.
THEOREM ArrayStaysSound == Spec => []ArraySound
<1>1. IInv => ArraySound
  <2>1. SUFFICES ASSUME IInv PROVE ArraySound
    OBVIOUS
  <2>2. ArrayFits(e.lines, Rows(presses), Room(presses))
    BY <2>1 DEF IInv, EditorFits
  <2>3. EndMarked
    BY <2>2 DEF ArrayFits, EndMarked
  <2>4. ASSUME NEW i \in Slot, NEW k \in 0 .. e.lines[i].length - 1
        PROVE  e.lines[i].text[k] # Nul
    <3>1. LineFits(e.lines[i], Room(presses))
      BY <2>2 DEF ArrayFits
    <3>2. CASE e.lines[i].length \in {-1, 0}
      <4>1. 0 .. e.lines[i].length - 1 = {}
        BY <3>2
      <4> QED
        BY <2>4, <4>1
    <3>3. CASE e.lines[i].length \notin {-1, 0}
      BY <2>4, <3>1, <3>3 DEF LineFits
    <3> QED
      BY <3>2, <3>3
  <2>5. NoNulSaved
    BY <2>4 DEF NoNulSaved
  <2> QED
    BY <2>3, <2>5 DEF ArraySound
<1> QED
  BY <1>1, Invariant, PTL

\* While the lines fit on the screen and w, dj and dk are left alone, the cursor is on a
\* line of the file and not behind its end, and no key follows a null pointer.
THEOREM CursorStaysOnLine == Spec => []CursorOnLine
<1>1. IInv => CursorOnLine
  BY DEF IInv, Caring, OnLine, CursorOnLine
<1> QED
  BY <1>1, Invariant, PTL

\* In the same circumstances every line's length is that of the string that is drawn, so
\* that :w saves what is on the screen.
THEOREM ScreenIsSaved == Spec => []SeenIsSaved
<1>1. IInv => SeenIsSaved
  <2>1. SUFFICES ASSUME IInv, careful, NEW i \in 0 .. num_lines(e.lines) - 1
                 PROVE  e.lines[i].length = strlen(e.lines[i].text)
    BY DEF SeenIsSaved
  <2>2. /\ presses \in 0 .. MaxPresses /\ AllClean(e.lines)
        /\ ArrayFits(e.lines, Rows(presses), Room(presses))
    BY <2>1 DEF IInv, TypeOK, Caring, OnLine, EditorFits
  <2>3. /\ HasEnd(e.lines, 0) /\ e.lines[i].text # NoText
        /\ \A j \in Slot : LineFits(e.lines[j], Room(presses))
    BY <2>2 DEF ArrayFits
  <2>4. PICK z \in Nat : z = num_lines(e.lines)
    BY <2>3, NumFacts
  <2>5. i \in Nat /\ i < z
    BY <2>4
  <2>6. i \in Slot
    BY <2>3, <2>4, <2>5, NumFacts
  <2>7. PICK l, w : l = e.lines[i] /\ w = Room(presses)
    OBVIOUS
  <2>8. Clean(l) /\ LineFits(l, w) /\ l.text # NoText
    BY <2>2, <2>3, <2>4, <2>5, <2>6, <2>7 DEF AllClean
  <2>9. w \in Nat /\ w \in Column
    <3>1. Room(presses) \in Nat /\ Room(presses) + 1 \in Column
          /\ Room(presses) <= Room(presses) + 1
      BY <2>2, Bounds
    <3> QED
      BY <2>7, <3>1, Numbers
  <2>10. /\ l.length \in Nat /\ l.length <= w /\ l.length <= strlen(l.text)
         /\ strlen(l.text) \in Nat
         /\ \A k \in Nat : k < strlen(l.text) => l.text[k] # Nul
    BY <2>8, <2>9, LineFacts
  <2>11. l.length \in Column
    BY <2>9, <2>10, Numbers
  <2>12. l.text[l.length] = Nul
    BY <2>8, <2>10, <2>11 DEF Clean
  <2>13. ~(l.length < strlen(l.text))
    BY <2>10, <2>12
  <2> QED
    BY <2>7, <2>10, <2>13
<1> QED
  BY <1>1, Invariant, PTL

\* What write_lines() saves, load_file() reads back, and it is saved again as it was.
THEOREM SavingStaysStable == Spec => []SavingIsStable
<1>1. IInv => SavingIsStable
  <2>1. SUFFICES ASSUME IInv PROVE SavingIsStable
    OBVIOUS
  <2>2. presses \in 0 .. MaxPresses /\ ArrayFits(e.lines, Rows(presses), Room(presses))
    BY <2>1 DEF IInv, TypeOK, EditorFits
  <2>3. PICK f : f = Written(e.lines)
    OBVIOUS
  <2>4. /\ FileFits(f, presses) /\ f \in Seq(Char) /\ f # Absent
        /\ Len(f) = 0 \/ f[Len(f)] = Newline
    BY <2>2, <2>3, WrittenFits
  <2>5. Written(load_file(f)) = f
    BY <2>2, <2>4, ReadBack
  <2> QED
    BY <2>3, <2>5 DEF SavingIsStable
<1> QED
  BY <1>1, Invariant, PTL

\* Whatever is opened and typed, from whatever file, all that :w would have
\* saved before it would save after it, in its order (shiftright() and
\* insert_line(): no byte of a line and no line is overwritten).
THEOREM TypingKeepsAll == Spec => NothingTypedOver
<1>1. ASSUME IInv, IInv', [Next]_vars
      PROVE  [Inserting => LET old == Written(e.lines)
                           IN  Kept(old, Written(e.lines')) = Len(old)]_vars
  <2>1. SUFFICES ASSUME Inserting
                 PROVE  Kept(Written(e.lines), Written(e'.lines)) = Len(Written(e.lines))
    OBVIOUS
  <2>2. PICK s, t : s = Written(e.lines) /\ t = Written(e'.lines)
    OBVIOUS
  <2>3. s \in Seq(Char)
    <3>1. PICK p, ls : p = presses /\ ls = e.lines
      OBVIOUS
    <3>2. p \in 0 .. MaxPresses /\ ArrayFits(ls, Rows(p), Room(p)) /\ s = Written(ls)
      BY <1>1, <2>2, <3>1 DEF IInv, TypeOK, EditorFits
    <3> QED
      BY ONLY <3>2, WrittenFits
  <2>4. t \in Seq(Char)
    <3>1. PICK p, ls : p = presses' /\ ls = e'.lines
      OBVIOUS
    <3>2. p \in 0 .. MaxPresses /\ ArrayFits(ls, Rows(p), Room(p)) /\ t = Written(ls)
      BY <1>1, <2>2, <3>1 DEF IInv, TypeOK, EditorFits
    <3> QED
      BY ONLY <3>2, WrittenFits
  <2>5. Within(s, t)
    BY <1>1, <2>1, <2>2, InsertingKeepsAll
  <2>6. Kept(s, t) = Len(s)
    BY ONLY <2>3, <2>4, <2>5, KeptFacts
  <2> QED
    BY <2>2, <2>6
<1> QED
  BY <1>1, Invariant, PTL DEF Spec, NothingTypedOver

=============================================================================
