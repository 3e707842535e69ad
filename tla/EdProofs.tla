------------------------------ MODULE EdProofs -------------------------------
(***************************************************************************)
(* Proofs about Ed, for any texts, files and addresses, and any size of    *)
(* lines[]. The functions that are defined by recursion - the turns of     *)
(* buffer_append(), and what the first lines of a text are in the file -   *)
(* are shown to exist and to be the only ones of their kind, by induction  *)
(* over the set of the numbers for which that holds; what is said of them  *)
(* is said of any function that satisfies their equation.                  *)
(***************************************************************************)
EXTENDS Ed, SequenceTheorems, FiniteSetTheorems, WellFoundedInduction, TLAPS

\* What is in the file; a file that does not exist is an empty one.
File == IF disk = Absent THEN << >> ELSE disk

Lines == [Slot -> Seq(Letter) \union {NoLine}]
TextOf(ls, n) == [k \in 1 .. n |-> ls[k - 1]]
\* A line behind the first k of a text of n.
Put(text, k, t, n) == SubSeq(text, 1, k) \o <<t>> \o SubSeq(text, k + 1, n)

Filled(ls, n) == \A k \in Nat : k < n => ls[k] # NoLine

\* One slot stays free, and the line to append after is in the buffer.
InBounds == amt <= line_max - 1 /\ (mode = "append" => after <= amt - 1)

\* As long as ed has what it needs, no pointer of the buffer is null, and the file
\* is no longer than the text, so that saving leaves nothing of it behind.
Complete ==
  mode # "quit" /\ sound =>
    Filled(lines, amt) /\ Len(File) <= Len(Abstract!Join(TextOf(lines, amt)))

IInv == TypeOK /\ InBounds /\ Complete /\ LostOnlyWhenFull

-----------------------------------------------------------------------------
(* Sets of positions *)

\* A set of natural numbers has a smallest element.
LEMMA Smallest ==
  ASSUME NEW T \in SUBSET Nat, T # {}
  PROVE  \E m \in T : \A k \in T : m <= k
<1> DEFINE R == OpToRel(<, Nat)
<1>1. IsWellFoundedOn(R, Nat)
  BY NatLessThanWellFounded
<1>2. \A x, y \in Nat : y < x => <<y, x>> \in R
  BY DEF OpToRel
<1> HIDE DEF R
<1>3. PICK x \in T : \A y \in T : <<y, x>> \notin R
  BY <1>1, WFMin
<1>4. \A y \in T : ~(y < x)
  BY <1>2, <1>3
<1>5. \A y \in T : x <= y
  BY <1>4
<1> QED
  BY <1>5

\* One with a bound has a greatest.
LEMMA Greatest ==
  ASSUME NEW m \in Nat, NEW T \in SUBSET (1 .. m), T # {}
  PROVE  \E g \in T : \A k \in T : k <= g
<1> DEFINE U == {d \in Nat : m - d \in T}
<1>1. \A k \in T : k \in Nat /\ m - k \in U /\ m - (m - k) = k
  OBVIOUS
<1>2. U # {} /\ U \in SUBSET Nat
  BY <1>1
<1>3. PICK d \in U : \A x \in U : d <= x
  BY <1>2, Smallest
<1>4. m - d \in T
  BY <1>3
<1>5. ASSUME NEW k \in T PROVE k <= m - d
  <2>1. d <= m - k /\ k \in Nat /\ d \in Nat
    BY <1>1, <1>3
  <2> QED
    BY <2>1
<1> QED
  BY <1>4, <1>5

\* How many of S are not behind p.
Rank(S, p) == Cardinality({q \in S : q <= p})

\* What stands before a position, with it and without it.
LEMMA Before ==
  ASSUME NEW m \in Nat, NEW S \in SUBSET (1 .. m), NEW p \in S
  PROVE  /\ S \in SUBSET Nat /\ m \in Int /\ 1 \in Int
         /\ {q \in S : q <= p} \in SUBSET S /\ p \in {q \in S : q <= p}
         /\ {q \in S : q < p} \in SUBSET S /\ {q \in S : q < p} \in SUBSET (1 .. m)
         /\ p \notin {q \in S : q < p}
         /\ {q \in S : q <= p} = {q \in S : q < p} \union {p}
         /\ \A r \in S : r < p => /\ {q \in S : q <= r} \in SUBSET {q \in S : q <= p}
                                /\ p \notin {q \in S : q <= r}
<1>1. \A q \in S : q \in Nat
  OBVIOUS
<1>2. \A q, r \in S : /\ r < q => ~(q <= r)
                      /\ q <= r <=> (q < r \/ q = r)
                      /\ \A t \in S : q <= r /\ r < t => q <= t
  BY <1>1
<1>3. \A q \in S : q <= q /\ ~(q < q)
  BY <1>1
<1>4. S \in SUBSET Nat /\ m \in Int /\ 1 \in Int
  BY <1>1
<1>5. {q \in S : q <= p} \in SUBSET S /\ p \in {q \in S : q <= p}
  BY <1>3
<1>6. /\ {q \in S : q < p} \in SUBSET S /\ {q \in S : q < p} \in SUBSET (1 .. m)
      /\ p \notin {q \in S : q < p}
  BY <1>3
<1>7. {q \in S : q <= p} = {q \in S : q < p} \union {p}
  BY <1>2
<1>8. ASSUME NEW r \in S, r < p
      PROVE  /\ {q \in S : q <= r} \in SUBSET {q \in S : q <= p}
             /\ p \notin {q \in S : q <= r}
  BY <1>2, <1>8
<1> QED
  BY <1>4, <1>5, <1>6, <1>7, <1>8

\* The members of a set of positions are numbered from 1, in order.
LEMMA Ranks ==
  ASSUME NEW m \in Nat, NEW S \in SUBSET (1 .. m)
  PROVE  /\ IsFiniteSet(S) /\ Cardinality(S) \in Nat
         /\ \A p \in S : Rank(S, p) \in 1 .. Cardinality(S)
         /\ \A p, r \in S : r < p => Rank(S, r) < Rank(S, p)
         /\ \A n \in 1 .. Cardinality(S) : \E p \in S : Rank(S, p) = n
<1>1. IsFiniteSet(S) /\ Cardinality(S) \in Nat
  <2>1. m \in Int /\ 1 \in Int
    OBVIOUS
  <2>2. IsFiniteSet(1 .. m)
    BY <2>1, FS_Interval
  <2> QED
    BY <2>2, FS_Subset, FS_CardinalityType
<1>2. ASSUME NEW T \in SUBSET S
      PROVE  IsFiniteSet(T) /\ Cardinality(T) \in Nat /\ Cardinality(T) <= Cardinality(S)
  BY <1>1, FS_Subset, FS_CardinalityType
<1>3. ASSUME NEW p \in S PROVE Rank(S, p) \in 1 .. Cardinality(S)
  <2> DEFINE T == {q \in S : q <= p}
  <2>1. T \in SUBSET S /\ p \in T
    OBVIOUS
  <2>2. IsFiniteSet(T) /\ Cardinality(T) \in Nat /\ Cardinality(T) <= Cardinality(S)
    BY <1>2, <2>1
  <2>3. Cardinality(T) # 0
    BY <2>1, <2>2, FS_EmptySet
  <2>4. Rank(S, p) = Cardinality(T)
    BY DEF Rank
  <2> QED
    BY <1>1, <2>2, <2>3, <2>4
<1>4. ASSUME NEW p \in S, NEW r \in S, r < p PROVE Rank(S, r) < Rank(S, p)
  <2> DEFINE T == {q \in S : q <= p}
             V == {q \in S : q <= r}
  <2>1. T \in SUBSET S /\ p \in T
    BY Before
  <2>2. V \in SUBSET T /\ p \notin V
    BY <1>4, Before
  <2> HIDE DEF T, V
  <2>3. IsFiniteSet(T) /\ Cardinality(T) \in Nat
    BY <1>2, <2>1
  <2>4. Cardinality(V) <= Cardinality(T) /\ Cardinality(V) # Cardinality(T)
    BY <2>1, <2>2, <2>3, FS_Subset
  <2>5. Cardinality(V) \in Nat
    BY <1>2, <2>1, <2>2
  <2> QED
    BY <2>3, <2>4, <2>5 DEF Rank, T, V
<1>5. ASSUME NEW n \in 1 .. Cardinality(S) PROVE \E p \in S : Rank(S, p) = n
  <2> DEFINE T == {p \in S : Rank(S, p) >= n}
  <2>1. n \in Nat /\ n >= 1 /\ n <= Cardinality(S)
    BY <1>1
  <2>2. T # {}
    <3>1. S # {}
      BY <1>1, <2>1, FS_EmptySet
    <3>2. PICK g \in S : \A k \in S : k <= g
      BY <3>1, Greatest
    <3>3. {q \in S : q <= g} = S
      BY <3>2
    <3> QED
      BY <2>1, <3>3 DEF Rank
  <2>3. T \in SUBSET Nat
    BY <2>2, Before
  <2>4. PICK p \in T : \A k \in T : p <= k
    BY <2>2, <2>3, Smallest
  <2> DEFINE B == {q \in S : q < p}
  <2>5. B \in SUBSET S /\ B \in SUBSET (1 .. m) /\ p \notin B
    BY Before
  <2>6. {q \in S : q <= p} = B \union {p}
    BY Before
  <2>7. IsFiniteSet(B) /\ Cardinality(B) \in Nat
    BY <1>2, <2>5
  <2>8. Rank(S, p) = Cardinality(B) + 1
    BY <2>5, <2>6, <2>7, FS_AddElement DEF Rank
  <2>9. ~(Cardinality(B) >= n)
    <3>1. SUFFICES ASSUME Cardinality(B) >= n PROVE FALSE
      OBVIOUS
    <3>2. B # {}
      BY <2>1, <2>7, <3>1, FS_EmptySet
    <3>3. PICK g \in B : \A k \in B : k <= g
      BY <2>5, <3>2, Greatest
    <3>4. {q \in S : q <= g} = B
      <4>1. g \in S /\ g < p
        OBVIOUS
      <4>2. \A q \in S : q <= g => q < p
        BY <4>1
      <4> QED
        BY <3>3, <4>2
    <3>5. g \in T
      BY <3>1, <3>4 DEF Rank
    <3>6. p <= g
      BY <2>4, <3>5
    <3> QED
      BY <3>6
  <2>10. Rank(S, p) >= n
    OBVIOUS
  <2> QED
    BY <2>1, <2>7, <2>8, <2>9, <2>10
<1> QED
  BY <1>1, <1>3, <1>4, <1>5

-----------------------------------------------------------------------------
(* The lines of a string *)

\* The ends of the lines are positions, the last of them behind the string.
LEMMA EndsFacts ==
  ASSUME NEW s \in Seq(Byte)
  PROVE  /\ Len(s) \in Nat /\ Len(s) + 1 \in Nat /\ DOMAIN s = 1 .. Len(s)
         /\ Ends(s) \in SUBSET (1 .. Len(s) + 1) /\ Len(s) + 1 \in Ends(s)
         /\ \A p \in 1 .. Len(s) : p \in Ends(s) <=> s[p] = Newline
         /\ Cardinality(Ends(s)) \in Nat \ {0}
<1>1. Len(s) \in Nat /\ DOMAIN s = 1 .. Len(s)
  OBVIOUS
<1>2. /\ Ends(s) \in SUBSET (1 .. Len(s) + 1) /\ Len(s) + 1 \in Ends(s)
      /\ \A p \in 1 .. Len(s) : p \in Ends(s) <=> s[p] = Newline
  BY <1>1 DEF Ends
<1>3. Len(s) + 1 \in Nat
  BY <1>1
<1>4. IsFiniteSet(Ends(s)) /\ Cardinality(Ends(s)) \in Nat
  BY <1>2, <1>3, Ranks
<1>5. Cardinality(Ends(s)) # 0
  BY <1>2, <1>4, FS_EmptySet
<1> QED
  BY <1>1, <1>2, <1>3, <1>4, <1>5

\* They are the ends of consecutive lines.
LEMMA EndFacts ==
  ASSUME NEW s \in Seq(Byte), NEW K, K = Cardinality(Ends(s))
  PROVE  /\ \A n \in 1 .. K : End(s, n) \in Ends(s)
         /\ End(s, K) = Len(s) + 1
         /\ \A q \in Ends(s) : ~(q < End(s, 1))
         /\ \A n \in 1 .. K : n + 1 \in 1 .. K =>
              /\ End(s, n) < End(s, n + 1)
              /\ \A q \in Ends(s) : ~(End(s, n) < q /\ q < End(s, n + 1))
<1> DEFINE S == Ends(s)
           m == Len(s) + 1
<1>1. K \in Nat /\ K >= 1 /\ m \in Nat /\ S \in SUBSET (1 .. m) /\ m \in S
  BY EndsFacts
<1>2. /\ \A p \in S : Rank(S, p) \in 1 .. K
      /\ \A p, r \in S : r < p => Rank(S, r) < Rank(S, p)
      /\ \A n \in 1 .. K : \E p \in S : Rank(S, p) = n
  BY <1>1, Ranks
<1>3. ASSUME NEW n \in 1 .. K PROVE End(s, n) \in S /\ Rank(S, End(s, n)) = n
  <2>1. End(s, n) = CHOOSE p \in S : Rank(S, p) = n
    BY DEF End, Rank
  <2> QED
    BY <1>2, <2>1
<1> HIDE DEF S, m
<1>4. \A p \in S : p \in Nat /\ p <= m
  BY <1>1
<1>5. \A n \in 1 .. K : End(s, n) \in Nat
  BY <1>3, <1>4
<1>6. 1 \in 1 .. K /\ K \in 1 .. K
  BY <1>1
<1>7. End(s, K) = m
  <2>1. End(s, K) \in S /\ Rank(S, End(s, K)) = K
    BY <1>3, <1>6
  <2>2. ~(End(s, K) < m)
    <3>1. SUFFICES ASSUME End(s, K) < m PROVE FALSE
      OBVIOUS
    <3>2. K < Rank(S, m) /\ Rank(S, m) \in 1 .. K
      BY <1>1, <1>2, <2>1, <3>1
    <3> QED
      BY <1>1, <3>2
  <2>3. End(s, K) \in Nat /\ End(s, K) <= m
    BY <1>4, <2>1
  <2> QED
    BY <1>1, <2>2, <2>3
<1>8. ASSUME NEW q \in S, q < End(s, 1) PROVE FALSE
  <2>1. Rank(S, q) < 1 /\ Rank(S, q) \in 1 .. K
    BY <1>2, <1>3, <1>6, <1>8
  <2> QED
    BY <1>1, <2>1
<1>9. ASSUME NEW n \in 1 .. K, n + 1 \in 1 .. K
      PROVE  /\ End(s, n) < End(s, n + 1)
             /\ \A q \in S : ~(End(s, n) < q /\ q < End(s, n + 1))
  <2>1. /\ End(s, n) \in S /\ Rank(S, End(s, n)) = n
        /\ End(s, n + 1) \in S /\ Rank(S, End(s, n + 1)) = n + 1
    BY <1>3, <1>9
  <2>2. End(s, n) # End(s, n + 1)
    BY <1>1, <2>1
  <2>3. ~(End(s, n + 1) < End(s, n))
    <3>1. SUFFICES ASSUME End(s, n + 1) < End(s, n) PROVE FALSE
      OBVIOUS
    <3>2. n + 1 < n
      BY <1>2, <2>1, <3>1
    <3> QED
      BY <1>1, <3>2
  <2>4. ASSUME NEW q \in S, End(s, n) < q, q < End(s, n + 1) PROVE FALSE
    <3>1. n < Rank(S, q) /\ Rank(S, q) < n + 1 /\ Rank(S, q) \in 1 .. K
      BY <1>2, <2>1, <2>4
    <3> QED
      BY <1>1, <3>1
  <2> QED
    BY <1>5, <1>9, <2>2, <2>3, <2>4
<1> QED
  BY <1>3, <1>7, <1>8, <1>9 DEF S, m

\* Induction up to m, over a set.
LEMMA Upwards ==
  ASSUME NEW m \in Nat, NEW T, 0 \in T, \A k \in Nat : k < m /\ k \in T => k + 1 \in T
  PROVE  \A k \in 0 .. m : k \in T
<1> DEFINE U == {k \in Nat : k <= m /\ k \notin T}
<1>1. SUFFICES ASSUME U # {} PROVE FALSE
  BY DEF U
<1>2. PICK u \in U : \A k \in U : u <= k
  BY <1>1, Smallest
<1>3. u \in Nat /\ u <= m /\ u \notin T
  OBVIOUS
<1>4. u # 0
  BY <1>3
<1>5. u - 1 \in Nat /\ u - 1 < m /\ (u - 1) + 1 = u /\ ~(u <= u - 1) /\ u - 1 <= m
  BY <1>3, <1>4
<1>6. u - 1 \notin U
  BY <1>2, <1>5
<1>7. u - 1 \in T
  BY <1>5, <1>6
<1> QED
  BY <1>3, <1>5, <1>7

\* Where the n-th line of a string starts.
StartOf(s, n) == IF n = 1 THEN 1 ELSE End(s, n - 1) + 1

\* A line lies in the string, and no line ends in it.
LEMMA StartFacts ==
  ASSUME NEW s \in Seq(Byte), NEW n \in 1 .. Cardinality(Ends(s))
  PROVE  /\ StartOf(s, n) \in Nat /\ StartOf(s, n) >= 1 /\ End(s, n) \in Ends(s)
         /\ End(s, n) \in Nat /\ StartOf(s, n) <= End(s, n) /\ End(s, n) <= Len(s) + 1
         /\ \A q \in StartOf(s, n) .. End(s, n) - 1 : q \in 1 .. Len(s) /\ q \notin Ends(s)
<1> DEFINE K == Cardinality(Ends(s))
           from == StartOf(s, n)
           to == End(s, n)
<1>1. K \in Nat /\ n \in Nat /\ n >= 1 /\ n <= K /\ Len(s) \in Nat
  BY EndsFacts
<1>2. \A q \in Ends(s) : q \in Nat /\ q >= 1 /\ q <= Len(s) + 1
  BY <1>1, EndsFacts
<1>3. \A k \in 1 .. K : End(s, k) \in Ends(s)
  BY EndFacts
<1>4. to \in Ends(s) /\ to \in Nat /\ to >= 1 /\ to <= Len(s) + 1
  BY <1>2, <1>3
<1> HIDE DEF to
<1>5. from \in Nat /\ from >= 1 /\ from <= to /\ \A q \in Ends(s) : ~(from <= q /\ q < to)
  <2>1. CASE n = 1
    <3>1. from = 1
      BY <2>1 DEF StartOf
    <3>2. \A q \in Ends(s) : ~(q < to)
      BY <2>1, EndFacts DEF to
    <3> QED
      BY <1>4, <3>1, <3>2
  <2>2. CASE n # 1
    <3>1. n - 1 \in 1 .. K /\ (n - 1) + 1 = n
      BY <1>1, <2>2
    <3>2. /\ End(s, n - 1) < to /\ End(s, n - 1) \in Ends(s)
          /\ \A q \in Ends(s) : ~(End(s, n - 1) < q /\ q < to)
      <4>1. (n - 1) + 1 \in 1 .. K
        BY <3>1
      <4>2. \A k \in 1 .. K : k + 1 \in 1 .. K =>
              /\ End(s, k) < End(s, k + 1)
              /\ \A q \in Ends(s) : ~(End(s, k) < q /\ q < End(s, k + 1))
        BY EndFacts
      <4>3. /\ End(s, n - 1) < End(s, (n - 1) + 1)
            /\ \A q \in Ends(s) : ~(End(s, n - 1) < q /\ q < End(s, (n - 1) + 1))
        BY <3>1, <4>1, <4>2
      <4> QED
        BY <1>3, <3>1, <4>3 DEF to
    <3>3. from = End(s, n - 1) + 1
      BY <2>2 DEF StartOf
    <3>4. End(s, n - 1) \in Nat
      BY <1>2, <3>2
    <3>5. \A q \in Ends(s) : q \in Nat /\ (from <= q => End(s, n - 1) < q)
      BY <1>2, <3>3, <3>4
    <3> QED
      BY <1>4, <3>2, <3>3, <3>4, <3>5
  <2> QED
    BY <2>1, <2>2
<1> HIDE DEF from
<1>6. ASSUME NEW q \in from .. to - 1 PROVE q \in 1 .. Len(s) /\ q \notin Ends(s)
  <2>1. q \in Nat /\ from <= q /\ q < to
    BY <1>4, <1>5
  <2>2. q \in 1 .. Len(s)
    BY <1>1, <1>4, <1>5, <2>1
  <2> QED
    BY <1>5, <2>1, <2>2
<1> QED
  BY <1>4, <1>5, <1>6 DEF from, to

\* A string without zero bytes is cut into lines of letters.
LEMMA PiecesFacts ==
  ASSUME NEW s \in Seq(Byte), \A p \in DOMAIN s : s[p] # Nul
  PROVE  /\ Pieces(s) \in Seq(Seq(Letter)) /\ Len(Pieces(s)) = Cardinality(Ends(s))
         /\ \A n \in 1 .. Cardinality(Ends(s)) :
              Pieces(s)[n] = SubSeq(s, StartOf(s, n), End(s, n) - 1)
<1> DEFINE K == Cardinality(Ends(s))
<1>1. K \in Nat
  BY EndsFacts
<1>2. Pieces(s) = [n \in 1 .. K |-> SubSeq(s, StartOf(s, n), End(s, n) - 1)]
  BY DEF Pieces, StartOf
<1>3. ASSUME NEW n \in 1 .. K PROVE SubSeq(s, StartOf(s, n), End(s, n) - 1) \in Seq(Letter)
  <2>1. /\ StartOf(s, n) \in Int /\ End(s, n) - 1 \in Int
        /\ \A q \in StartOf(s, n) .. End(s, n) - 1 : q \in 1 .. Len(s) /\ q \notin Ends(s)
    <3>1. StartOf(s, n) \in Nat /\ End(s, n) \in Nat
      BY StartFacts
    <3> QED
      BY <3>1, StartFacts
  <2>2. ASSUME NEW q \in 1 .. Len(s), q \notin Ends(s) PROVE s[q] \in Letter
    <3>1. s[q] \in Byte /\ s[q] # Newline /\ s[q] # Nul
      BY <2>2, EndsFacts
    <3> QED
      BY <3>1 DEF Byte
  <2> QED
    BY <2>1, <2>2, SubSeqProperties
<1> HIDE DEF K
<1>4. Pieces(s) \in [1 .. K -> Seq(Letter)]
  BY <1>2, <1>3
<1>5. Pieces(s) \in Seq(Seq(Letter)) /\ Len(Pieces(s)) = K
  BY <1>1, <1>4
<1> QED
  BY <1>2, <1>5 DEF K

\* A line that is typed is one line.
LEMMA OnePiece ==
  ASSUME NEW t \in Seq(Letter)
  PROVE  Pieces(t) = <<t>> /\ Len(Pieces(t)) = 1
<1>1. t \in Seq(Byte) /\ Len(t) \in Nat /\ \A p \in 1 .. Len(t) : t[p] # Newline
  BY TextsAssumption DEF Byte
<1>2. Ends(t) = {Len(t) + 1}
  BY <1>1, EndsFacts
<1>3. Cardinality(Ends(t)) = 1
  BY <1>2, FS_Singleton
<1>4. End(t, 1) = Len(t) + 1
  BY <1>1, <1>3, EndFacts
<1>5. (Len(t) + 1) - 1 = Len(t) /\ 1 .. 1 = {1}
  BY <1>1
<1>6. SubSeq(t, 1, End(t, 1) - 1) = t
  BY <1>4, <1>5, SubSeqFull
<1>7. Pieces(t) = [n \in {1} |-> SubSeq(t, IF n = 1 THEN 1 ELSE End(t, n - 1) + 1, End(t, n) - 1)]
  BY <1>3, <1>5 DEF Pieces
<1>8. Pieces(t) = [n \in {1} |-> t]
  BY <1>6, <1>7
<1>9. [n \in {1} |-> t] = <<t>> /\ Len(<<t>>) = 1
  OBVIOUS
<1> QED
  BY <1>8, <1>9

-----------------------------------------------------------------------------
(* Lines put together *)

\* What stands in front of the k-th line.
Glue(k) == IF k = 1 THEN << >> ELSE <<Newline>>

\* j[k] is what the first k lines of t are in the file, for k up to n.
IsJoin(t, n, j) ==
  j = [k \in 0 .. n |-> IF k = 0 THEN << >> ELSE j[k - 1] \o Glue(k) \o t[k]]

\* There is such a function.
LEMMA JoinExists ==
  ASSUME NEW t, NEW m \in Nat
  PROVE  \E j : IsJoin(t, m, j)
<1> DEFINE T == {n \in Nat : \E j : IsJoin(t, n, j)}
<1>1. 0 \in T
  <2>1. [k \in 0 .. 0 |-> << >>] =
          [k \in 0 .. 0 |-> IF k = 0 THEN << >>
             ELSE [i \in 0 .. 0 |-> << >>][k - 1] \o Glue(k) \o t[k]]
    OBVIOUS
  <2>2. IsJoin(t, 0, [k \in 0 .. 0 |-> << >>])
    BY <2>1 DEF IsJoin
  <2> QED
    BY <2>2
<1>2. ASSUME NEW n \in Nat, n \in T PROVE n + 1 \in T
  <2>1. PICK j : IsJoin(t, n, j)
    BY <1>2
  <2>2. PICK g : g = [k \in 0 .. n + 1 |-> IF k = 0 THEN << >>
                        ELSE j[k - 1] \o Glue(k) \o t[k]]
    OBVIOUS
  <2>3. /\ \A k \in 0 .. n : j[k] = IF k = 0 THEN << >> ELSE j[k - 1] \o Glue(k) \o t[k]
        /\ \A k \in 0 .. n + 1 : k # 0 => k - 1 \in 0 .. n /\ k - 1 \in 0 .. n + 1
    BY <2>1 DEF IsJoin
  <2>4. \A k \in 0 .. n : k \in 0 .. n + 1
    OBVIOUS
  <2>5. \A k \in 0 .. n : g[k] = j[k]
    BY <2>2, <2>3, <2>4
  <2>6. IsJoin(t, n + 1, g)
    BY <2>2, <2>3, <2>5 DEF IsJoin
  <2> QED
    BY <2>6
<1> HIDE DEF T
<1>3. m \in T
  <2>1. \A k \in 0 .. m : k \in T
    BY <1>1, <1>2, Upwards
  <2> QED
    BY <2>1
<1> QED
  BY <1>3 DEF T

\* Bytes behind bytes are bytes.
LEMMA BytesTogether ==
  /\ << >> \in Seq(Byte) /\ <<Newline>> \in Seq(Byte)
  /\ \A k \in Nat : Glue(k) \in Seq(Byte)
  /\ \A x, y, z \in Seq(Byte) : x \o y \o z \in Seq(Byte)
<1>1. Newline \in Byte
  BY DEF Byte
<1>2. << >> \in Seq(Byte) /\ <<Newline>> \in Seq(Byte)
  BY <1>1
<1>3. \A x, y, z \in Seq(Byte) : x \o y \o z \in Seq(Byte)
  OBVIOUS
<1> QED
  BY <1>2, <1>3 DEF Glue

\* Its values, and what they are made of.
LEMMA JoinFacts ==
  ASSUME NEW t, NEW m \in Nat, \A k \in 1 .. m : t[k] \in Seq(Byte), NEW j, IsJoin(t, m, j)
  PROVE  /\ \A k \in 0 .. m : j[k] \in Seq(Byte)
         /\ j[0] = << >>
         /\ \A k \in 1 .. m : j[k] = j[k - 1] \o Glue(k) \o t[k]
<1>1. j[0] = << >> /\ \A k \in 1 .. m : j[k] = j[k - 1] \o Glue(k) \o t[k]
  <2>1. 0 \in 0 .. m /\ \A k \in 1 .. m : k \in 0 .. m /\ k # 0
    OBVIOUS
  <2> QED
    BY <2>1 DEF IsJoin
<1> DEFINE T == {n \in Nat : j[n] \in Seq(Byte)}
<1>2. 0 \in T
  BY <1>1, BytesTogether
<1>3. ASSUME NEW n \in Nat, n < m, n \in T PROVE n + 1 \in T
  <2>1. n + 1 \in 1 .. m /\ (n + 1) - 1 = n
    BY <1>3
  <2>2. Glue(n + 1) \in Seq(Byte) /\ t[n + 1] \in Seq(Byte)
    BY <2>1, BytesTogether
  <2>3. j[n + 1] = j[n] \o Glue(n + 1) \o t[n + 1]
    BY <1>1, <2>1
  <2>4. j[n] \in Seq(Byte)
    BY <1>3
  <2>5. j[n + 1] \in Seq(Byte)
    BY <2>2, <2>3, <2>4, BytesTogether
  <2> QED
    BY <2>1, <2>5
<1>4. \A k \in 0 .. m : k \in T
  <2> HIDE DEF T
  <2> QED
    BY <1>2, <1>3, Upwards
<1> QED
  BY <1>1, <1>4

\* It is the only one.
LEMMA JoinUnique ==
  ASSUME NEW t, NEW m \in Nat, NEW j, IsJoin(t, m, j), NEW n \in Nat, NEW g, IsJoin(t, n, g),
         NEW k \in Nat, k <= m, k <= n
  PROVE  j[k] = g[k]
<1> DEFINE T == {i \in Nat : j[i] = g[i]}
<1>1. /\ \A i \in 0 .. m : j[i] = IF i = 0 THEN << >> ELSE j[i - 1] \o Glue(i) \o t[i]
      /\ \A i \in 0 .. n : g[i] = IF i = 0 THEN << >> ELSE g[i - 1] \o Glue(i) \o t[i]
  BY DEF IsJoin
<1>2. 0 \in T
  BY <1>1
<1>3. ASSUME NEW i \in Nat, i < k, i \in T PROVE i + 1 \in T
  <2>1. i + 1 \in 0 .. m /\ i + 1 \in 0 .. n /\ (i + 1) - 1 = i /\ i + 1 # 0
    BY <1>3
  <2>2. /\ j[i + 1] = j[i] \o Glue(i + 1) \o t[i + 1]
        /\ g[i + 1] = g[i] \o Glue(i + 1) \o t[i + 1]
    BY <1>1, <2>1
  <2>3. j[i] = g[i]
    BY <1>3
  <2>4. j[i + 1] = g[i + 1]
    BY <2>2, <2>3
  <2> QED
    BY <2>1, <2>4
<1>4. k \in T
  <2>1. k \in 0 .. k
    OBVIOUS
  <2> HIDE DEF T
  <2> QED
    BY <1>2, <1>3, <2>1, Upwards
<1> QED
  BY <1>4

\* The file of a text, as the specification of ed has it.
LEMMA JoinIs ==
  ASSUME NEW t, Len(t) \in Nat, NEW j, IsJoin(t, Len(t), j)
  PROVE  Abstract!Join(t) = j[Len(t)]
<1> DEFINE m == Len(t)
           F == CHOOSE f : f = [n \in 0 .. m |->
                  IF n = 0 THEN << >>
                  ELSE f[n - 1] \o (IF n = 1 THEN << >> ELSE <<Newline>>) \o t[n]]
<1>1. j = [n \in 0 .. m |->
             IF n = 0 THEN << >>
             ELSE j[n - 1] \o (IF n = 1 THEN << >> ELSE <<Newline>>) \o t[n]]
  BY DEF IsJoin, Glue
<1>2. F = [n \in 0 .. m |->
             IF n = 0 THEN << >>
             ELSE F[n - 1] \o (IF n = 1 THEN << >> ELSE <<Newline>>) \o t[n]]
  BY <1>1
<1>3. Abstract!Join(t) = F[m]
  BY DEF Abstract!Join
<1> HIDE DEF F
<1>4. IsJoin(t, m, F)
  BY <1>2 DEF IsJoin, Glue
<1>5. m \in Nat /\ m <= m
  OBVIOUS
<1>6. F[m] = j[m]
  <2> HIDE DEF m
  <2> QED
    BY <1>4, <1>5, JoinUnique DEF m
<1> QED
  BY <1>3, <1>6

\* A sequence, one element, and a sequence.
LEMMA Around ==
  ASSUME NEW S, NEW x \in Seq(S), NEW b \in S, NEW z \in Seq(S), NEW v,
         v = x \o <<b>> \o z
  PROVE  /\ v \in Seq(S) /\ Len(v) = Len(x) + 1 + Len(z)
         /\ \A i \in 1 .. Len(x) : v[i] = x[i]
         /\ v[Len(x) + 1] = b
         /\ \A i \in 1 .. Len(z) : v[Len(x) + 1 + i] = z[i]
<1> DEFINE y == x \o <<b>>
<1>1. /\ y \in Seq(S) /\ Len(y) = Len(x) + 1 /\ Len(x) \in Nat /\ Len(z) \in Nat
      /\ \A i \in 1 .. Len(x) : y[i] = x[i]
      /\ y[Len(x) + 1] = b
  OBVIOUS
<1> HIDE DEF y
<1>2. /\ v \in Seq(S) /\ Len(v) = Len(y) + Len(z)
      /\ \A i \in 1 .. Len(y) : v[i] = y[i]
      /\ \A i \in 1 .. Len(z) : v[Len(y) + i] = z[i]
  <2>1. v = y \o z
    BY DEF y
  <2> QED
    BY <1>1, <2>1
<1>3. Len(x) + 1 \in 1 .. Len(y) /\ \A i \in 1 .. Len(x) : i \in 1 .. Len(y)
  BY <1>1
<1>4. v \in Seq(S) /\ Len(v) = Len(x) + 1 + Len(z)
  BY <1>1, <1>2
<1>5. \A i \in 1 .. Len(x) : v[i] = x[i]
  BY <1>1, <1>2, <1>3
<1>6. v[Len(x) + 1] = b
  BY <1>1, <1>2, <1>3
<1>7. \A i \in 1 .. Len(z) : v[Len(x) + 1 + i] = z[i]
  BY <1>1, <1>2
<1> QED
  BY <1>4, <1>5, <1>6, <1>7

\* A string up to a position, the position itself, and what follows it.
LEMMA ThreeParts ==
  ASSUME NEW s \in Seq(Byte), NEW e \in Nat, NEW f \in Nat, 1 <= e, e < f, f <= Len(s) + 1
  PROVE  SubSeq(s, 1, e - 1) \o <<s[e]>> \o SubSeq(s, e + 1, f - 1) = SubSeq(s, 1, f - 1)
<1> DEFINE x == SubSeq(s, 1, e - 1)
           z == SubSeq(s, e + 1, f - 1)
           w == SubSeq(s, 1, f - 1)
<1>1. /\ Len(s) \in Nat /\ e - 1 \in Int /\ f - 1 \in Int /\ e + 1 \in Int /\ 1 \in Int
      /\ \A i \in 1 .. Len(s) : s[i] \in Byte
      /\ \A i \in 1 .. e - 1 : i \in 1 .. Len(s)
      /\ \A i \in e + 1 .. f - 1 : i \in 1 .. Len(s)
      /\ \A i \in 1 .. f - 1 : i \in 1 .. Len(s)
      /\ e \in 1 .. Len(s)
  OBVIOUS
<1>2. /\ x \in Seq(Byte) /\ Len(x) = IF 1 <= e - 1 THEN (e - 1) - 1 + 1 ELSE 0
      /\ \A i \in 1 .. (e - 1) - 1 + 1 : x[i] = s[1 + i - 1]
  BY <1>1, SubSeqProperties
<1>3. /\ z \in Seq(Byte)
      /\ Len(z) = IF e + 1 <= f - 1 THEN (f - 1) - (e + 1) + 1 ELSE 0
      /\ \A i \in 1 .. (f - 1) - (e + 1) + 1 : z[i] = s[e + 1 + i - 1]
  BY <1>1, SubSeqProperties
<1>4. /\ w \in Seq(Byte) /\ Len(w) = IF 1 <= f - 1 THEN (f - 1) - 1 + 1 ELSE 0
      /\ \A i \in 1 .. (f - 1) - 1 + 1 : w[i] = s[1 + i - 1]
  BY <1>1, SubSeqProperties
<1> HIDE DEF x, z, w
<1>5. Len(x) = e - 1 /\ \A i \in 1 .. e - 1 : x[i] = s[i]
  BY <1>2
<1>6. Len(z) = f - e - 1 /\ \A i \in 1 .. f - e - 1 : z[i] = s[e + i]
  BY <1>3
<1>7. Len(w) = f - 1 /\ \A i \in 1 .. f - 1 : w[i] = s[i]
  BY <1>4
<1>8. s[e] \in Byte
  BY <1>1
<1>9. PICK v : v = x \o <<s[e]>> \o z
  OBVIOUS
<1>10. /\ v \in Seq(Byte) /\ Len(v) = Len(x) + 1 + Len(z)
       /\ \A i \in 1 .. Len(x) : v[i] = x[i]
       /\ v[Len(x) + 1] = s[e]
       /\ \A i \in 1 .. Len(z) : v[Len(x) + 1 + i] = z[i]
  <2>1. /\ x \in Seq(Byte) /\ z \in Seq(Byte) /\ s[e] \in Byte /\ v = x \o <<s[e]>> \o z
    BY <1>2, <1>3, <1>8, <1>9
  <2> QED
    BY ONLY <2>1, Around
<1>11. Len(v) = f - 1 /\ \A i \in 1 .. f - 1 : v[i] = s[i]
  <2>1. ASSUME NEW i \in 1 .. f - 1, i < e PROVE v[i] = s[i]
    <3>1. i \in 1 .. e - 1
      BY <2>1
    <3> QED
      BY <1>5, <1>10, <3>1
  <2>2. v[e] = s[e]
    <3>1. Len(x) + 1 = e
      BY <1>5
    <3> QED
      BY <1>10, <3>1
  <2>3. ASSUME NEW i \in 1 .. f - 1, e < i PROVE v[i] = s[i]
    <3>1. i - e \in 1 .. f - e - 1 /\ e + (i - e) = i /\ Len(x) + 1 + (i - e) = i
      BY <1>5, <2>3
    <3>2. z[i - e] = s[i] /\ i - e \in 1 .. Len(z)
      BY <1>6, <3>1
    <3>3. v[i] = z[i - e]
      BY <1>10, <3>1, <3>2
    <3> QED
      BY <3>2, <3>3
  <2>4. \A i \in 1 .. f - 1 : i < e \/ i = e \/ e < i
    OBVIOUS
  <2>5. Len(v) = f - 1
    BY <1>5, <1>6, <1>10
  <2> QED
    BY <2>1, <2>2, <2>3, <2>4, <2>5
<1>12. v = w
  <2>1. Len(v) = Len(w) /\ \A i \in 1 .. Len(v) : v[i] = w[i]
    BY <1>7, <1>10, <1>11
  <2> QED
    BY <1>4, <1>10, <2>1, SeqEqual
<1> QED
  BY <1>12, <1>9 DEF x, z, w

\* Cutting a string into lines and putting them together again gives the string.
LEMMA JoinOfPieces ==
  ASSUME NEW s \in Seq(Byte), \A p \in DOMAIN s : s[p] # Nul
  PROVE  Abstract!Join(Pieces(s)) = s
<1> DEFINE K == Cardinality(Ends(s))
           t == Pieces(s)
<1>1. K \in Nat /\ K >= 1 /\ Len(s) \in Nat
  BY EndsFacts
<1>2. /\ t \in Seq(Seq(Letter)) /\ Len(t) = K
      /\ \A n \in 1 .. K : t[n] = SubSeq(s, StartOf(s, n), End(s, n) - 1)
  BY PiecesFacts
<1>3. \A n \in 1 .. K : t[n] \in Seq(Byte)
  <2>1. \A n \in 1 .. K : t[n] \in Seq(Letter)
    BY <1>2
  <2> QED
    BY <2>1 DEF Byte
<1>4. PICK j : IsJoin(t, K, j)
  BY <1>1, JoinExists
<1>5. j[0] = << >> /\ \A k \in 1 .. K : j[k] = j[k - 1] \o Glue(k) \o t[k]
  <2> HIDE DEF K, t
  <2> QED
    BY <1>1, <1>3, <1>4, JoinFacts
<1>6. /\ \A n \in 1 .. K : /\ End(s, n) \in Ends(s) /\ End(s, n) \in Nat
                           /\ 1 <= End(s, n) /\ End(s, n) <= Len(s) + 1
      /\ \A n \in 1 .. K : n + 1 \in 1 .. K => End(s, n) < End(s, n + 1)
  BY EndFacts, EndsFacts
<1> HIDE DEF K, t
<1> DEFINE T == {n \in Nat : n # 0 => j[n] = SubSeq(s, 1, End(s, n) - 1)}
<1>7. 0 \in T
  OBVIOUS
<1>8. ASSUME NEW n \in Nat, n < K, n \in T PROVE n + 1 \in T
  <2>1. n + 1 \in 1 .. K /\ (n + 1) - 1 = n /\ n + 1 # 0
    BY <1>1, <1>8
  <2>2. /\ j[n + 1] = j[n] \o Glue(n + 1) \o t[n + 1]
        /\ t[n + 1] = SubSeq(s, StartOf(s, n + 1), End(s, n + 1) - 1)
    BY <1>2, <1>5, <2>1
  <2>3. CASE n = 0
    <3>1. /\ n + 1 = 1 /\ Glue(n + 1) = << >> /\ StartOf(s, n + 1) = 1 /\ j[n] = << >>
      BY <1>5, <2>3 DEF Glue, StartOf
    <3>2. t[n + 1] \in Seq(Byte)
      BY <1>3, <2>1
    <3>3. << >> \o << >> \o t[n + 1] = t[n + 1]
      BY <3>2
    <3>4. j[n + 1] = SubSeq(s, 1, End(s, n + 1) - 1)
      BY <2>2, <3>1, <3>3
    <3> QED
      BY <2>1, <3>4
  <2>4. CASE n # 0
    <3>1. n \in 1 .. K /\ n + 1 # 1
      BY <1>1, <1>8, <2>4
    <3>2. Glue(n + 1) = <<Newline>> /\ StartOf(s, n + 1) = End(s, n) + 1
      BY <2>1, <3>1 DEF Glue, StartOf
    <3>3. PICK e \in Nat : e = End(s, n)
      BY <1>6, <3>1
    <3>4. PICK f \in Nat : f = End(s, n + 1)
      BY <1>6, <2>1
    <3>5. 1 <= e /\ e < f /\ f <= Len(s) + 1 /\ e \in Ends(s)
      BY <1>6, <2>1, <3>1, <3>3, <3>4
    <3>6. s[e] = Newline
      <4>1. e \in 1 .. Len(s)
        BY <1>1, <3>5
      <4> QED
        BY <3>5, <4>1, EndsFacts
    <3>7. SubSeq(s, 1, e - 1) \o <<s[e]>> \o SubSeq(s, e + 1, f - 1) = SubSeq(s, 1, f - 1)
      BY <3>5, ThreeParts
    <3>8. j[n] = SubSeq(s, 1, e - 1)
      BY <1>8, <2>4, <3>3
    <3>9. j[n + 1] = SubSeq(s, 1, f - 1)
      BY <2>2, <3>2, <3>3, <3>4, <3>6, <3>7, <3>8
    <3> QED
      BY <2>1, <3>4, <3>9
  <2> QED
    BY <2>3, <2>4
<1>9. K \in T
  <2>1. K \in 0 .. K
    BY <1>1
  <2> HIDE DEF T
  <2> QED
    BY <1>1, <1>7, <1>8, <2>1, Upwards
<1>10. j[K] = s
  <2>1. End(s, K) - 1 = Len(s)
    BY <1>1, EndFacts DEF K
  <2>2. j[K] = SubSeq(s, 1, Len(s))
    BY <1>1, <1>9, <2>1
  <2> QED
    BY <2>2, SubSeqFull
<1>11. Abstract!Join(t) = j[K]
  BY <1>1, <1>2, <1>4, JoinIs
<1> QED
  BY <1>10, <1>11 DEF t

-----------------------------------------------------------------------------
(* The buffer *)

\* One line is inserted, where there is one slot more than memmove() needs
LEMMA InsertFacts ==
  ASSUME NEW ls \in Lines, NEW n \in Nat, n + 1 <= line_max - 1, NEW pos \in Nat, pos <= n,
         NEW t \in Seq(Letter), NEW b, b = [lines |-> ls, amt |-> n],
         NEW c, c = Insert(b, pos, t)
  PROVE  /\ c.amt = n + 1 /\ c.lines \in Lines
         /\ c.lines[pos] = t
         /\ \A k \in Nat : k < pos => c.lines[k] = ls[k]
         /\ \A k \in Nat : k < n /\ ~(k < pos) => c.lines[k + 1] = ls[k]
         /\ \A k \in Nat : k > n + 1 /\ k \in Slot => c.lines[k] = ls[k]
<1>1. b.lines = ls /\ b.amt = n
  OBVIOUS
<1>2. /\ c.amt = n + 1
      /\ c.lines = [k \in Slot |-> IF k = pos THEN t
                                   ELSE IF pos < k /\ k <= n + 1 THEN ls[k - 1] ELSE ls[k]]
  BY <1>1 DEF Insert
<1>3. /\ line_max \in Nat
      /\ \A k \in Nat : /\ k <= n + 1 => k \in Slot
                        /\ k < n => k \in Slot /\ k + 1 \in Slot /\ k + 1 <= n + 1
  BY NumbersAssumption DEF Slot
<1>4. \A k \in Slot : pos < k => k - 1 \in Slot
  BY NumbersAssumption DEF Slot
<1>5. c.lines \in Lines
  BY <1>2, <1>4 DEF Lines
<1>6. c.lines[pos] = t
  <2>1. pos \in Slot
    BY <1>3
  <2> QED
    BY <1>2, <2>1
<1>7. ASSUME NEW k \in Nat, k < pos PROVE c.lines[k] = ls[k]
  <2>1. k \in Slot /\ k # pos /\ ~(pos < k)
    BY <1>3, <1>7
  <2> QED
    BY <1>2, <2>1
<1>8. ASSUME NEW k \in Nat, k < n, ~(k < pos) PROVE c.lines[k + 1] = ls[k]
  <2>1. k + 1 \in Slot /\ pos < k + 1 /\ k + 1 # pos /\ k + 1 <= n + 1 /\ (k + 1) - 1 = k
    BY <1>3, <1>8
  <2> QED
    BY <1>2, <2>1
<1>9. ASSUME NEW k \in Nat, k > n + 1, k \in Slot PROVE c.lines[k] = ls[k]
  <2>1. k # pos /\ ~(k <= n + 1)
    BY <1>9
  <2> QED
    BY <1>2, <1>9, <2>1
<1> QED
  BY <1>2, <1>5, <1>6, <1>7, <1>8, <1>9

\* h[n] is the buffer behind n turns of the loop in buffer_append().
IsAppend(p, b, behind, m, h) ==
  h = [n \in 0 .. m |-> IF n = 0 THEN b ELSE Insert(h[n - 1], behind + n, p[n])]

\* There is such a function.
LEMMA AppendExists ==
  ASSUME NEW p, NEW b, NEW behind, NEW m \in Nat
  PROVE  \E h : IsAppend(p, b, behind, m, h)
<1> DEFINE T == {n \in Nat : \E h : IsAppend(p, b, behind, n, h)}
<1>1. 0 \in T
  <2>1. [k \in 0 .. 0 |-> b] =
          [k \in 0 .. 0 |-> IF k = 0 THEN b
             ELSE Insert([i \in 0 .. 0 |-> b][k - 1], behind + k, p[k])]
    OBVIOUS
  <2>2. IsAppend(p, b, behind, 0, [k \in 0 .. 0 |-> b])
    BY <2>1 DEF IsAppend
  <2> QED
    BY <2>2
<1>2. ASSUME NEW n \in Nat, n \in T PROVE n + 1 \in T
  <2>1. PICK h : IsAppend(p, b, behind, n, h)
    BY <1>2
  <2>2. PICK g : g = [k \in 0 .. n + 1 |-> IF k = 0 THEN b
                        ELSE Insert(h[k - 1], behind + k, p[k])]
    OBVIOUS
  <2>3. /\ \A k \in 0 .. n : h[k] = IF k = 0 THEN b ELSE Insert(h[k - 1], behind + k, p[k])
        /\ \A k \in 0 .. n + 1 : k # 0 => k - 1 \in 0 .. n /\ k - 1 \in 0 .. n + 1
    BY <2>1 DEF IsAppend
  <2>4. \A k \in 0 .. n : k \in 0 .. n + 1
    OBVIOUS
  <2>5. \A k \in 0 .. n : g[k] = h[k]
    BY <2>2, <2>3, <2>4
  <2>6. IsAppend(p, b, behind, n + 1, g)
    BY <2>2, <2>3, <2>5 DEF IsAppend
  <2> QED
    BY <2>6
<1> HIDE DEF T
<1>3. m \in T
  <2>1. \A k \in 0 .. m : k \in T
    BY <1>1, <1>2, Upwards
  <2> QED
    BY <2>1
<1> QED
  BY <1>3 DEF T

\* buffer_append() is the last of its turns.
LEMMA AppendIs ==
  ASSUME NEW from, NEW m \in Nat, m = Len(Pieces(from)), NEW b, NEW behind
  PROVE  \E h : IsAppend(Pieces(from), b, behind, m, h) /\ buffer_append(b, from, behind) = h[m]
<1> DEFINE p == Pieces(from)
           F == CHOOSE f : f = [n \in 0 .. Len(p) |->
                  IF n = 0 THEN b ELSE Insert(f[n - 1], behind + n, p[n])]
<1>1. PICK h : IsAppend(p, b, behind, m, h)
  BY AppendExists
<1>2. h = [n \in 0 .. Len(p) |->
             IF n = 0 THEN b ELSE Insert(h[n - 1], behind + n, p[n])]
  BY <1>1 DEF IsAppend
<1>3. F = [n \in 0 .. Len(p) |->
             IF n = 0 THEN b ELSE Insert(F[n - 1], behind + n, p[n])]
  <2> HIDE DEF p
  <2> QED
    BY <1>2
<1>4. buffer_append(b, from, behind) = F[Len(p)]
  BY DEF buffer_append
<1> HIDE DEF F
<1>5. IsAppend(p, b, behind, m, F)
  BY <1>3 DEF IsAppend
<1> QED
  BY <1>4, <1>5

\* A line that is typed is inserted.
LEMMA AppendOne ==
  ASSUME NEW t \in Seq(Letter), NEW b, NEW behind \in Int
  PROVE  buffer_append(b, t, behind) = Insert(b, behind + 1, t)
<1>1. Pieces(t) = <<t>> /\ Len(Pieces(t)) = 1
  BY OnePiece
<1>2. PICK h : IsAppend(Pieces(t), b, behind, 1, h) /\ buffer_append(b, t, behind) = h[1]
  <2>1. 1 \in Nat /\ 1 = Len(Pieces(t))
    BY <1>1
  <2>2. \A m \in Nat : m = Len(Pieces(t)) =>
          \E h : IsAppend(Pieces(t), b, behind, m, h) /\ buffer_append(b, t, behind) = h[m]
    BY AppendIs
  <2> QED
    BY <2>1, <2>2
<1>3. 0 \in 0 .. 1 /\ 1 \in 0 .. 1 /\ 1 # 0 /\ 1 - 1 = 0 /\ <<t>>[1] = t
  OBVIOUS
<1>4. h[0] = b /\ h[1] = Insert(h[0], behind + 1, t)
  BY <1>1, <1>2, <1>3 DEF IsAppend
<1> QED
  BY <1>2, <1>4

\* The first n lines of p, and nothing behind them.
Loaded(p, n) == [lines |-> [k \in Slot |-> IF k < n THEN p[k + 1] ELSE NoLine], amt |-> n]

\* A file is read one line behind the other, as far as there are slots.
LEMMA AppendAll ==
  ASSUME NEW from, NEW m \in Nat, m = Len(Pieces(from)), m < line_max,
         \A n \in 1 .. m : Pieces(from)[n] \in Seq(Letter)
  PROVE  buffer_append(NoBuffer, from, -1) = Loaded(Pieces(from), m)
<1> DEFINE p == Pieces(from)
<1>1. PICK h : IsAppend(p, NoBuffer, -1, m, h) /\ buffer_append(NoBuffer, from, -1) = h[m]
  BY AppendIs
<1>2. \A n \in 1 .. m : p[n] \in Seq(Letter)
  OBVIOUS
<1> HIDE DEF p
<1> DEFINE T == {n \in Nat : h[n] = Loaded(p, n)}
<1>3. 0 \in T
  <2>1. \A k \in Slot : ~(k < 0)
    BY NumbersAssumption DEF Slot
  <2>2. NoBuffer = Loaded(p, 0)
    BY <2>1 DEF NoBuffer, Loaded
  <2>3. 0 \in 0 .. m
    OBVIOUS
  <2>4. h[0] = NoBuffer
    BY <1>1, <2>3 DEF IsAppend
  <2> QED
    BY <2>2, <2>4
<1>4. ASSUME NEW n \in Nat, n < m, n \in T PROVE n + 1 \in T
  <2>1. n + 1 \in 0 .. m /\ n + 1 \in 1 .. m /\ n + 1 # 0 /\ (n + 1) - 1 = n /\ -1 + (n + 1) = n
    BY <1>4
  <2>2. h[n + 1] = Insert(Loaded(p, n), n, p[n + 1])
    <3>1. h[n] = Loaded(p, n)
      BY <1>4
    <3>2. h[n + 1] = Insert(h[n], -1 + (n + 1), p[n + 1])
      BY <1>1, <2>1 DEF IsAppend
    <3> QED
      BY <2>1, <3>1, <3>2
  <2>3. \A k \in Slot :
          (IF k = n THEN p[n + 1]
           ELSE IF n < k /\ k <= n + 1 THEN (IF k - 1 < n THEN p[(k - 1) + 1] ELSE NoLine)
           ELSE IF k < n THEN p[k + 1] ELSE NoLine)
          = IF k < n + 1 THEN p[k + 1] ELSE NoLine
    <3>1. \A k \in Slot : k \in Int
      BY NumbersAssumption DEF Slot
    <3> QED
      BY <3>1
  <2>4. \A k \in Slot : n < k => k - 1 \in Slot
    BY NumbersAssumption DEF Slot
  <2>5. Insert(Loaded(p, n), n, p[n + 1]) = Loaded(p, n + 1)
    BY <2>3, <2>4 DEF Insert, Loaded
  <2> QED
    BY <2>2, <2>5
<1>5. m \in T
  <2>1. m \in 0 .. m
    OBVIOUS
  <2> HIDE DEF T
  <2> QED
    BY <1>3, <1>4, <2>1, Upwards
<1> QED
  BY <1>1, <1>5 DEF p

-----------------------------------------------------------------------------
(* The text in the buffer, and in the file *)

\* The text is made of the lines of the array.
LEMMA TextFacts ==
  ASSUME NEW ls \in Lines, NEW n \in Nat, n <= line_max, Filled(ls, n)
  PROVE  /\ TextOf(ls, n) \in Seq(Seq(Letter)) /\ Len(TextOf(ls, n)) = n
         /\ \A k \in 1 .. n : TextOf(ls, n)[k] = ls[k - 1] /\ ls[k - 1] \in Seq(Letter)
         /\ \A k \in 1 .. n : TextOf(ls, n)[k] \in Seq(Byte)
<1>1. ASSUME NEW k \in 1 .. n PROVE ls[k - 1] \in Seq(Letter)
  <2>1. k - 1 \in Nat /\ k - 1 < n /\ k - 1 \in Slot
    BY NumbersAssumption DEF Slot
  <2> QED
    BY <2>1 DEF Lines, Filled
<1>2. TextOf(ls, n) \in [1 .. n -> Seq(Letter)]
  BY <1>1 DEF TextOf
<1>3. TextOf(ls, n) \in Seq(Seq(Letter)) /\ Len(TextOf(ls, n)) = n
  BY <1>2
<1>4. \A k \in 1 .. n : TextOf(ls, n)[k] = ls[k - 1]
  BY DEF TextOf
<1>5. \A x \in Seq(Letter) : x \in Seq(Byte)
  BY DEF Byte
<1> QED
  BY <1>1, <1>3, <1>4, <1>5

\* What Insert does to the text.
LEMMA InsertedText ==
  ASSUME NEW ls \in Lines, NEW n \in Nat, n + 1 <= line_max - 1, NEW pos \in Nat, pos <= n,
         NEW t \in Seq(Letter), Filled(ls, n), NEW old, old = TextOf(ls, n),
         NEW b, b = [lines |-> ls, amt |-> n], NEW c, c = Insert(b, pos, t)
  PROVE  /\ Filled(c.lines, n + 1)
         /\ TextOf(c.lines, n + 1) = Put(old, pos, t, n)
<1>1. /\ c.lines \in Lines /\ c.lines[pos] = t
      /\ \A k \in Nat : k < pos => c.lines[k] = ls[k]
      /\ \A k \in Nat : k < n /\ ~(k < pos) => c.lines[k + 1] = ls[k]
  BY InsertFacts
<1>2. Filled(c.lines, n + 1)
  <2>1. t # NoLine
    BY TextsAssumption
  <2>2. ASSUME NEW k \in Nat, k < n + 1 PROVE c.lines[k] # NoLine
    <3>1. CASE k < pos
      <4>1. k < n
        BY <3>1
      <4> QED
        BY <1>1, <3>1, <4>1 DEF Filled
    <3>2. CASE k = pos
      BY <1>1, <2>1, <3>2
    <3>3. CASE pos < k
      <4>1. k - 1 \in Nat /\ k - 1 < n /\ ~(k - 1 < pos) /\ (k - 1) + 1 = k
        BY <2>2, <3>3
      <4>2. c.lines[k] = ls[k - 1]
        BY <1>1, <4>1
      <4> QED
        BY <4>1, <4>2 DEF Filled
    <3> QED
      BY <3>1, <3>2, <3>3
  <2> QED
    BY <2>2 DEF Filled
<1>3. n <= line_max /\ n + 1 <= line_max /\ n + 1 \in Nat
  BY NumbersAssumption
<1>4. /\ old \in Seq(Seq(Letter)) /\ Len(old) = n
      /\ \A k \in 1 .. n : old[k] = ls[k - 1] /\ old[k] \in Seq(Letter)
  <2>1. /\ old \in Seq(Seq(Letter)) /\ Len(old) = n
        /\ \A k \in 1 .. n : old[k] = ls[k - 1] /\ ls[k - 1] \in Seq(Letter)
    BY <1>3, TextFacts
  <2> QED
    BY <2>1
<1> DEFINE new == TextOf(c.lines, n + 1)
<1>5. /\ new \in Seq(Seq(Letter)) /\ Len(new) = n + 1
      /\ \A k \in 1 .. n + 1 : new[k] = c.lines[k - 1]
  BY <1>1, <1>2, <1>3, TextFacts
<1>6. PICK x : x = SubSeq(old, 1, pos)
  OBVIOUS
<1>7. PICK z : z = SubSeq(old, pos + 1, n)
  OBVIOUS
<1>8. /\ 1 \in Int /\ pos \in Int /\ pos + 1 \in Int /\ n \in Int
      /\ \A i \in 1 .. pos : i \in 1 .. n
      /\ \A i \in pos + 1 .. n : i \in 1 .. n
  OBVIOUS
<1>9. x \in Seq(Seq(Letter)) /\ Len(x) = pos /\ \A i \in 1 .. pos : x[i] = old[i]
  <2>1. /\ x \in Seq(Seq(Letter)) /\ Len(x) = IF 1 <= pos THEN pos - 1 + 1 ELSE 0
        /\ \A i \in 1 .. pos - 1 + 1 : x[i] = old[1 + i - 1]
    BY <1>4, <1>6, <1>8, SubSeqProperties
  <2> QED
    BY <2>1
<1>10. z \in Seq(Seq(Letter)) /\ Len(z) = n - pos /\ \A i \in 1 .. n - pos : z[i] = old[pos + i]
  <2>1. /\ z \in Seq(Seq(Letter)) /\ Len(z) = IF pos + 1 <= n THEN n - (pos + 1) + 1 ELSE 0
        /\ \A i \in 1 .. n - (pos + 1) + 1 : z[i] = old[pos + 1 + i - 1]
    BY <1>4, <1>7, <1>8, SubSeqProperties
  <2> QED
    BY <2>1
<1>11. PICK v : v = x \o <<t>> \o z
  OBVIOUS
<1>12. /\ v \in Seq(Seq(Letter)) /\ Len(v) = Len(x) + 1 + Len(z)
       /\ \A i \in 1 .. Len(x) : v[i] = x[i]
       /\ v[Len(x) + 1] = t
       /\ \A i \in 1 .. Len(z) : v[Len(x) + 1 + i] = z[i]
  <2>1. x \in Seq(Seq(Letter)) /\ z \in Seq(Seq(Letter)) /\ t \in Seq(Letter)
    BY <1>9, <1>10
  <2> QED
    BY ONLY <1>11, <2>1, Around
<1> HIDE DEF new
<1>13. Len(v) = n + 1
  BY <1>9, <1>10, <1>12
<1>14. ASSUME NEW i \in 1 .. n + 1 PROVE v[i] = new[i]
  <2>1. new[i] = c.lines[i - 1] /\ i \in Nat
    BY <1>5
  <2>2. CASE i <= pos
    <3>1. i \in 1 .. Len(x) /\ i \in 1 .. n /\ i - 1 \in Nat /\ i - 1 < pos
      BY <1>9, <2>2
    <3>2. v[i] = x[i] /\ x[i] = old[i]
      BY <1>9, <1>12, <3>1
    <3>3. old[i] = ls[i - 1]
      BY <1>4, <3>1
    <3>4. c.lines[i - 1] = ls[i - 1]
      BY <1>1, <3>1
    <3> QED
      BY <2>1, <3>2, <3>3, <3>4
  <2>3. CASE i = pos + 1
    <3>1. i = Len(x) + 1 /\ i - 1 = pos
      BY <1>9, <2>3
    <3> QED
      BY <1>1, <1>12, <2>1, <3>1
  <2>4. CASE pos + 1 < i
    <3>1. PICK k \in Nat : k = i - 2
      BY <2>1, <2>4
    <3>2. k < n /\ ~(k < pos) /\ k + 1 = i - 1 /\ k + 1 \in 1 .. n /\ (k + 1) - 1 = k
      BY <2>4, <3>1
    <3>3. /\ k + 1 - pos \in 1 .. Len(z) /\ Len(x) + 1 + (k + 1 - pos) = i
          /\ pos + (k + 1 - pos) = k + 1 /\ k + 1 - pos \in 1 .. n - pos
      BY <1>9, <1>10, <2>4, <3>1, <3>2
    <3>4. v[i] = old[k + 1]
      BY <1>10, <1>12, <3>3
    <3>5. old[k + 1] = ls[k]
      BY <1>4, <3>2
    <3>6. c.lines[i - 1] = ls[k]
      BY <1>1, <3>2
    <3> QED
      BY <2>1, <3>4, <3>5, <3>6
  <2> QED
    BY <2>1, <2>2, <2>3, <2>4
<1>15. v = new
  <2>1. Len(v) = Len(new) /\ \A i \in 1 .. Len(v) : v[i] = new[i]
    BY <1>5, <1>13, <1>14
  <2> QED
    BY <1>5, <1>12, <2>1, SeqEqual
<1> QED
  BY <1>2, <1>6, <1>7, <1>11, <1>15 DEF new, Put

\* The file of a text.
LEMMA JoinType ==
  ASSUME NEW n \in Nat, NEW t, Len(t) = n, \A k \in 1 .. n : t[k] \in Seq(Byte)
  PROVE  Abstract!Join(t) \in Seq(Byte)
<1>1. PICK j : IsJoin(t, n, j)
  BY JoinExists
<1>2. n \in 0 .. n
  OBVIOUS
<1>3. j[n] \in Seq(Byte)
  BY <1>1, <1>2, JoinFacts
<1> QED
  BY <1>1, <1>3, JoinIs

\* Sums of lengths.
LEMMA Sums ==
  /\ \A a, b, c, d, f \in Nat : a <= d /\ b <= f => a + b + c <= d + f + c
  /\ \A a, b, c \in Nat : a <= a + b + c
OBVIOUS

\* One more line never makes the file shorter.
LEMMA JoinGrows ==
  ASSUME NEW n \in Nat, NEW t, Len(t) = n, \A k \in 1 .. n : t[k] \in Seq(Byte),
         NEW v, Len(v) = n + 1, \A k \in 1 .. n + 1 : v[k] \in Seq(Byte),
         NEW pos \in Nat, pos <= n,
         \A k \in 1 .. pos : v[k] = t[k],
         \A k \in 1 .. n : pos < k => v[k + 1] = t[k]
  PROVE  Len(Abstract!Join(t)) <= Len(Abstract!Join(v))
<1>1. PICK j : IsJoin(t, n, j)
  BY JoinExists
<1>2. PICK g : IsJoin(v, n + 1, g)
  <2>1. n + 1 \in Nat
    OBVIOUS
  <2> QED
    BY <2>1, JoinExists
<1>3. /\ \A k \in 0 .. n : j[k] \in Seq(Byte)
      /\ j[0] = << >>
      /\ \A k \in 1 .. n : j[k] = j[k - 1] \o Glue(k) \o t[k]
  BY <1>1, JoinFacts
<1>4. /\ \A k \in 0 .. n + 1 : g[k] \in Seq(Byte)
      /\ g[0] = << >>
      /\ \A k \in 1 .. n + 1 : g[k] = g[k - 1] \o Glue(k) \o v[k]
  <2>1. n + 1 \in Nat
    OBVIOUS
  <2> QED
    BY <1>2, <2>1, JoinFacts
<1>5. \A x, y, z \in Seq(Byte) : Len(x \o y \o z) = Len(x) + Len(y) + Len(z)
  OBVIOUS
<1>6. \A x \in Seq(Byte) : Len(x) \in Nat
  OBVIOUS
<1>7. \A k \in Nat : Glue(k) \in Seq(Byte) /\ Len(Glue(k)) <= 1 /\ (k # 1 => Len(Glue(k)) = 1)
  BY BytesTogether DEF Glue
<1> DEFINE T == {k \in Nat : k <= pos => g[k] = j[k]}
           U == {k \in Nat : k <= n /\ ~(k < pos) => Len(j[k]) <= Len(g[k + 1])}
<1>8. \A k \in 0 .. pos : k \in T
  <2>1. 0 \in T
    BY <1>3, <1>4
  <2>2. ASSUME NEW k \in Nat, k < pos, k \in T PROVE k + 1 \in T
    <3>1. k + 1 \in 1 .. n /\ k + 1 \in 1 .. n + 1 /\ k + 1 \in 1 .. pos /\ (k + 1) - 1 = k
      BY <2>2
    <3>2. g[k] = j[k]
      BY <2>2
    <3>3. g[k + 1] = g[k] \o Glue(k + 1) \o v[k + 1]
      BY <1>4, <3>1
    <3>4. j[k + 1] = j[k] \o Glue(k + 1) \o t[k + 1]
      BY <1>3, <3>1
    <3>5. v[k + 1] = t[k + 1]
      BY <3>1
    <3>6. g[k + 1] = j[k + 1]
      BY <3>2, <3>3, <3>4, <3>5
    <3> QED
      BY <3>1, <3>6
  <2> HIDE DEF T
  <2> QED
    BY <2>1, <2>2, Upwards
<1>9. Len(j[pos]) <= Len(g[pos + 1])
  <2>1. /\ pos \in 0 .. pos /\ pos \in 0 .. n /\ pos + 1 \in 1 .. n + 1 /\ (pos + 1) - 1 = pos
        /\ pos \in 0 .. n + 1 /\ pos + 1 \in Nat
    OBVIOUS
  <2>2. g[pos] = j[pos]
    BY <1>8, <2>1
  <2>3. g[pos + 1] = g[pos] \o Glue(pos + 1) \o v[pos + 1]
    BY <1>4, <2>1
  <2>4. v[pos + 1] \in Seq(Byte) /\ g[pos] \in Seq(Byte) /\ Glue(pos + 1) \in Seq(Byte)
    BY <1>4, <1>7, <2>1
  <2>5. Len(g[pos + 1]) = Len(g[pos]) + Len(Glue(pos + 1)) + Len(v[pos + 1])
    BY <1>5, <2>3, <2>4
  <2>6. Len(g[pos]) \in Nat /\ Len(Glue(pos + 1)) \in Nat /\ Len(v[pos + 1]) \in Nat
    BY <1>6, <2>4
  <2>7. Len(g[pos]) <= Len(g[pos + 1])
    BY <2>5, <2>6, Sums
  <2> QED
    BY <2>2, <2>7
<1>10. \A k \in 0 .. n : k \in U
  <2>1. 0 \in U
    <3>1. ~(0 < pos) => pos = 0
      OBVIOUS
    <3> QED
      BY <1>9, <3>1
  <2>2. ASSUME NEW k \in Nat, k < n, k \in U PROVE k + 1 \in U
    <3>1. CASE k + 1 < pos
      BY <3>1
    <3>2. CASE k + 1 = pos
      BY <1>9, <3>2
    <3>3. CASE pos < k + 1
      <4>1. /\ k + 1 \in 1 .. n /\ (k + 1) - 1 = k /\ k \in 0 .. n /\ k + 1 \in Nat
            /\ k + 2 \in 1 .. n + 1 /\ (k + 2) - 1 = k + 1 /\ k + 2 # 1 /\ k + 2 \in Nat
            /\ k + 1 \in 0 .. n + 1 /\ (k + 1) + 1 = k + 2 /\ ~(k < pos) /\ k <= n
        BY <2>2, <3>3
      <4>2. j[k + 1] = j[k] \o Glue(k + 1) \o t[k + 1]
        BY <1>3, <4>1
      <4>3. g[k + 2] = g[k + 1] \o Glue(k + 2) \o v[k + 2]
        BY <1>4, <4>1
      <4>4. v[k + 2] = t[k + 1]
        BY <3>3, <4>1
      <4>5. /\ j[k] \in Seq(Byte) /\ t[k + 1] \in Seq(Byte) /\ g[k + 1] \in Seq(Byte)
            /\ Glue(k + 1) \in Seq(Byte) /\ Glue(k + 2) \in Seq(Byte) /\ v[k + 2] \in Seq(Byte)
        BY <1>3, <1>4, <1>7, <4>1
      <4>6. /\ Len(j[k + 1]) = Len(j[k]) + Len(Glue(k + 1)) + Len(t[k + 1])
            /\ Len(g[k + 2]) = Len(g[k + 1]) + Len(Glue(k + 2)) + Len(t[k + 1])
        BY <1>5, <4>2, <4>3, <4>4, <4>5
      <4>7. Len(j[k]) <= Len(g[k + 1])
        BY <2>2, <4>1
      <4>8. Len(Glue(k + 1)) <= Len(Glue(k + 2))
        BY <1>7, <4>1
      <4>9. Len(j[k + 1]) <= Len(g[k + 2])
        <5>1. /\ Len(j[k]) \in Nat /\ Len(t[k + 1]) \in Nat /\ Len(g[k + 1]) \in Nat
              /\ Len(Glue(k + 1)) \in Nat /\ Len(Glue(k + 2)) \in Nat
          BY <1>6, <4>5
        <5>2. Len(j[k]) + Len(Glue(k + 1)) + Len(t[k + 1])
                <= Len(g[k + 1]) + Len(Glue(k + 2)) + Len(t[k + 1])
          BY <4>7, <4>8, <5>1, Sums
        <5> QED
          BY <4>6, <5>2
      <4> QED
        BY <4>1, <4>9
    <3> QED
      BY <3>1, <3>2, <3>3
  <2> HIDE DEF U
  <2> QED
    BY <2>1, <2>2, Upwards
<1>11. Len(j[n]) <= Len(g[n + 1])
  <2>1. n \in 0 .. n /\ n <= n /\ ~(n < pos)
    OBVIOUS
  <2> QED
    BY <1>10, <2>1
<1>12. Abstract!Join(t) = j[n]
  BY <1>1, JoinIs
<1>13. Abstract!Join(v) = g[n + 1]
  <2>1. Len(v) \in Nat /\ IsJoin(v, Len(v), g)
    BY <1>2
  <2> QED
    BY <2>1, JoinIs
<1> QED
  BY <1>11, <1>12, <1>13

\* What the command w writes is the text.
LEMMA WrittenIs ==
  ASSUME NEW n \in Nat, n <= line_max, lines \in Lines, Filled(lines, n)
  PROVE  Written(n) = Abstract!Join(TextOf(lines, n)) /\ Written(n) \in Seq(Byte)
<1> DEFINE t == TextOf(lines, n)
           F == CHOOSE f : f = [k \in 0 .. n |->
                  IF k = 0 THEN << >>
                  ELSE f[k - 1] \o (IF k = 1 THEN << >> ELSE <<Newline>>) \o lines[k - 1]]
<1>1. PICK j : IsJoin(t, n, j)
  BY JoinExists
<1>2. /\ Len(t) = n /\ \A k \in 1 .. n : t[k] = lines[k - 1]
      /\ \A k \in 1 .. n : t[k] \in Seq(Byte)
  BY TextFacts
<1> HIDE DEF t
<1>3. \A k \in 0 .. n : k # 0 => t[k] = lines[k - 1]
  <2>1. \A k \in 0 .. n : k # 0 => k \in 1 .. n
    OBVIOUS
  <2> QED
    BY <1>2, <2>1
<1>4. j = [k \in 0 .. n |->
             IF k = 0 THEN << >>
             ELSE j[k - 1] \o (IF k = 1 THEN << >> ELSE <<Newline>>) \o lines[k - 1]]
  BY <1>1, <1>3 DEF IsJoin, Glue
<1>5. F = [k \in 0 .. n |->
             IF k = 0 THEN << >>
             ELSE F[k - 1] \o (IF k = 1 THEN << >> ELSE <<Newline>>) \o lines[k - 1]]
  BY <1>4
<1>6. Written(n) = F[n]
  BY DEF Written
<1> HIDE DEF F
<1>7. IsJoin(t, n, F)
  BY <1>3, <1>5 DEF IsJoin, Glue
<1>8. Abstract!Join(t) = F[n]
  BY <1>2, <1>7, JoinIs
<1>9. Abstract!Join(t) \in Seq(Byte)
  BY <1>2, JoinType
<1> QED
  BY <1>6, <1>8, <1>9 DEF t

\* Writing over a file from its start.
LEMMA OverlayFacts ==
  ASSUME NEW old \in Seq(Byte), NEW new \in Seq(Byte)
  PROVE  /\ Overlay(old, new) \in Seq(Byte)
         /\ Len(old) <= Len(new) => Overlay(old, new) = new
<1>1. PICK m \in Nat : m = Len(old)
  OBVIOUS
<1>2. PICK n \in Nat : n = Len(new)
  OBVIOUS
<1>3. \A i \in n + 1 .. m : old[i] \in Byte
  BY <1>1
<1>4. n + 1 \in Int /\ m \in Int
  OBVIOUS
<1>5. SubSeq(old, n + 1, m) \in Seq(Byte)
  BY <1>3, <1>4, SubSeqProperties
<1>6. Overlay(old, new) \in Seq(Byte)
  BY <1>1, <1>2, <1>5 DEF Overlay
<1>7. ASSUME m <= n PROVE Overlay(old, new) = new
  <2>1. m < n + 1
    BY <1>7
  <2>2. SubSeq(old, n + 1, m) = << >>
    BY <1>4, <2>1, SubSeqEmpty
  <2>3. new \o << >> = new
    OBVIOUS
  <2> QED
    BY <1>1, <1>2, <2>2, <2>3 DEF Overlay
<1> QED
  BY <1>1, <1>2, <1>6, <1>7

\* A string has no zero bytes.
LEMMA AsStringFacts ==
  ASSUME NEW s \in Seq(Byte)
  PROVE  AsString(s) \in Seq(Byte) /\ \A p \in DOMAIN AsString(s) : AsString(s)[p] # Nul
<1> DEFINE zeros == {p \in DOMAIN s : s[p] = Nul}
<1>1. DOMAIN s = 1 .. Len(s) /\ Len(s) \in Nat /\ zeros \in SUBSET Nat
  OBVIOUS
<1>2. CASE zeros = {}
  <2>1. AsString(s) = s
    BY <1>2 DEF AsString
  <2> QED
    BY <1>2, <2>1
<1>3. CASE zeros # {}
  <2> DEFINE z == CHOOSE p \in zeros : \A q \in zeros : p <= q
  <2>1. z \in zeros /\ \A q \in zeros : z <= q
    <3>1. \E p \in zeros : \A q \in zeros : p <= q
      BY <1>1, <1>3, Smallest
    <3> QED
      BY <3>1
  <2>2. AsString(s) = SubSeq(s, 1, z - 1)
    BY <1>3 DEF AsString
  <2> HIDE DEF z
  <2>3. z \in 1 .. Len(s) /\ z - 1 \in Int /\ 1 \in Int /\ z - 1 \in Nat
    BY <1>1, <2>1
  <2>4. \A p \in 1 .. z - 1 : p \in 1 .. Len(s) /\ ~(z <= p)
    BY <1>1, <2>3
  <2>5. \A p \in 1 .. z - 1 : s[p] \in Byte /\ s[p] # Nul
    BY <1>1, <2>1, <2>4
  <2>6. /\ AsString(s) \in Seq(Byte)
        /\ Len(AsString(s)) = IF 1 <= z - 1 THEN (z - 1) - 1 + 1 ELSE 0
        /\ \A i \in 1 .. (z - 1) - 1 + 1 : AsString(s)[i] = s[1 + i - 1]
    BY <2>2, <2>3, <2>5, SubSeqProperties
  <2>7. Len(AsString(s)) = z - 1 /\ \A i \in 1 .. z - 1 : AsString(s)[i] = s[i]
    BY <2>3, <2>6
  <2>8. DOMAIN AsString(s) = 1 .. z - 1
    BY <2>6, <2>7
  <2> QED
    BY <2>5, <2>6, <2>7, <2>8
<1> QED
  BY <1>2, <1>3

-----------------------------------------------------------------------------
(* The steps of ed *)

\* What all of them rely on.
LEMMA Basics ==
  ASSUME IInv
  PROVE  /\ line_max \in Nat /\ line_max >= 1 /\ amt \in Nat /\ amt <= line_max - 1
         /\ amt <= line_max /\ INT_MAX \in Nat /\ INT_MAX > amt
         /\ lines \in Lines /\ after \in Int /\ after <= line_max
         /\ disk \in Seq(Byte) \union {Absent} /\ File \in Seq(Byte)
         /\ root \in BOOLEAN /\ shut \in BOOLEAN /\ sound \in BOOLEAN
         /\ mode \in {"command", "append", "quit", "lost"}
<1>1. /\ line_max \in Nat /\ line_max >= 1 /\ INT_MAX \in Nat /\ INT_MAX > line_max
  BY NumbersAssumption
<1>2. amt \in 0 .. line_max /\ amt <= line_max - 1
  BY DEF IInv, TypeOK, InBounds
<1>3. amt \in Nat /\ amt <= line_max /\ INT_MAX > amt
  BY <1>1, <1>2
<1>4. /\ lines \in Lines /\ after \in Int /\ after <= line_max
      /\ disk \in Seq(Byte) \union {Absent}
      /\ root \in BOOLEAN /\ shut \in BOOLEAN /\ sound \in BOOLEAN
      /\ mode \in {"command", "append", "quit", "lost"}
  BY DEF IInv, TypeOK, Lines
<1>5. File \in Seq(Byte)
  BY <1>4, BytesTogether DEF File
<1> QED
  BY <1>1, <1>2, <1>3, <1>4, <1>5

\* An empty text makes an empty file.
LEMMA JoinOfNothing ==
  ASSUME NEW t, Len(t) = 0
  PROVE  Abstract!Join(t) = << >>
<1>1. PICK j : IsJoin(t, 0, j)
  BY JoinExists
<1>2. j[0] = << >>
  <2>1. 0 \in 0 .. 0
    OBVIOUS
  <2> QED
    BY <1>1, <2>1 DEF IsJoin
<1>3. Len(t) \in Nat /\ IsJoin(t, Len(t), j)
  BY <1>1
<1>4. Abstract!Join(t) = j[Len(t)]
  BY <1>3, JoinIs
<1> QED
  BY <1>2, <1>4

\* Starting ed fills the buffer with what the file holds, if it can be read, fits, and is a
\* string; otherwise ed does not count as sound.
LEMMA LaunchFacts ==
  ASSUME IInv, Launch
  PROVE  /\ lines' \in Lines /\ amt' \in Nat /\ amt' <= line_max - 1 /\ Filled(lines', amt')
         /\ after' = -1 /\ mode' \in {"command", "lost"} /\ sound' \in BOOLEAN
         /\ mode' = "lost" => ~sound'
         /\ sound' => Abstract!Join(TextOf(lines', amt')) = File
         /\ UNCHANGED <<disk, root, shut>>
<1> DEFINE s == AsString(disk)
           p == Pieces(s)
           fits == shut \/ disk = Absent \/ Len(p) < line_max
           b == buffer_open(disk, ~shut /\ fits)
<1>1. /\ mode' = IF fits THEN "command" ELSE "lost"
      /\ lines' = b.lines /\ amt' = b.amt /\ after' = -1
      /\ sound' = (~shut /\ fits /\ (disk = Absent \/ s = disk))
      /\ UNCHANGED <<disk, root, shut>>
  BY DEF Launch, Start
<1>2. line_max \in Nat /\ line_max >= 1 /\ disk \in Seq(Byte) \union {Absent}
  BY Basics
<1>3. /\ mode' \in {"command", "lost"} /\ sound' \in BOOLEAN /\ (mode' = "lost" => ~sound')
  BY <1>1
<1>4. CASE ~shut /\ disk # Absent /\ disk # << >> /\ Len(p) < line_max
  <2>1. s \in Seq(Byte) /\ \A k \in DOMAIN s : s[k] # Nul
    BY <1>2, <1>4, AsStringFacts
  <2>2. PICK m \in Nat : m = Len(p)
    BY <2>1, PiecesFacts, EndsFacts
  <2>3. p \in Seq(Seq(Letter))
    BY <2>1, PiecesFacts
  <2>4. \A k \in 1 .. m : p[k] \in Seq(Letter)
    BY <2>2, <2>3
  <2>5. b = buffer_append(NoBuffer, s, -1)
    BY <1>4 DEF buffer_open
  <2>6. b = Loaded(p, m)
    BY <1>4, <2>2, <2>4, <2>5, AppendAll
  <2>7. Abstract!Join(p) = s
    BY <2>1, JoinOfPieces
  <2> HIDE DEF p, s, b
  <2>8. /\ lines' = [k \in Slot |-> IF k < m THEN p[k + 1] ELSE NoLine] /\ amt' = m
    BY <1>1, <2>6 DEF Loaded
  <2>9. \A k \in Slot : k < m => k + 1 \in 1 .. m
    BY NumbersAssumption DEF Slot
  <2>10. lines' \in Lines
    BY <2>4, <2>8, <2>9 DEF Lines
  <2>11. m <= line_max - 1 /\ \A k \in Nat : k < m => k \in Slot
    BY <1>2, <1>4, <2>2 DEF Slot
  <2>12. Filled(lines', m)
    <3>1. \A k \in Nat : k < m => lines'[k] = p[k + 1] /\ k + 1 \in 1 .. m
      BY <2>8, <2>11
    <3> QED
      BY <2>4, <3>1, TextsAssumption DEF Filled
  <2>13. TextOf(lines', m) = p
    <3>1. TextOf(lines', m) \in Seq(Seq(Letter)) /\ Len(TextOf(lines', m)) = m
      BY <1>2, <2>10, <2>11, <2>12, TextFacts
    <3>2. ASSUME NEW k \in 1 .. m PROVE TextOf(lines', m)[k] = p[k]
      <4>1. k - 1 \in Nat /\ k - 1 < m /\ (k - 1) + 1 = k
        OBVIOUS
      <4>2. k - 1 \in Slot
        BY <2>11, <4>1
      <4>3. lines'[k - 1] = p[k]
        BY <2>8, <4>1, <4>2
      <4> QED
        BY <4>3 DEF TextOf
    <3> QED
      BY <2>2, <2>3, <3>1, <3>2, SeqEqual
  <2>14. sound' => Abstract!Join(TextOf(lines', amt')) = File
    <3>1. sound' => s = disk
      BY <1>1, <1>4
    <3> QED
      BY <1>4, <2>7, <2>8, <2>13, <3>1 DEF File
  <2> QED
    BY <1>1, <1>3, <2>8, <2>10, <2>11, <2>12, <2>14
<1>5. CASE ~(~shut /\ disk # Absent /\ disk # << >> /\ Len(p) < line_max)
  <2>1. ~(~shut /\ fits) \/ disk = Absent \/ disk = << >>
    BY <1>5
  <2>2. b = NoBuffer
    BY <2>1 DEF buffer_open
  <2>3. sound' => File = << >>
    BY <1>1, <1>5 DEF File
  <2> HIDE DEF b, p, s
  <2>4. lines' = [k \in Slot |-> NoLine] /\ amt' = 0
    BY <1>1, <2>2 DEF NoBuffer
  <2>5. lines' \in Lines /\ Filled(lines', amt')
    BY <2>4 DEF Lines, Filled
  <2>6. Len(TextOf(lines', 0)) = 0
    <3>1. 0 <= line_max /\ 0 \in Nat
      BY <1>2
    <3> QED
      BY <2>4, <2>5, <3>1, TextFacts
  <2>7. Abstract!Join(TextOf(lines', 0)) = << >>
    BY <2>6, JoinOfNothing
  <2>8. 0 \in Nat /\ 0 <= line_max - 1
    BY <1>2
  <2> QED
    BY <1>1, <1>3, <2>3, <2>4, <2>5, <2>7, <2>8
<1> QED
  BY <1>4, <1>5

\* Nothing that Complete speaks of changes.
LEMMA CompleteKept ==
  ASSUME Complete, UNCHANGED <<lines, amt, disk>>,
         mode' # "quit" /\ sound' => mode # "quit" /\ sound
  PROVE  Complete'
BY DEF Complete, File

\* Starting ed establishes the invariant anew, whatever the last session left.
LEMMA LaunchSafe ==
  ASSUME IInv, Launch
  PROVE  IInv'
<1>1. /\ lines' \in Lines /\ amt' \in Nat /\ amt' <= line_max - 1 /\ Filled(lines', amt')
      /\ after' = -1 /\ mode' \in {"command", "lost"} /\ sound' \in BOOLEAN
      /\ mode' = "lost" => ~sound'
      /\ sound' => Abstract!Join(TextOf(lines', amt')) = File
      /\ UNCHANGED <<disk, root, shut>>
  BY LaunchFacts
<1>2. /\ line_max \in Nat /\ line_max >= 1 /\ File \in Seq(Byte)
      /\ disk \in Seq(Byte) \union {Absent} /\ root \in BOOLEAN /\ shut \in BOOLEAN
  BY Basics
<1>3. TypeOK'
  <2>1. amt' \in 0 .. line_max /\ after' \in Int /\ after' <= line_max
    BY <1>1, <1>2
  <2> QED
    BY <1>1, <1>2, <2>1 DEF TypeOK, Lines
<1>4. InBounds' /\ LostOnlyWhenFull'
  BY <1>1 DEF InBounds, LostOnlyWhenFull
<1>5. Complete'
  <2>1. File' = File /\ Len(File) <= Len(File)
    BY <1>1, <1>2 DEF File
  <2> QED
    BY <1>1, <2>1 DEF Complete
<1> QED
  BY <1>3, <1>4, <1>5 DEF IInv

\* The command a never goes behind the last line.
LEMMA AppendModeSafe ==
  ASSUME IInv, AppendMode
  PROVE  IInv'
<1>1. UNCHANGED <<lines, amt, disk, root, shut>> /\ mode = "command"
  BY DEF AppendMode
<1>2. CASE /\ \E n \in Addresses \union {INT_MAX} : after' = High(n) - 1
           /\ mode' = "append" /\ sound' = sound
  <2>1. PICK n \in Addresses \union {INT_MAX} : after' = High(n) - 1
    BY <1>2
  <2>2. n \in Int
    BY NumbersAssumption
  <2>3. High(n) \in Int /\ High(n) <= amt
    BY <2>2, Basics DEF High
  <2>4. after' \in Int /\ after' <= amt - 1 /\ after' <= line_max
    BY <2>1, <2>3, Basics
  <2>5. TypeOK'
    BY <1>1, <1>2, <2>4 DEF IInv, TypeOK
  <2>6. InBounds' /\ LostOnlyWhenFull'
    BY <1>1, <1>2, <2>4 DEF IInv, InBounds, LostOnlyWhenFull
  <2>7. Complete'
    BY <1>1, <1>2, CompleteKept DEF IInv
  <2> QED
    BY <2>5, <2>6, <2>7 DEF IInv
<1>3. CASE mode' = "lost" /\ sound' = FALSE /\ after' = after
  <2>1. TypeOK' /\ InBounds' /\ LostOnlyWhenFull' /\ Complete'
    BY <1>1, <1>3 DEF IInv, TypeOK, InBounds, LostOnlyWhenFull, Complete
  <2> QED
    BY <2>1 DEF IInv
<1> QED
  BY <1>2, <1>3 DEF AppendMode

\* A line that fits goes in behind the line `after`, and the text is the longer for it.
LEMMA TypedFacts ==
  ASSUME IInv, NEW t \in Texts, mode = "append", ~Overruns(Buffer), after >= -1,
         NEW c, c = buffer_append(Buffer, t, after)
  PROVE  /\ c.lines \in Lines /\ c.amt = amt + 1 /\ amt + 1 <= line_max - 1
         /\ after + 1 \in Nat /\ after + 1 <= amt
         /\ Filled(lines, amt) =>
              /\ Filled(c.lines, amt + 1)
              /\ TextOf(c.lines, amt + 1) = Put(TextOf(lines, amt), after + 1, t, amt)
              /\ Len(Abstract!Join(TextOf(lines, amt)))
                   <= Len(Abstract!Join(TextOf(c.lines, amt + 1)))
              /\ Abstract!Join(TextOf(c.lines, amt + 1)) \in Seq(Byte)
<1>1. t \in Seq(Letter)
  BY TextsAssumption
<1>2. /\ amt \in Nat /\ line_max \in Nat /\ lines \in Lines /\ after \in Int
  BY Basics
<1>3. after <= amt - 1
  BY DEF IInv, InBounds
<1>4. PICK n \in Nat : n = amt
  BY <1>2
<1>5. PICK pos \in Nat : pos = after + 1
  BY <1>2
<1>6. Buffer = [lines |-> lines, amt |-> n]
  BY <1>4 DEF Buffer
<1>7. n + 1 <= line_max - 1
  BY <1>2, <1>6 DEF Overruns
<1>8. pos <= n
  BY <1>2, <1>3, <1>4, <1>5
<1>9. PICK b : b = [lines |-> lines, amt |-> n] /\ c = Insert(b, pos, t)
  BY <1>1, <1>2, <1>5, <1>6, AppendOne
<1>10. /\ c.amt = n + 1 /\ c.lines \in Lines
       /\ c.lines[pos] = t
       /\ \A k \in Nat : k < pos => c.lines[k] = lines[k]
       /\ \A k \in Nat : k < n /\ ~(k < pos) => c.lines[k + 1] = lines[k]
  BY <1>1, <1>2, <1>7, <1>8, <1>9, InsertFacts
<1>11. ASSUME Filled(lines, n)
       PROVE  /\ Filled(c.lines, n + 1)
              /\ TextOf(c.lines, n + 1) = Put(TextOf(lines, n), pos, t, n)
  BY <1>1, <1>2, <1>7, <1>8, <1>9, <1>11, InsertedText
<1>12. ASSUME Filled(lines, n)
       PROVE  /\ Len(Abstract!Join(TextOf(lines, n)))
                   <= Len(Abstract!Join(TextOf(c.lines, n + 1)))
              /\ Abstract!Join(TextOf(c.lines, n + 1)) \in Seq(Byte)
  <2>1. n <= line_max /\ n + 1 <= line_max /\ n + 1 \in Nat
    BY <1>2, <1>7
  <2>2. /\ Len(TextOf(lines, n)) = n /\ \A k \in 1 .. n : TextOf(lines, n)[k] \in Seq(Byte)
        /\ \A k \in 1 .. n : TextOf(lines, n)[k] = lines[k - 1]
    BY <1>2, <1>12, <2>1, TextFacts
  <2>3. PICK v : v = TextOf(c.lines, n + 1)
    OBVIOUS
  <2>4. /\ Len(v) = n + 1 /\ \A k \in 1 .. n + 1 : v[k] \in Seq(Byte)
        /\ \A k \in 1 .. n + 1 : v[k] = c.lines[k - 1]
    BY <1>10, <1>11, <1>12, <2>1, <2>3, TextFacts
  <2>5. PICK u : u = TextOf(lines, n)
    OBVIOUS
  <2>6. ASSUME NEW k \in 1 .. pos PROVE v[k] = u[k]
    <3>1. k - 1 \in Nat /\ k - 1 < pos /\ k \in 1 .. n /\ k \in 1 .. n + 1
      BY <1>8
    <3> QED
      BY <1>10, <2>2, <2>4, <2>5, <3>1
  <2>7. ASSUME NEW k \in 1 .. n, pos < k PROVE v[k + 1] = u[k]
    <3>1. /\ k - 1 \in Nat /\ k - 1 < n /\ ~(k - 1 < pos) /\ k + 1 \in 1 .. n + 1
          /\ (k + 1) - 1 = k /\ (k - 1) + 1 = k
      BY <2>7
    <3>2. c.lines[k] = lines[k - 1]
      BY <1>10, <3>1
    <3>3. v[k + 1] = c.lines[k]
      BY <2>4, <3>1
    <3> QED
      BY <2>2, <2>5, <3>2, <3>3
  <2>8. Len(u) = n /\ \A k \in 1 .. n : u[k] \in Seq(Byte)
    BY <2>2, <2>5
  <2>9. Len(Abstract!Join(u)) <= Len(Abstract!Join(v))
    BY <1>8, <2>4, <2>6, <2>7, <2>8, JoinGrows
  <2>10. Abstract!Join(v) \in Seq(Byte)
    BY <2>1, <2>4, JoinType
  <2> QED
    BY <2>3, <2>5, <2>9, <2>10
<1> QED
  BY <1>4, <1>5, <1>7, <1>8, <1>10, <1>11, <1>12

\* Less is not more than what is less than more.
LEMMA Transitive ==
  ASSUME NEW a \in Nat, NEW b \in Nat, NEW c \in Nat, a <= b, b <= c
  PROVE  a <= c
OBVIOUS

\* A line more is a slot less, and the text grows at least as the file has.
LEMMA TypeLineSafe ==
  ASSUME IInv, NEW t \in Texts, TypeLine(t)
  PROVE  IInv'
<1>1. UNCHANGED <<disk, root, shut, sound>> /\ mode = "append"
  BY DEF TypeLine
<1>2. CASE /\ Overruns(Buffer) \/ after < -1
           /\ mode' = "lost" /\ UNCHANGED <<lines, amt, after>>
  <2>1. amt = line_max - 1 \/ after < -1
    <3>1. Overruns(Buffer) => amt + 1 > line_max - 1
      BY DEF Overruns, Buffer
    <3> QED
      BY <1>2, <3>1, Basics
  <2>2. TypeOK' /\ InBounds' /\ LostOnlyWhenFull' /\ Complete'
    BY <1>1, <1>2, <2>1, CompleteKept DEF IInv, TypeOK, InBounds, LostOnlyWhenFull
  <2> QED
    BY <2>2 DEF IInv
<1>3. CASE /\ ~Overruns(Buffer) /\ after >= -1
           /\ LET b == buffer_append(Buffer, t, after) IN lines' = b.lines /\ amt' = b.amt
           /\ after' = after + 1 /\ mode' = mode
  <2>1. PICK c : c = buffer_append(Buffer, t, after)
    OBVIOUS
  <2>2. /\ c.lines \in Lines /\ c.amt = amt + 1 /\ amt + 1 <= line_max - 1
        /\ after + 1 \in Nat /\ after + 1 <= amt
        /\ Filled(lines, amt) =>
             /\ Filled(c.lines, amt + 1)
             /\ Len(Abstract!Join(TextOf(lines, amt)))
                  <= Len(Abstract!Join(TextOf(c.lines, amt + 1)))
             /\ Abstract!Join(TextOf(c.lines, amt + 1)) \in Seq(Byte)
    BY <1>1, <1>3, <2>1, TypedFacts
  <2>3. lines' = c.lines /\ amt' = amt + 1
    BY <1>3, <2>1, <2>2
  <2>4. line_max \in Nat /\ amt \in Nat /\ amt <= line_max /\ lines \in Lines
    BY Basics
  <2>5. amt' \in 0 .. line_max /\ after' \in Int /\ after' <= line_max
    BY <1>3, <2>2, <2>3, <2>4
  <2>6. TypeOK'
    BY <1>1, <1>3, <2>2, <2>3, <2>5 DEF IInv, TypeOK, Lines
  <2>7. InBounds' /\ LostOnlyWhenFull'
    BY <1>1, <1>3, <2>2, <2>3, <2>4 DEF InBounds, LostOnlyWhenFull
  <2>8. Complete'
    <3>1. SUFFICES ASSUME sound
                   PROVE  /\ Filled(lines', amt')
                          /\ Len(File) <= Len(Abstract!Join(TextOf(lines', amt')))
      BY <1>1 DEF Complete, File
    <3>2. Filled(lines, amt) /\ Len(File) <= Len(Abstract!Join(TextOf(lines, amt)))
      BY <1>1, <3>1 DEF IInv, Complete
    <3>3. Abstract!Join(TextOf(lines, amt)) \in Seq(Byte)
      <4>1. /\ Len(TextOf(lines, amt)) = amt
            /\ \A k \in 1 .. amt : TextOf(lines, amt)[k] \in Seq(Byte)
        BY <2>4, <3>2, TextFacts
      <4> QED
        BY <2>4, <4>1, JoinType
    <3>4. File \in Seq(Byte)
      BY Basics
    <3>5. /\ Len(File) \in Nat /\ Len(Abstract!Join(TextOf(lines, amt))) \in Nat
          /\ Len(Abstract!Join(TextOf(c.lines, amt + 1))) \in Nat
      BY <2>2, <3>2, <3>3, <3>4
    <3>6. Len(File) <= Len(Abstract!Join(TextOf(c.lines, amt + 1)))
      BY <2>2, <3>2, <3>5, Transitive
    <3> QED
      BY <2>2, <2>3, <3>2, <3>6
  <2> QED
    BY <2>6, <2>7, <2>8 DEF IInv
<1> QED
  BY <1>2, <1>3 DEF TypeLine

\* A line that memory did not suffice for is one that ed is no longer sound after.
LEMMA TypeLineShortSafe ==
  ASSUME IInv, NEW t \in Texts, TypeLineShort(t)
  PROVE  IInv'
<1>1. /\ UNCHANGED <<disk, root, shut>> /\ sound' = FALSE
      /\ mode = "append" /\ ~Overruns(Buffer) /\ after >= -1
  BY DEF TypeLineShort
<1>2. Complete' /\ LostOnlyWhenFull'
  BY <1>1 DEF Complete, LostOnlyWhenFull
<1>3. CASE mode' = "lost" /\ UNCHANGED <<lines, amt, after>>
  <2>1. TypeOK' /\ InBounds'
    BY <1>1, <1>3 DEF IInv, TypeOK, InBounds
  <2> QED
    BY <1>2, <2>1 DEF IInv
<1>4. CASE /\ lines' = [lines EXCEPT ![after + 1] = t]
           /\ amt' = amt + 1 /\ after' = after + 1 /\ mode' = mode
  <2>1. t \in Seq(Letter)
    BY TextsAssumption
  <2>2. lines \in Lines
    BY Basics
  <2>3. lines' \in Lines
    BY <1>4, <2>1, <2>2 DEF Lines
  <2>4. amt + 1 <= line_max - 1 /\ after <= amt - 1
    <3>1. ~(amt + 1 > line_max - 1)
      BY <1>1 DEF Overruns, Buffer
    <3> QED
      BY <1>1, <3>1, Basics DEF IInv, InBounds
  <2>5. /\ amt' \in 0 .. line_max /\ after' \in Int /\ after' <= line_max
        /\ amt' <= line_max - 1 /\ after' <= amt' - 1
    BY <1>4, <2>4, Basics
  <2>6. TypeOK' /\ InBounds'
    BY <1>1, <1>4, <2>3, <2>5 DEF IInv, TypeOK, InBounds, Lines
  <2> QED
    BY <1>2, <2>6 DEF IInv
<1> QED
  BY <1>3, <1>4 DEF TypeLineShort

\* What w leaves in the file: the text, if no line was lost, and bytes in any case.
LEMMA WriteFacts ==
  ASSUME IInv, NEW old, old = File
  PROVE  /\ Intact <=> Filled(lines, amt)
         /\ Intact => /\ Overlay(old, Written(amt)) \in Seq(Byte)
                      /\ Written(amt) = Abstract!Join(TextOf(lines, amt))
                      /\ Written(amt) \in Seq(Byte)
                      /\ (Len(old) <= Len(Written(amt))
                            => Overlay(old, Written(amt)) = Written(amt))
         /\ ~Intact => Overlay(old, WrittenToGone) \in Seq(Byte)
<1>1. amt \in Nat /\ amt <= line_max /\ lines \in Lines /\ old \in Seq(Byte) /\ line_max \in Nat
  BY Basics
<1>2. \A k : k \in 0 .. amt - 1 <=> k \in Nat /\ k < amt
  BY <1>1
<1>3. Intact <=> Filled(lines, amt)
  BY <1>2 DEF Intact, Filled
<1>4. ASSUME Intact
      PROVE  /\ Overlay(old, Written(amt)) \in Seq(Byte)
             /\ Written(amt) = Abstract!Join(TextOf(lines, amt))
             /\ Written(amt) \in Seq(Byte)
             /\ Len(old) <= Len(Written(amt)) => Overlay(old, Written(amt)) = Written(amt)
  <2>1. Written(amt) = Abstract!Join(TextOf(lines, amt)) /\ Written(amt) \in Seq(Byte)
    BY <1>1, <1>3, <1>4, WrittenIs
  <2> QED
    BY <1>1, <2>1, OverlayFacts
<1>5. ASSUME ~Intact PROVE Overlay(old, WrittenToGone) \in Seq(Byte)
  <2> DEFINE T == {k \in 0 .. amt - 1 : lines[k] = NoLine}
  <2>1. T # {} /\ T \in SUBSET Nat
    BY <1>2, <1>5 DEF Intact
  <2>2. PICK g \in T : \A k \in T : g <= k
    BY <2>1, Smallest
  <2>3. g \in 0 .. amt - 1 /\ lines[g] = NoLine /\ \A j \in 0 .. g - 1 : lines[j] # NoLine
    <3>1. \A j \in 0 .. g - 1 : j \in 0 .. amt - 1 /\ ~(g <= j)
      BY <1>1
    <3> QED
      BY <2>2, <3>1
  <2>4. /\ FirstGone \in 0 .. amt - 1
        /\ \A j \in 0 .. FirstGone - 1 : lines[j] # NoLine
    BY <2>3 DEF FirstGone
  <2>5. PICK n \in Nat : n = FirstGone
    BY <1>2, <2>4
  <2>6. n <= line_max /\ Filled(lines, n)
    <3>1. n < amt
      BY <1>2, <2>4, <2>5
    <3>2. \A k \in Nat : k < n => k \in 0 .. n - 1
      OBVIOUS
    <3> QED
      BY <1>1, <2>4, <2>5, <3>1, <3>2 DEF Filled
  <2>7. Written(n) \in Seq(Byte)
    BY <1>1, <2>6, WrittenIs
  <2>8. WrittenToGone \in Seq(Byte)
    <3>1. << >> \in Seq(Byte) /\ <<Newline>> \in Seq(Byte)
      BY DEF Byte
    <3>2. WrittenToGone = Written(n) \o (IF n = 0 THEN << >> ELSE <<Newline>>)
      BY <2>5 DEF WrittenToGone
    <3> QED
      BY <2>7, <3>1, <3>2
  <2> QED
    BY <1>1, <2>8, OverlayFacts
<1> QED
  BY <1>3, <1>4, <1>5

\* Saving makes the file the text, or ed was not sound.
LEMMA WriteSafe ==
  ASSUME IInv, Write
  PROVE  IInv'
<1>1. UNCHANGED <<lines, amt, after, root, sound>> /\ mode = "command"
  BY DEF Write
<1>2. CASE UNCHANGED <<mode, disk, shut>>
  BY <1>1, <1>2, CompleteKept DEF IInv, TypeOK, InBounds, LostOnlyWhenFull
<1>3. CASE /\ shut' = (disk = Absent /\ ~root)
           /\ Intact /\ disk' = Overlay(File, Written(amt)) /\ UNCHANGED mode
  <2>1. shut' \in BOOLEAN
    BY <1>3
  <2>2. /\ disk' \in Seq(Byte) /\ Written(amt) = Abstract!Join(TextOf(lines, amt))
        /\ Written(amt) \in Seq(Byte) /\ Filled(lines, amt)
        /\ Len(File) <= Len(Written(amt)) => disk' = Written(amt)
    BY <1>3, WriteFacts
  <2>3. TypeOK' /\ InBounds' /\ LostOnlyWhenFull'
    BY <1>1, <1>3, <2>1, <2>2 DEF IInv, TypeOK, InBounds, LostOnlyWhenFull
  <2>4. Complete'
    <3>1. SUFFICES ASSUME sound
                   PROVE  Len(File') <= Len(Abstract!Join(TextOf(lines, amt)))
      BY <1>1, <2>2 DEF Complete
    <3>2. Len(File) <= Len(Written(amt))
      BY <1>1, <2>2, <3>1 DEF IInv, Complete
    <3>3. disk' # Absent
      BY <2>2, TextsAssumption
    <3>4. File' = Written(amt)
      BY <2>2, <3>2, <3>3 DEF File
    <3>5. Len(Written(amt)) <= Len(Written(amt))
      BY <2>2
    <3> QED
      BY <2>2, <3>4, <3>5
  <2> QED
    BY <2>3, <2>4 DEF IInv
<1>4. CASE /\ shut' = (disk = Absent /\ ~root)
           /\ ~Intact /\ disk' = Overlay(File, WrittenToGone) /\ mode' = "lost"
  <2>1. shut' \in BOOLEAN
    BY <1>4
  <2>2. disk' \in Seq(Byte) /\ ~Filled(lines, amt)
    BY <1>4, WriteFacts
  <2>3. ~sound
    BY <1>1, <2>2 DEF IInv, Complete
  <2>4. TypeOK' /\ InBounds' /\ LostOnlyWhenFull' /\ Complete'
    BY <1>1, <1>4, <2>1, <2>2, <2>3 DEF IInv, TypeOK, InBounds, LostOnlyWhenFull, Complete
  <2> QED
    BY <2>4 DEF IInv
<1> QED
  BY <1>2, <1>3, <1>4 DEF Write, File

\* Only an address that has overflowed leads printing out of the buffer.
LEMMA PrintRangeSafe ==
  ASSUME IInv, PrintRange
  PROVE  IInv'
<1>1. /\ UNCHANGED <<lines, amt, after, disk, root, shut>> /\ mode = "command" /\ mode' = "lost"
  BY DEF PrintRange
<1>2. ~sound' /\ sound' \in BOOLEAN
  <2>1. PICK low \in Addresses \union {0}, n \in Addresses \union {INT_MAX} :
          \E k \in low .. High(n) - 1 : \/ k < 0 /\ sound' = FALSE
                                        \/ k >= 0 /\ lines[k] = NoLine /\ UNCHANGED sound
    BY DEF PrintRange
  <2>2. PICK k \in low .. High(n) - 1 : \/ k < 0 /\ sound' = FALSE
                                        \/ k >= 0 /\ lines[k] = NoLine /\ UNCHANGED sound
    BY <2>1
  <2>3. CASE sound' = FALSE
    BY <2>3
  <2>4. CASE k >= 0 /\ lines[k] = NoLine /\ sound' = sound
    <3>1. low \in Int /\ n \in Int
      BY NumbersAssumption
    <3>2. High(n) \in Int /\ High(n) <= amt
      BY <3>1, Basics DEF High
    <3>3. k \in Nat /\ k < amt
      BY <2>4, <3>1, <3>2, Basics
    <3>4. ~Filled(lines, amt)
      BY <2>4, <3>3 DEF Filled
    <3>5. ~sound
      BY <1>1, <3>4 DEF IInv, Complete
    <3>6. sound \in BOOLEAN
      BY Basics
    <3> QED
      BY <2>4, <3>5, <3>6
  <2> QED
    BY <2>2, <2>3, <2>4
<1>3. TypeOK' /\ InBounds' /\ LostOnlyWhenFull' /\ Complete'
  BY <1>1, <1>2 DEF IInv, TypeOK, InBounds, LostOnlyWhenFull, Complete
<1> QED
  BY <1>3 DEF IInv

\* ed is started on a file that may be there.
LEMMA IInvInit == Init => IInv
<1> SUFFICES ASSUME Init PROVE IInv
  OBVIOUS
<1>1. /\ disk \in Seq(Byte) \union {Absent} /\ root \in BOOLEAN /\ shut \in BOOLEAN
      /\ mode = "quit" /\ lines = [k \in Slot |-> NoLine] /\ amt = 0 /\ after = -1 /\ sound = TRUE
  BY TextsAssumption DEF Init, NoBuffer
<1>2. line_max \in Nat /\ line_max >= 1 /\ 0 <= line_max - 1 /\ -1 <= line_max /\ -1 \in Int
  BY NumbersAssumption
<1>3. amt \in 0 .. line_max
  BY <1>1, <1>2
<1> QED
  BY <1>1, <1>2, <1>3 DEF IInv, TypeOK, InBounds, LostOnlyWhenFull, Complete

\* Each command, and each line typed, preserves the invariant.
LEMMA IInvNext == IInv /\ [Next]_vars => IInv'
<1> SUFFICES ASSUME IInv, [Next]_vars PROVE IInv'
  OBVIOUS
<1>1. CASE Stop
  <2>1. /\ UNCHANGED <<lines, amt, after, disk, root, shut, sound>>
        /\ mode = "append" /\ mode' = "command"
    BY <1>1 DEF Stop
  <2> QED
    BY <2>1, CompleteKept DEF IInv, TypeOK, InBounds, LostOnlyWhenFull
<1>2. CASE Quit
  <2>1. /\ UNCHANGED <<lines, amt, after, disk, root, shut, sound>>
        /\ mode = "command" /\ mode' = "quit"
    BY <1>2 DEF Quit
  <2> QED
    BY <2>1, CompleteKept DEF IInv, TypeOK, InBounds, LostOnlyWhenFull
<1>3. CASE UNCHANGED vars
  BY <1>3, CompleteKept DEF vars, IInv, TypeOK, InBounds, LostOnlyWhenFull
<1>4. CASE LaunchShort
  <2>1. /\ UNCHANGED <<lines, amt, after, disk, root, shut>>
        /\ mode' = "lost" /\ sound' = FALSE
    BY <1>4 DEF LaunchShort
  <2> QED
    BY <2>1, CompleteKept DEF IInv, TypeOK, InBounds, LostOnlyWhenFull
<1> QED
  BY <1>1, <1>2, <1>3, <1>4, LaunchSafe, AppendModeSafe, TypeLineSafe, TypeLineShortSafe,
    WriteSafe, PrintRangeSafe DEF Next, Dead

-----------------------------------------------------------------------------
(* What follows *)

\* The inductive invariant: what ed.c relies on about its buffer and its file is true at
\* every step, for any texts, files and addresses, and any size of lines[].
THEOREM Invariant == Spec => []IInv
<1>1. Init => IInv
  BY IInvInit
<1>2. IInv /\ [Next]_vars => IInv'
  BY IInvNext
<1> QED
  BY <1>1, <1>2, PTL DEF Spec

\* The buffer's variables only ever hold what they are meant to hold: there are never more
\* lines than slots.
THEOREM TypeCorrect == Spec => []TypeOK
<1>1. IInv => TypeOK
  BY DEF IInv
<1> QED
  BY <1>1, Invariant, PTL

\* With memory to spare, ed leaves its array only when lines[] is full, or for an address
\* that has overflowed; it never meets a null pointer in the buffer.
THEOREM LosesOnlyWhenFull == Spec => []LostOnlyWhenFull
<1>1. IInv => LostOnlyWhenFull
  BY DEF IInv
<1> QED
  BY <1>1, Invariant, PTL

-----------------------------------------------------------------------------
(* ed implements the document *)

\* How the modes of ed look to who uses it.
LEMMA StatusFacts ==
  ASSUME IInv
  PROVE  /\ Status = "closed" <=> mode = "quit"
         /\ Status = "open" <=> mode \in {"command", "append"} /\ sound
         /\ Status \in {"closed", "open", "broken"}
<1>1. mode \in {"command", "append", "quit", "lost"} /\ sound \in BOOLEAN
  BY Basics
<1> QED
  BY <1>1 DEF Status

\* Once ed is broken anything may happen, and it may break at any time.
LEMMA Broken ==
  ASSUME \/ Status = "broken"
         \/ Status = "open" /\ Status' = "broken"
  PROVE  Abstract!Next
BY DEF Abstract!Next, Abstract!Break

\* An open editor whose text, place and file stay the same is the same.
LEMMA Same ==
  ASSUME UNCHANGED <<lines, amt, after, disk>>, Status' = Status
  PROVE  UNCHANGED Abstract!vars
BY DEF Abstract!vars

\* Starting ed opens the document.
LEMMA LaunchRefines ==
  ASSUME IInv, IInv', Launch
  PROVE  Abstract!Next
<1>1. /\ sound' => Abstract!Join(TextOf(lines', amt')) = File
      /\ mode' \in {"command", "lost"} /\ disk' = disk
      /\ mode' = "lost" => ~sound'
  BY LaunchFacts
<1>2. Status = "closed"
  BY StatusFacts DEF Launch
<1>3. Status' \in {"open", "broken"} /\ (Status' = "open" => sound')
  BY <1>1 DEF Status
<1>4. Abstract!Open
  <2>1. Status' = "open" => Abstract!Join([k \in 1 .. amt' |-> lines'[k - 1]]) = File
    BY <1>1, <1>3 DEF TextOf
  <2> QED
    BY <1>1, <1>2, <1>3, <2>1 DEF Abstract!Open, File
<1> QED
  BY <1>4 DEF Abstract!Next

\* The place of the next line is in the text, or in front of it.
LEMMA Place ==
  ASSUME NEW a \in Int, NEW n \in Nat, a <= n - 1
  PROVE  (IF a < -1 THEN 0 ELSE a + 1) \in 0 .. n
OBVIOUS

\* The command a names the line to insert behind.
LEMMA AppendModeRefines ==
  ASSUME IInv, IInv', AppendMode, Status = "open"
  PROVE  Abstract!Next
<1>1. UNCHANGED <<lines, amt, disk, root, shut>> /\ mode = "command" /\ sound
  BY StatusFacts DEF AppendMode
<1>2. CASE mode' = "append" /\ sound' = sound
  <2>1. Status' = "open"
    BY <1>1, <1>2 DEF Status
  <2>2. /\ after' \in Int /\ after' <= amt - 1 /\ amt \in Nat /\ amt <= line_max
        /\ lines \in Lines /\ Filled(lines, amt)
    <3>1. after' \in Int /\ after' <= amt' - 1
      BY <1>2 DEF IInv, TypeOK, InBounds
    <3>2. Filled(lines, amt)
      BY <1>1 DEF IInv, Complete
    <3> QED
      BY <1>1, <3>1, <3>2, Basics
  <2>3. Len([k \in 1 .. amt |-> lines[k - 1]]) = amt
    BY <2>2, TextFacts DEF TextOf
  <2>4. PICK k : k = IF after' < -1 THEN 0 ELSE after' + 1
    OBVIOUS
  <2>5. k \in 0 .. amt
    BY <2>2, <2>4, Place
  <2>6. Abstract!Name(k)
    BY <1>1, <2>1, <2>4 DEF Abstract!Name
  <2> QED
    BY <2>3, <2>5, <2>6 DEF Abstract!Next
<1>3. CASE mode' = "lost" /\ sound' = FALSE
  <2>1. Status' = "broken"
    BY <1>3 DEF Status
  <2> QED
    BY <2>1, Broken
<1> QED
  BY <1>2, <1>3 DEF AppendMode

\* A line that is typed is inserted where the user is.
LEMMA TypeLineRefines ==
  ASSUME IInv, NEW t \in Texts, TypeLine(t), Status = "open"
  PROVE  Abstract!Next
<1>1. UNCHANGED <<disk, root, shut, sound>> /\ mode = "append" /\ sound
  BY StatusFacts DEF TypeLine
<1>2. CASE mode' = "lost"
  <2>1. Status' = "broken"
    BY <1>2 DEF Status
  <2> QED
    BY <2>1, Broken
<1>3. CASE /\ ~Overruns(Buffer) /\ after >= -1
           /\ LET b == buffer_append(Buffer, t, after) IN lines' = b.lines /\ amt' = b.amt
           /\ after' = after + 1 /\ mode' = mode
  <2>1. PICK c : c = buffer_append(Buffer, t, after)
    OBVIOUS
  <2>2. Filled(lines, amt)
    BY <1>1 DEF IInv, Complete
  <2>3. /\ c.amt = amt + 1 /\ after + 1 \in Nat
        /\ TextOf(c.lines, amt + 1) = Put(TextOf(lines, amt), after + 1, t, amt)
    BY <1>1, <1>3, <2>1, <2>2, TypedFacts
  <2>4. TextOf(lines', amt') = Put(TextOf(lines, amt), after + 1, t, amt)
    BY <1>3, <2>1, <2>3
  <2>5. Len(TextOf(lines, amt)) = amt
    BY <2>2, Basics, TextFacts
  <2>6. after \in Int
    BY Basics
  <2>7. /\ (IF after < -1 THEN 0 ELSE after + 1) = after + 1
        /\ (IF after' < -1 THEN 0 ELSE after' + 1) = (after + 1) + 1
    BY <1>3, <2>3, <2>6
  <2>8. Status' = "open"
    BY <1>1, <1>3 DEF Status
  <2>9. Abstract!Insert(t)
    BY <1>1, <2>4, <2>5, <2>7, <2>8 DEF Abstract!Insert, TextOf, Put
  <2> QED
    BY <2>9 DEF Abstract!Next
<1> QED
  BY <1>2, <1>3 DEF TypeLine

\* The command w saves exactly the text.
LEMMA WriteRefines ==
  ASSUME IInv, Write, Status = "open"
  PROVE  Abstract!Next \/ UNCHANGED Abstract!vars
<1>1. UNCHANGED <<lines, amt, after, root, sound>> /\ mode = "command" /\ sound
  BY StatusFacts DEF Write
<1>2. Filled(lines, amt) /\ Len(File) <= Len(Abstract!Join(TextOf(lines, amt)))
  BY <1>1 DEF IInv, Complete
<1>3. Intact
  BY <1>2, WriteFacts
<1>4. CASE UNCHANGED <<mode, disk, shut>>
  <2>1. Status' = Status
    BY <1>1, <1>4 DEF Status
  <2> QED
    BY <1>1, <1>4, <2>1, Same
<1>5. CASE disk' = Overlay(File, Written(amt)) /\ UNCHANGED mode
  <2>1. /\ Written(amt) = Abstract!Join(TextOf(lines, amt)) /\ Written(amt) \in Seq(Byte)
        /\ Len(File) <= Len(Written(amt)) => disk' = Written(amt)
    BY <1>3, <1>5, WriteFacts
  <2>2. disk' = Abstract!Join(TextOf(lines, amt)) /\ disk' # Absent
    BY <1>2, <2>1, TextsAssumption
  <2>3. Status' = Status
    BY <1>1, <1>5 DEF Status
  <2>4. Abstract!Save
    BY <1>1, <2>2, <2>3 DEF Abstract!Save, TextOf
  <2> QED
    BY <2>4 DEF Abstract!Next
<1> QED
  BY <1>3, <1>4, <1>5 DEF Write, File

\* Each step of ed is one of the document, or one that changes nothing of it.
LEMMA StepRefines ==
  ASSUME IInv, IInv', [Next]_vars
  PROVE  Abstract!Next \/ UNCHANGED Abstract!vars
<1>1. CASE Status = "broken"
  BY <1>1, Broken
<1>2. CASE Launch
  BY <1>2, LaunchRefines
<1>3. CASE Status = "open"
  <2>1. CASE AppendMode
    BY <1>3, <2>1, AppendModeRefines
  <2>2. ASSUME NEW t \in Texts, TypeLine(t) PROVE Abstract!Next
    BY <1>3, <2>2, TypeLineRefines
  <2>3. ASSUME NEW t \in Texts, TypeLineShort(t) PROVE Abstract!Next
    <3>1. sound' = FALSE /\ mode' # "quit"
      BY <2>3 DEF TypeLineShort
    <3>2. Status' = "broken"
      BY <3>1 DEF Status
    <3> QED
      BY <1>3, <3>2, Broken
  <2>4. CASE Stop
    <3>1. /\ UNCHANGED <<lines, amt, after, disk, root, shut, sound>>
          /\ mode = "append" /\ mode' = "command"
      BY <2>4 DEF Stop
    <3>2. Status' = Status
      BY <3>1 DEF Status
    <3> QED
      BY <3>1, <3>2, Same
  <2>5. CASE Write
    BY <1>3, <2>5, WriteRefines
  <2>6. CASE PrintRange
    <3>1. Status' = "broken"
      BY <2>6 DEF PrintRange, Status
    <3> QED
      BY <1>3, <3>1, Broken
  <2>7. CASE Quit
    <3>1. UNCHANGED <<lines, amt, after, disk>> /\ Status' = "closed"
      BY <2>7 DEF Quit, Status
    <3>2. Abstract!Close
      BY <1>3, <3>1 DEF Abstract!Close
    <3> QED
      BY <3>2 DEF Abstract!Next
  <2>8. CASE UNCHANGED vars
    <3>1. UNCHANGED <<lines, amt, after, disk>> /\ Status' = Status
      BY <2>8 DEF vars, Status
    <3> QED
      BY <3>1, Same
  <2> QED
    BY <1>2, <1>3, <2>1, <2>2, <2>3, <2>4, <2>5, <2>6, <2>7, <2>8, StatusFacts
      DEF Next, Dead, LaunchShort
<1>4. CASE Status = "closed"
  <2>1. mode = "quit"
    BY <1>4, StatusFacts
  <2>2. CASE UNCHANGED vars
    <3>1. UNCHANGED <<lines, amt, after, disk>> /\ Status' = Status
      BY <2>2 DEF vars, Status
    <3> QED
      BY <3>1, Same
  <2>3. CASE LaunchShort
    <3>1. UNCHANGED disk /\ Status' = "broken"
      BY <2>3 DEF LaunchShort, Status
    <3>2. Abstract!Open
      BY <1>4, <3>1 DEF Abstract!Open
    <3> QED
      BY <3>2 DEF Abstract!Next
  <2> QED
    BY <1>2, <2>1, <2>2, <2>3 DEF Next, AppendMode, Stop, Write, PrintRange, Quit, Dead, TypeLine,
      TypeLineShort
<1> QED
  BY <1>1, <1>3, <1>4, StatusFacts

\* The array of pointers with its memmove(), and the file that is written over and never
\* truncated, implement the document: lines go where the user said, what is saved is the
\* whole text and nothing else, and what is opened is the whole file.
THEOREM Implements == Spec => ImplementsDocument
<1>1. Init => Abstract!Init
  BY DEF Init, Abstract!Init, Status
<1>2. IInv /\ IInv' /\ [Next]_vars => [Abstract!Next]_(Abstract!vars)
  BY StepRefines
<1> QED
  BY <1>1, <1>2, Invariant, PTL DEF Spec, ImplementsDocument, Abstract!Spec
==============================================================================
