----------------------------- MODULE ForthProofs ------------------------------
(***************************************************************************)
(* Proofs about Forth, for any lines, any width of an int and any size of  *)
(* the two stacks. Why evaluation is never nested deeper than there are    *)
(* words: as long as the dictionary is clean, it is in layers, each word   *)
(* using those in front of it only. Why nothing is skipped: a word that    *)
(* has been found is never removed.                                        *)
(***************************************************************************)
EXTENDS Forth, SequenceTheorems, WellFoundedInduction, TLAPS

Definition == [name : Tokens, code : Seq(Tokens)]
Activation == [code : Seq(Tokens), at : Nat \ {0}, phase : Phases, word : Nat]

Built == Len(CWords)

\* The words in C stay in front, under their names.
CWordsFirst ==
  /\ Built <= Len(dictionary)
  /\ \A i \in 1 .. Built : dictionary[i].name = CWords[i]

\* A definition ends at its first semicolon but for its first token, so that
\* no definition can be made within one.
NoSemicolon(code) == \A k \in 2 .. Len(code) : code[k] # ";"
SemicolonFirst ==
  /\ \A i \in 1 .. Len(dictionary) : NoSemicolon(dictionary[i].code)
  /\ \A i \in 2 .. Len(frames) : NoSemicolon(frames[i].code)

NoTextBefore(code, n) == \A j \in 1 .. n - 1 : code[j] \notin Text

\* What words_exist() has seen of an activation's tokens, up to the first comment or
\* string: numbers, words that are there, and names of definitions.
Names == {dictionary[i].name : i \in 1 .. Len(dictionary)}
Seen(names, code, n) ==
  \A k \in 1 .. n - 1 :
    NoTextBefore(code, k) =>
      code[k] \in Numerals \cup names \/ (k > 1 /\ code[k - 1] = ":")

SeenSoFar(names, f) ==
  /\ f.phase = "run" => Seen(names, f.code, Len(f.code) + 1)
  /\ f.phase # "run" => Seen(names, f.code, f.at)
  /\ f.phase \in {"comment", "string"} => ~NoTextBefore(f.code, f.at)
Scanned == \A i \in 1 .. Len(frames) : SeenSoFar(Names, frames[i])

\* As long as the dictionary is clean, definitions use earlier words only.
UsesEarlier(d, i) ==
  \A k \in 1 .. Len(d[i].code) :
    /\ d[i].code[k] \notin Text
    /\ \/ d[i].code[k] \in Numerals
       \/ \E j \in 1 .. i - 1 : d[j].name = d[i].code[k]
       \/ k > 1 /\ d[i].code[k - 1] = ":"

Stratified ==
  clean =>
    /\ \A i \in 1 .. Built : dictionary[i].code = Native
    /\ \A i \in 1 .. Len(dictionary) : UsesEarlier(dictionary, i)

\* Each activation but the line's runs a word older than the one that has called it.
Ordered(d, i, f) ==
  /\ f.word \in Built + 1 .. Len(d) - (i - 2)
  /\ f.code = d[f.word].code
  /\ f.phase = "run" /\ f.at > 1 => f.code[f.at - 1] # ":"
Descending == clean => \A i \in 2 .. Len(frames) : Ordered(dictionary, i, frames[i])

IInv ==
  /\ TypeOK /\ CWordsFirst /\ OneEntryPerName /\ SemicolonFirst /\ Scanned
  /\ Stratified /\ Descending

-----------------------------------------------------------------------------
(* Numbers. *)

\* What \div and % are.
LEMMA DivMod ==
  ASSUME NEW a \in Int, NEW b \in Nat \ {0}
  PROVE  /\ a \div b \in Int /\ a % b \in 0 .. b - 1
         /\ a = b * (a \div b) + (a % b)
OBVIOUS

\* A multiple of b leaves no remainder.
LEMMA MultipleMod ==
  ASSUME NEW k \in Int, NEW b \in Nat \ {0}
  PROVE  (b * k) % b = 0
<1> DEFINE q == (b * k) \div b
           r == (b * k) % b
<1>1. b * k \in Int
  OBVIOUS
<1>2. q \in Int /\ r \in 0 .. b - 1 /\ b * k = b * q + r
  BY <1>1, DivMod
<1> HIDE DEF q, r
<1>3. r = b * (k - q)
  BY <1>2
<1>4. CASE k - q >= 1
  <2>1. b * (k - q) >= b * 1
    BY <1>4, <1>2
  <2> QED
    BY <2>1, <1>2, <1>3
<1>5. CASE k - q <= -1
  <2>1. b * (k - q) <= b * (-1)
    BY <1>5, <1>2
  <2> QED
    BY <2>1, <1>2, <1>3
<1>6. CASE k - q = 0
  BY <1>2, <1>3, <1>6 DEF r
<1> QED
  BY <1>2, <1>4, <1>5, <1>6

\* A quotient is no larger than the dividend, and smaller when it is divided by more than one.
LEMMA QuotientBound ==
  ASSUME NEW m \in Nat, NEW n \in Nat \ {0}
  PROVE  /\ m \div n \in 0 .. m
         /\ n > 1 /\ m > 0 => m \div n < m
<1> DEFINE q == m \div n
           r == m % n
<1>1. q \in Int /\ r \in 0 .. n - 1 /\ m = n * q + r
  BY DivMod
<1> HIDE DEF q, r
<1>2. q >= 0
  <2>1. CASE q <= -1
    <3>1. n * q <= n * (-1)
      BY <2>1, <1>1
    <3> QED
      BY <3>1, <1>1
  <2> QED
    BY <2>1, <1>1
<1>3. n * q >= q
  BY <1>1, <1>2
<1>4. ASSUME n > 1, m > 0 PROVE q < m
  <2>1. n * q >= 2 * q
    BY <1>1, <1>2, <1>4
  <2> QED
    BY <2>1, <1>1, <1>2, <1>4
<1>5. q \in 0 .. m
  BY <1>1, <1>2, <1>3
<1> QED
  BY <1>4, <1>5 DEF q

\* Division as C does it stays in the width of an int where it does not trap.
LEMMA QuotientType ==
  ASSUME NEW y \in Values, NEW x \in Values, x # 0, ~(x = -1 /\ y = -Half)
  PROVE  /\ Quotient(y, x) \in Values /\ Remainder(y, x) \in Values
         /\ Magnitude(Remainder(y, x)) < Magnitude(x)
<1> USE ConstantsAssumption
<1>1. Magnitude(y) \in 0 .. Half /\ Magnitude(x) \in 1 .. Half
  BY DEF Magnitude, Values
<1> DEFINE q == Magnitude(y) \div Magnitude(x)
           r == Magnitude(y) % Magnitude(x)
<1>0. \A a \in 0 .. Half, b \in 1 .. Half :
       a \div b \in Int /\ a % b \in 0 .. b - 1 /\ a = b * (a \div b) + (a % b)
  BY DivMod
<1>2. q \in Int /\ r \in 0 .. Magnitude(x) - 1 /\ Magnitude(y) = Magnitude(x) * q + r
  BY <1>1, <1>0
<1>3. q \in 0 .. Half /\ (Magnitude(x) > 1 => q < Half)
  <2>1. Magnitude(y) \in Nat /\ Magnitude(x) \in Nat \ {0} /\ Magnitude(y) \in Int
    BY <1>1 DEF Magnitude, Values
  <2>2. q \in 0 .. Magnitude(y) /\ (Magnitude(x) > 1 /\ Magnitude(y) > 0 => q < Magnitude(y))
    BY <2>1, QuotientBound
  <2> HIDE DEF q
  <2> QED
    BY <2>2, <1>1
<1>4. Quotient(y, x) = IF (y < 0) = (x < 0) THEN q ELSE -q
  BY DEF Quotient
<1> HIDE DEF q, r
<1>5. Remainder(y, x) = IF y < 0 THEN -r ELSE r
  <2>1. CASE y < 0 /\ x < 0
    BY <2>1, <1>2, <1>4 DEF Remainder, Magnitude, Values
  <2>2. CASE y < 0 /\ ~(x < 0)
    BY <2>2, <1>2, <1>4 DEF Remainder, Magnitude, Values
  <2>3. CASE ~(y < 0) /\ x < 0
    BY <2>3, <1>2, <1>4 DEF Remainder, Magnitude, Values
  <2>4. CASE ~(y < 0) /\ ~(x < 0)
    BY <2>4, <1>2, <1>4 DEF Remainder, Magnitude, Values
  <2> QED
    BY <2>1, <2>2, <2>3, <2>4
<1>6. Remainder(y, x) \in Values
  BY <1>1, <1>2, <1>5 DEF Values
<1>7. Magnitude(Remainder(y, x)) < Magnitude(x)
  BY <1>1, <1>2, <1>5 DEF Magnitude
<1>8. Quotient(y, x) \in Values
  <2>1. CASE Magnitude(x) > 1
    BY <2>1, <1>3, <1>4 DEF Values
  <2>2. CASE Magnitude(x) <= 1
    <3>1. x = 1 \/ x = -1
      BY <2>2, <1>1 DEF Magnitude, Values
    <3>2. q = Magnitude(y)
      BY <2>2, <1>1, <1>2
    <3>3. CASE x = 1
      BY <3>2, <3>3, <1>1, <1>3, <1>4 DEF Values, Magnitude
    <3>4. CASE x = -1
      BY <3>2, <3>4, <1>1, <1>3, <1>4 DEF Values, Magnitude
    <3> QED
      BY <3>1, <3>3, <3>4
  <2> QED
    BY <2>1, <2>2, <1>1
<1> QED
  BY <1>6, <1>7, <1>8

\* Every word leaves values of an int.
LEMMA ResultsType ==
  ASSUME NEW w \in Computing, NEW x \in Values, NEW y \in Values, NEW z \in Values, NEW u \in Values,
         w \in {"/", "mod", "/mod"} => x # 0 /\ ~(x = -1 /\ y = -Half)
  PROVE  Results(w, x, y, z, u) \in Seq(Values)
<1> USE ConstantsAssumption
<1>1. CASE w \in {"/", "mod", "/mod"}
  BY <1>1, QuotientType DEF Results
<1>2. CASE w \in {"+", "-", "*"}
  <2>1. \A n \in Int : Wrap(n) \in Values
    BY DEF Wrap, Values
  <2>2. x + y \in Int /\ y - x \in Int /\ x * y \in Int
    BY DEF Values
  <2> QED
    BY <1>2, <2>1, <2>2 DEF Results
<1>3. CASE w \in {">", "<", "="}
  <2>1. Flag(x < y) \in Values /\ Flag(x > y) \in Values /\ Flag(x = y) \in Values
    BY DEF Flag, Values
  <2> QED
    BY <1>3, <2>1 DEF Results
<1>4. CASE w \in {"drop", "emit", ".", "swap", "2swap", "dup", "2dup"}
  BY <1>4 DEF Results
<1>5. CASE w \in {"over", "2over", "rot"}
  BY <1>5 DEF Results
<1> QED
  BY <1>1, <1>2, <1>3, <1>4, <1>5 DEF Computing

-----------------------------------------------------------------------------
(* Sequences. *)

\* The elements of a sequence.
LEMMA ElementType ==
  ASSUME NEW S, NEW s \in Seq(S)
  PROVE  /\ Len(s) \in Nat /\ DOMAIN s = 1 .. Len(s) /\ \A i \in 1 .. Len(s) : s[i] \in S
         /\ (s # << >> => Len(s) \in Nat \ {0} /\ s[Len(s)] \in S)
OBVIOUS

\* A sequence with one element changed.
LEMMA ChangedAt ==
  ASSUME NEW S, NEW s \in Seq(S), NEW i \in 1 .. Len(s), NEW e \in S
  PROVE  LET t == [s EXCEPT ![i] = e]
         IN /\ t \in Seq(S) /\ Len(t) = Len(s)
            /\ \A j \in 1 .. Len(s) : t[j] = IF j = i THEN e ELSE s[j]
OBVIOUS

\* The first n elements.
LEMMA PrefixFacts ==
  ASSUME NEW S, NEW s \in Seq(S), NEW n \in 0 .. Len(s)
  PROVE  /\ SubSeq(s, 1, n) \in Seq(S) /\ Len(SubSeq(s, 1, n)) = n
         /\ \A i \in 1 .. n : SubSeq(s, 1, n)[i] = s[i]
OBVIOUS

\* Two sequences, one behind the other.
LEMMA ConcatFacts ==
  ASSUME NEW S, NEW s \in Seq(S), NEW t \in Seq(S)
  PROVE  /\ s \o t \in Seq(S) /\ Len(s \o t) = Len(s) + Len(t)
         /\ \A i \in 1 .. Len(s) + Len(t) : (s \o t)[i] = IF i <= Len(s) THEN s[i] ELSE t[i - Len(s)]
OBVIOUS

\* The elements from m to n.
LEMMA SliceFacts ==
  ASSUME NEW S, NEW s \in Seq(S), NEW m \in 1 .. Len(s), NEW n \in m .. Len(s)
  PROVE  /\ SubSeq(s, m, n) \in Seq(S) /\ Len(SubSeq(s, m, n)) = n - m + 1
         /\ \A i \in 1 .. n - m + 1 : SubSeq(s, m, n)[i] = s[m + i - 1]
OBVIOUS

\* Sequences are the same when their elements are.
LEMMA SameSequence ==
  ASSUME NEW S, NEW s \in Seq(S), NEW t \in Seq(S), Len(s) = Len(t),
         \A i \in 1 .. Len(s) : s[i] = t[i]
  PROVE  s = t
OBVIOUS

\* A sequence cut in two.
LEMMA CutFacts ==
  ASSUME NEW S, NEW s \in Seq(S), NEW m \in 0 .. Len(s)
  PROVE  /\ SubSeq(s, 1, m) \in Seq(S) /\ Len(SubSeq(s, 1, m)) = m
         /\ \A i \in 1 .. m : SubSeq(s, 1, m)[i] = s[i]
         /\ SubSeq(s, m + 1, Len(s)) \in Seq(S) /\ Len(SubSeq(s, m + 1, Len(s))) = Len(s) - m
         /\ \A i \in 1 .. Len(s) - m : SubSeq(s, m + 1, Len(s))[i] = s[m + i]
OBVIOUS

\* A sequence with its last element changed.
LEMMA TopChanged ==
  ASSUME NEW S, NEW s \in Seq(S), s # << >>, NEW e \in S
  PROVE  LET t == [s EXCEPT ![Len(s)] = e]
         IN /\ Len(s) \in Nat \ {0} /\ s[Len(s)] \in S
            /\ t \in Seq(S) /\ Len(t) = Len(s)
            /\ t[Len(s)] = e
            /\ \A j \in 1 .. Len(s) : j # Len(s) => t[j] = s[j]
OBVIOUS

-----------------------------------------------------------------------------
(* The data stack. *)

\* What push() leaves is in its array, what was there before stays, and the
\* new values follow as long as there is room.
LEMMA PushedFacts ==
  ASSUME NEW s \in Seq(Values), Len(s) <= StackSize, NEW r \in Seq(Values)
  PROVE  /\ Pushed(s, r) \in Seq(Values)
         /\ Len(Pushed(s, r)) = IF Len(r) <= StackSize - Len(s) THEN Len(s) + Len(r) ELSE StackSize
         /\ \A i \in 1 .. Len(s) : Pushed(s, r)[i] = s[i]
         /\ \A i \in 1 .. Len(r) : Len(s) + i <= StackSize => Pushed(s, r)[Len(s) + i] = r[i]
<1> DEFINE n == IF Len(r) <= StackSize - Len(s) THEN Len(r) ELSE StackSize - Len(s)
           p == SubSeq(r, 1, n)
<1>1. n \in 0 .. Len(r) /\ Len(s) \in Nat /\ Len(r) \in Nat /\ StackSize \in Nat
  BY ConstantsAssumption
<1>2. p \in Seq(Values) /\ Len(p) = n /\ \A i \in 1 .. n : p[i] = r[i]
  BY <1>1, PrefixFacts
<1>3. Pushed(s, r) = s \o p
  BY DEF Pushed
<1> HIDE DEF p
<1>4. /\ s \o p \in Seq(Values) /\ Len(s \o p) = Len(s) + Len(p)
      /\ \A i \in 1 .. Len(s) + Len(p) : (s \o p)[i] = IF i <= Len(s) THEN s[i] ELSE p[i - Len(s)]
  BY <1>2, ConcatFacts
<1>5. /\ Len(Pushed(s, r)) = Len(s) + n
      /\ \A i \in 1 .. Len(s) : Pushed(s, r)[i] = s[i]
  BY <1>1, <1>2, <1>3, <1>4
<1>6. ASSUME NEW i \in 1 .. Len(r), Len(s) + i <= StackSize PROVE Pushed(s, r)[Len(s) + i] = r[i]
  <2>1. i \in 1 .. n /\ Len(s) + i \in 1 .. Len(s) + Len(p) /\ Len(s) + i - Len(s) = i
    BY <1>1, <1>2, <1>6
  <2> QED
    BY <2>1, <1>1, <1>2, <1>3, <1>4
<1> QED
  BY <1>1, <1>3, <1>4, <1>5, <1>6

\* pop() returns a value, 0 when there is none.
LEMMA PoppedType ==
  ASSUME stack \in Seq(Values), NEW k \in Nat \ {0}
  PROVE  Popped(k) \in Values
BY ConstantsAssumption DEF Popped, Values

\* What is left below the values a word takes.
LEMMA RestFacts ==
  ASSUME stack \in Seq(Values), Len(stack) <= StackSize, NEW n \in Nat
  PROVE  /\ Rest(n) \in Seq(Values) /\ Len(Rest(n)) <= StackSize
         /\ Len(Rest(n)) = IF n <= Len(stack) THEN Len(stack) - n ELSE 0
         /\ \A i \in 1 .. Len(Rest(n)) : Rest(n)[i] = stack[i]
<1> DEFINE m == IF n <= Len(stack) THEN Len(stack) - n ELSE 0
<1>1. m \in 0 .. Len(stack) /\ Len(stack) \in Nat
  OBVIOUS
<1>2. Rest(n) = SubSeq(stack, 1, m)
  BY DEF Rest
<1> HIDE DEF m
<1>3. Rest(n) \in Seq(Values) /\ Len(Rest(n)) = m /\ \A i \in 1 .. m : Rest(n)[i] = stack[i]
  BY <1>1, <1>2, PrefixFacts
<1> QED
  BY <1>1, <1>3, ConstantsAssumption DEF m

-----------------------------------------------------------------------------
(* The dictionary and the activations. *)

\* The parts of an activation.
LEMMA ActivationType ==
  \A f \in Activation : /\ f.code \in Seq(Tokens) /\ Len(f.code) \in Nat
                        /\ DOMAIN f.code = 1 .. Len(f.code)
                        /\ f.at \in Nat \ {0} /\ f.phase \in Phases /\ f.word \in Nat
BY ElementType DEF Activation

\* A set of natural numbers has a smallest element.
LEMMA Smallest ==
  ASSUME NEW T \in SUBSET Nat, T # {}
  PROVE  \E m \in T : \A k \in T : m <= k
<1> DEFINE R == OpToRel(<, Nat)
<1>1. IsWellFoundedOn(R, Nat)
  BY NatLessThanWellFounded
<1>2. \A x, y \in Nat : y < x => <<y, x>> \in R
  BY DEF OpToRel
<1> HIDE DEF R
<1>3. PICK x \in T : \A y \in T : <<y, x>> \notin R
  BY <1>1, WFMin
<1>4. \A y \in T : ~(y < x)
  BY <1>2, <1>3
<1>5. \A y \in T : x <= y
  BY <1>4
<1> QED
  BY <1>5

\* find_word() returns the first entry of that name, when there is one.
LEMMA EntryFacts ==
  ASSUME dictionary \in Seq(Definition), NEW t, Known(t)
  PROVE  /\ Entry(t) \in 1 .. Len(dictionary) /\ dictionary[Entry(t)].name = t
         /\ \A j \in 1 .. Entry(t) - 1 : dictionary[j].name # t
         /\ Code(t) \in Seq(Tokens) /\ Code(t) = dictionary[Entry(t)].code
<1> DEFINE T == {i \in 1 .. Len(dictionary) : dictionary[i].name = t}
<1>1. DOMAIN dictionary = 1 .. Len(dictionary) /\ Len(dictionary) \in Nat
  OBVIOUS
<1>2. T \in SUBSET Nat /\ T # {}
  BY <1>1 DEF Known
<1>3. PICK m \in T : \A k \in T : m <= k
  BY <1>2, Smallest
<1>4. m \in DOMAIN dictionary /\ dictionary[m].name = t /\ \A j \in 1 .. m - 1 : dictionary[j].name # t
  BY <1>1, <1>3
<1>5. /\ Entry(t) \in DOMAIN dictionary /\ dictionary[Entry(t)].name = t
      /\ \A j \in 1 .. Entry(t) - 1 : dictionary[j].name # t
  BY <1>4 DEF Entry
<1>6. dictionary[Entry(t)] \in Definition
  BY <1>1, <1>5, ElementType
<1>7. Code(t) \in Seq(Tokens)
  BY <1>6 DEF Code, Definition
<1> QED
  BY <1>1, <1>5, <1>7 DEF Code

\* The semicolon that ends a definition is the first one, but for the first token.
LEMMA EndFacts ==
  ASSUME frames \in Seq(Activation),
         frames # << >>, Ends # {}
  PROVE  /\ End \in Top.at + 3 .. Len(Top.code) /\ Top.code[End] = ";"
         /\ \A j \in Top.at + 3 .. End - 1 : Top.code[j] # ";"
<1>1. Top \in Activation
  BY ElementType DEF Top
<1>2. Top.at \in Nat /\ Len(Top.code) \in Nat
  BY <1>1, ActivationType
<1>3. Ends \in SUBSET Nat
  <2>1. \A i \in Top.at + 3 .. Len(Top.code) : i \in Nat
    BY <1>2
  <2>2. \A i \in Ends : i \in Top.at + 3 .. Len(Top.code)
    BY DEF Ends
  <2> QED
    BY <2>1, <2>2
<1>4. PICK m \in Ends : \A k \in Ends : m <= k
  BY <1>3, Smallest
<1>5. End \in Ends /\ \A j \in Ends : End <= j
  BY <1>4 DEF End
<1>6. End \in Top.at + 3 .. Len(Top.code) /\ Top.code[End] = ";"
  BY <1>5 DEF Ends
<1>7. ASSUME NEW j \in Top.at + 3 .. End - 1, Top.code[j] = ";" PROVE FALSE
  <2>0. \A a, n \in Nat : \A e \in a .. n : \A k \in a .. e - 1 : k \in a .. n /\ ~(e <= k)
    OBVIOUS
  <2>1. j \in Top.at + 3 .. Len(Top.code) /\ ~(End <= j)
    <3>1. Top.at + 3 \in Nat /\ Len(Top.code) \in Nat
      BY <1>2
    <3> QED
      BY <2>0, <3>1, <1>6
  <2>2. j \in Ends
    BY <2>1, <1>7 DEF Ends
  <2> QED
    BY <2>1, <2>2, <1>5
<1> QED
  BY <1>6, <1>7

-----------------------------------------------------------------------------

\* The innermost activation goes on at token i in phase p.
Moved(i, p) ==
  /\ Len(frames') = Len(frames) /\ frames' \in Seq(Activation)
  /\ \A j \in 1 .. Len(frames) : frames'[j].code = frames[j].code /\ frames'[j].word = frames[j].word
  /\ \A j \in 1 .. Len(frames) - 1 : frames'[j].at = frames[j].at /\ frames'[j].phase = frames[j].phase
  /\ frames'[Len(frames)].at = i /\ frames'[Len(frames)].phase = p

\* The innermost activation is at one of its tokens or behind them.
LEMMA TopType ==
  ASSUME TypeOK, frames # << >>
  PROVE  /\ frames \in Seq(Activation) /\ Len(frames) \in Nat \ {0} /\ DOMAIN frames = 1 .. Len(frames)
         /\ Top \in Activation /\ Top = frames[Len(frames)]
         /\ Top.code \in Seq(Tokens) /\ Len(Top.code) \in Nat /\ DOMAIN Top.code = 1 .. Len(Top.code)
         /\ Top.at \in 1 .. Len(Top.code) + 1 /\ Top.phase \in Phases
         /\ Top.word \in 0 .. Len(dictionary)
         /\ (More => Token \in Tokens)
<1>1. /\ frames \in Seq(Activation) /\ Len(frames) \in Nat \ {0} /\ DOMAIN frames = 1 .. Len(frames)
      /\ Top \in Activation /\ Top = frames[Len(frames)]
  <2>1. frames \in Seq(Activation)
    BY DEF TypeOK, Activation
  <2> QED
    BY <2>1, ElementType DEF Top
<1>2. /\ Top.code \in Seq(Tokens) /\ Len(Top.code) \in Nat /\ DOMAIN Top.code = 1 .. Len(Top.code)
      /\ Top.at \in Nat \ {0} /\ Top.phase \in Phases /\ Top.word \in Nat
  BY <1>1, ActivationType
<1>3. Top.at <= Len(Top.code) + 1 /\ Top.word <= Len(dictionary)
  <2>1. \A i \in DOMAIN frames : frames[i].at <= Len(frames[i].code) + 1 /\ frames[i].word <= Len(dictionary)
    BY DEF TypeOK
  <2>2. Len(frames) \in DOMAIN frames
    BY <1>1
  <2> QED
    BY <1>1, <2>1, <2>2
<1>4. Top.at \in 1 .. Len(Top.code) + 1 /\ Top.word \in 0 .. Len(dictionary)
  <2>1. Len(dictionary) \in Nat
    BY DEF TypeOK
  <2> QED
    BY <1>2, <1>3, <2>1
<1>5. More => Token \in Tokens
  BY <1>2, <1>4 DEF More, Token
<1> QED
  BY <1>1, <1>2, <1>4, <1>5

\* The two ways in which an action moves the innermost activation.
LEMMA Moves ==
  ASSUME TypeOK, frames # << >>, NEW i \in Nat \ {0}
  PROVE  /\ Jump(i) => Moved(i, Top.phase)
         /\ \A p \in Phases :
              frames' = [frames EXCEPT ![Len(frames)].at = i, ![Len(frames)].phase = p] => Moved(i, p)
<1> DEFINE n == Len(frames)
<1>1. frames \in Seq(Activation) /\ n \in Nat \ {0} /\ Top \in Activation /\ Top = frames[n]
  BY TopType
<1>2. ASSUME NEW e \in Activation, frames' = [frames EXCEPT ![n] = e], e.code = Top.code, e.word = Top.word
      PROVE  Moved(e.at, e.phase)
  <2>1. /\ frames' \in Seq(Activation) /\ Len(frames') = n /\ frames'[n] = e
        /\ \A j \in 1 .. n : j # n => frames'[j] = frames[j]
    BY <1>1, <1>2, TopChanged
  <2> QED
    BY <1>1, <1>2, <2>1 DEF Moved
<1>3. ASSUME Jump(i) PROVE Moved(i, Top.phase)
  <2> DEFINE e == [Top EXCEPT !.at = i]
  <2>1. e \in Activation /\ e.code = Top.code /\ e.word = Top.word /\ e.at = i /\ e.phase = Top.phase
    BY <1>1 DEF Activation
  <2>2. frames' = [frames EXCEPT ![n] = e]
    BY <1>3, <1>1 DEF Jump
  <2> HIDE DEF e
  <2> QED
    BY <1>2, <2>1, <2>2
<1>4. ASSUME NEW p \in Phases,
             frames' = [frames EXCEPT ![Len(frames)].at = i, ![Len(frames)].phase = p]
      PROVE  Moved(i, p)
  <2> DEFINE e == [Top EXCEPT !.at = i, !.phase = p]
  <2>1. e \in Activation /\ e.code = Top.code /\ e.word = Top.word /\ e.at = i /\ e.phase = p
    BY <1>1 DEF Activation
  <2>2. frames' = [frames EXCEPT ![n] = e]
    BY <1>4, <1>1
  <2> HIDE DEF e
  <2> QED
    BY <1>2, <2>1, <2>2
<1> QED
  BY <1>3, <1>4

FramesOK ==
  /\ frames \in Seq(Activation) /\ Len(frames) <= MaxDepth
  /\ \A i \in 1 .. Len(frames) : frames[i].at <= Len(frames[i].code) + 1
                               /\ frames[i].word <= Len(dictionary)

\* TypeOK in the terms of this module.
LEMMA TypeParts ==
  TypeOK <=> /\ mode \in Modes /\ source \in {"file", "terminal"} /\ clean \in BOOLEAN /\ typed \in Nat
             /\ stack \in Seq(Values) /\ Len(stack) <= StackSize
             /\ dictionary \in Seq(Definition)
             /\ FramesOK
             /\ (mode = "eval" => frames # << >>)
<1>1. ASSUME frames \in Seq(Activation) PROVE DOMAIN frames = 1 .. Len(frames)
  BY <1>1, ElementType
<1> QED
  BY <1>1 DEF TypeOK, FramesOK, Activation, Definition

\* TypeOK after a step, from its parts.
LEMMA TypeNow ==
  ASSUME mode' \in Modes, source' \in {"file", "terminal"}, clean' \in BOOLEAN, typed' \in Nat,
         stack' \in Seq(Values), Len(stack') <= StackSize,
         dictionary' \in Seq(Definition),
         FramesOK',
         mode' = "eval" => frames' # << >>
  PROVE  TypeOK'
<1>1. frames' \in Seq(Activation) /\ DOMAIN frames' = 1 .. Len(frames')
  BY ElementType DEF FramesOK
<1> QED
  BY <1>1 DEF TypeOK, FramesOK, Activation, Definition

\* find_word() and overwriting: every name stays at its place, a new one comes last.
LEMMA DefineFacts ==
  ASSUME dictionary \in Seq(Definition), NEW name \in Tokens, NEW body \in Seq(Tokens)
  PROVE  LET d == Define(name, body)
         IN /\ d \in Seq(Definition)
            /\ Len(d) = IF Known(name) THEN Len(dictionary) ELSE Len(dictionary) + 1
            /\ \A i \in 1 .. Len(dictionary) : /\ d[i].name = dictionary[i].name
                                             /\ (d[i].code = dictionary[i].code \/ d[i].code = body)
                                             /\ (~Known(name) => d[i] = dictionary[i])
            /\ (~Known(name) => d[Len(dictionary) + 1] = [name |-> name, code |-> body])
<1> DEFINE n == Len(dictionary)
<1>1. n \in Nat /\ DOMAIN dictionary = 1 .. n /\ \A i \in 1 .. n : dictionary[i] \in Definition
  BY ElementType
<1>2. CASE Known(name)
  <2> DEFINE e == Entry(name)
             f == [dictionary[e] EXCEPT !.code = body]
  <2>1. e \in 1 .. n
    BY <1>2, EntryFacts
  <2>2. f \in Definition /\ f.name = dictionary[e].name /\ f.code = body
    BY <1>1, <2>1 DEF Definition
  <2>3. Define(name, body) = [dictionary EXCEPT ![e] = f]
    BY <1>2 DEF Define
  <2> HIDE DEF e, f
  <2>4. /\ [dictionary EXCEPT ![e] = f] \in Seq(Definition)
        /\ Len([dictionary EXCEPT ![e] = f]) = n
        /\ \A i \in 1 .. n : [dictionary EXCEPT ![e] = f][i] = IF i = e THEN f ELSE dictionary[i]
    BY <2>1, <2>2, ChangedAt
  <2> QED
    BY <1>2, <2>2, <2>3, <2>4
<1>3. CASE ~Known(name)
  <2> DEFINE f == [name |-> name, code |-> body]
  <2>1. f \in Definition
    BY DEF Definition
  <2>2. Define(name, body) = Append(dictionary, f)
    BY <1>3 DEF Define
  <2> HIDE DEF f
  <2>3. /\ Append(dictionary, f) \in Seq(Definition) /\ Len(Append(dictionary, f)) = n + 1
        /\ \A i \in 1 .. n : Append(dictionary, f)[i] = dictionary[i]
        /\ Append(dictionary, f)[n + 1] = f
    BY <2>1, AppendProperties
  <2> QED
    BY <1>3, <2>2, <2>3 DEF f
<1> QED
  BY <1>2, <1>3

\* A move within the code keeps the types of the activations.
LEMMA MovedType ==
  ASSUME TypeOK, frames # << >>, NEW i \in Nat \ {0}, NEW p \in Phases, Moved(i, p),
         i <= Len(Top.code) + 1, Len(dictionary) <= Len(dictionary'), Len(dictionary') \in Nat
  PROVE  FramesOK' /\ frames' # << >>
<1> DEFINE n == Len(frames)
<1>1. /\ frames \in Seq(Activation) /\ n \in Nat \ {0} /\ Top = frames[n] /\ n <= MaxDepth
      /\ \A j \in 1 .. n : frames[j].at <= Len(frames[j].code) + 1 /\ frames[j].word <= Len(dictionary)
  BY TopType, TypeParts DEF FramesOK
<1>2. /\ Len(frames') = n /\ frames' \in Seq(Activation)
      /\ \A j \in 1 .. n : frames'[j].code = frames[j].code /\ frames'[j].word = frames[j].word
      /\ \A j \in 1 .. n - 1 : frames'[j].at = frames[j].at
      /\ frames'[n].at = i
  BY DEF Moved
<1>3. ASSUME NEW j \in 1 .. n
      PROVE  frames'[j].at <= Len(frames'[j].code) + 1 /\ frames'[j].word <= Len(dictionary')
  <2>1. frames[j] \in Activation /\ Len(dictionary) \in Nat
    BY <1>1, ElementType, TypeParts
  <2>2. frames[j].word \in Nat
    BY <2>1, ActivationType
  <2>3. frames'[j].word <= Len(dictionary')
    BY <1>1, <1>2, <2>1, <2>2
  <2>4. CASE j = n
    BY <1>1, <1>2, <2>3, <2>4
  <2>5. CASE j # n
    <3>1. j \in 1 .. n - 1
      BY <1>1, <2>5
    <3> QED
      BY <1>1, <1>2, <2>3, <3>1
  <2> QED
    BY <2>4, <2>5
<1>4. frames' # << >>
  BY <1>1, <1>2, EmptySeq
<1> QED
  BY <1>1, <1>2, <1>3, <1>4 DEF FramesOK

\* A new activation.
LEMMA FrameType ==
  ASSUME NEW code \in Seq(Tokens), NEW w \in Nat
  PROVE  Frame(code, w) \in Activation
BY DEF Frame, Activation, Phases

\* A line that is read has the right types.
LEMMA ExecuteType ==
  ASSUME TypeOK, NEW line \in Seq(Tokens), Execute(line)
  PROVE  TypeOK'
<1>1. Frame(line, 0) \in Activation /\ Frame(line, 0).at = 1 /\ Frame(line, 0).word = 0
      /\ Frame(line, 0).code = line /\ Len(line) \in Nat
  BY FrameType, ElementType DEF Frame
<1>2. /\ frames' \in Seq(Activation) /\ Len(frames') = 1 /\ frames'[1] = Frame(line, 0)
      /\ frames' # << >>
  BY <1>1 DEF Execute
<1>3. dictionary \in Seq(Definition) /\ Len(dictionary) \in Nat
  BY TypeParts, ElementType
<1>4. FramesOK'
  <2>1. \A i \in 1 .. 1 : i = 1
    OBVIOUS
  <2> QED
    BY <1>1, <1>2, <1>3, <2>1, ConstantsAssumption DEF FramesOK, Execute
<1>5. mode' = "eval" /\ typed' \in Nat
  BY TypeParts DEF Execute
<1> QED
  BY <1>2, <1>4, <1>5, TypeParts, TypeNow DEF Execute, Modes

\* The program may end anywhere.
LEMMA StopType ==
  ASSUME TypeOK, NEW how \in {"gone", "lost"}, Stop(how)
  PROVE  TypeOK'
BY TypeParts, TypeNow DEF Stop, Modes, FramesOK

\* eval() returns.
LEMMA LeaveFacts ==
  ASSUME TypeOK, frames # << >>, NEW c \in Nat, Leave(c)
  PROVE  /\ frames' \in Seq(Activation) /\ Len(frames') = Len(frames) - 1
         /\ \A j \in 1 .. Len(frames) - 1 : frames'[j] = frames[j]
         /\ TypeOK'
<1>1. frames \in Seq(Activation) /\ Len(frames) \in Nat \ {0}
  BY TopType
<1>2. Len(frames) - 1 \in 0 .. Len(frames)
  BY <1>1
<1>3. frames' = SubSeq(frames, 1, Len(frames) - 1)
  BY DEF Leave, Enclosing
<1>4. /\ frames' \in Seq(Activation) /\ Len(frames') = Len(frames) - 1
      /\ \A j \in 1 .. Len(frames) - 1 : frames'[j] = frames[j]
  BY <1>1, <1>2, <1>3, PrefixFacts
<1>5. FramesOK'
  BY <1>1, <1>4, TypeParts, ConstantsAssumption DEF FramesOK, Leave
<1>6. mode' = "eval" => frames' # << >>
  <2>1. mode' = "eval" => Len(frames) > 1
    BY DEF Leave
  <2> QED
    BY <2>1, <1>1, <1>4
<1>7. mode' \in Modes
  BY DEF Leave, Modes
<1> QED
  BY <1>4, <1>5, <1>6, <1>7, TypeParts, TypeNow DEF Leave

\* eval() calls itself.
LEMMA CallFacts ==
  ASSUME TypeOK, Running, Known(Token),
         frames' = Append([frames EXCEPT ![Len(frames)].at = @ + 1], Frame(Code(Token), Entry(Token)))
  PROVE  /\ frames' \in Seq(Activation) /\ Len(frames') = Len(frames) + 1
         /\ \A j \in 1 .. Len(frames) - 1 : frames'[j] = frames[j]
         /\ frames'[Len(frames)] = [Top EXCEPT !.at = Top.at + 1]
         /\ frames'[Len(frames) + 1] = Frame(Code(Token), Entry(Token))
         /\ Entry(Token) \in 1 .. Len(dictionary)
<1> DEFINE n == Len(frames)
           e == [Top EXCEPT !.at = Top.at + 1]
           f == Frame(Code(Token), Entry(Token))
           s == [frames EXCEPT ![n] = e]
<1>1. frames # << >> /\ dictionary \in Seq(Definition)
  BY TypeParts DEF Running
<1>2. /\ frames \in Seq(Activation) /\ n \in Nat \ {0} /\ Top = frames[n] /\ Top \in Activation
      /\ Top.at \in Nat \ {0}
  BY <1>1, TopType
<1>3. e \in Activation
  <2>1. Top.at + 1 \in Nat \ {0}
    BY <1>2
  <2> QED
    BY <1>2, <2>1 DEF Activation
<1>4. Code(Token) \in Seq(Tokens) /\ Entry(Token) \in 1 .. Len(dictionary) /\ Entry(Token) \in Nat
  BY <1>1, EntryFacts
<1>5. f \in Activation
  BY <1>4, FrameType
<1>6. frames' = Append(s, f)
  BY <1>2
<1> HIDE DEF e, f
<1>7. s \in Seq(Activation) /\ Len(s) = n /\ s[n] = e /\ \A j \in 1 .. n : j # n => s[j] = frames[j]
  BY <1>1, <1>2, <1>3, TopChanged
<1> HIDE DEF s
<1>8. /\ Append(s, f) \in Seq(Activation) /\ Len(Append(s, f)) = Len(s) + 1
      /\ \A j \in 1 .. Len(s) : Append(s, f)[j] = s[j]
      /\ Append(s, f)[Len(s) + 1] = f
  BY <1>5, <1>7, AppendProperties
<1>9. /\ frames'[n] = e /\ frames'[n + 1] = f
      /\ \A j \in 1 .. n - 1 : frames'[j] = frames[j]
  BY <1>2, <1>6, <1>7, <1>8
<1> QED
  BY <1>4, <1>6, <1>7, <1>8, <1>9 DEF e, f

\* A call keeps the types, and the activations on the C stack.
LEMMA CallType ==
  ASSUME TypeOK, Call
  PROVE  TypeOK'
<1>1. CASE Len(frames) = MaxDepth
  <2>1. Stop("lost")
    BY <1>1 DEF Call
  <2> QED
    BY <2>1, StopType
<1>2. CASE Len(frames) # MaxDepth
  <2> DEFINE n == Len(frames)
  <2>1. /\ Running /\ Known(Token) /\ More
        /\ frames' = Append([frames EXCEPT ![Len(frames)].at = @ + 1], Frame(Code(Token), Entry(Token)))
        /\ UNCHANGED <<mode, source, stack, dictionary, clean, typed>>
    BY <1>2 DEF Call, Running
  <2>2. /\ frames' \in Seq(Activation) /\ Len(frames') = n + 1
        /\ \A j \in 1 .. n - 1 : frames'[j] = frames[j]
        /\ frames'[n] = [Top EXCEPT !.at = Top.at + 1]
        /\ frames'[n + 1] = Frame(Code(Token), Entry(Token))
        /\ Entry(Token) \in 1 .. Len(dictionary)
    BY <2>1, CallFacts
  <2>3. frames # << >> /\ dictionary \in Seq(Definition) /\ FramesOK
    BY TypeParts DEF Call, Running
  <2>4. /\ n \in Nat \ {0} /\ Top = frames[n] /\ Top \in Activation /\ Top.at \in Nat \ {0}
        /\ Len(Top.code) \in Nat /\ Top.word \in 0 .. Len(dictionary)
    BY <2>3, TopType
  <2>5. frames'[n].at = Top.at + 1 /\ frames'[n].code = Top.code /\ frames'[n].word = Top.word
    BY <2>2, <2>4 DEF Activation
  <2>6. Top.at + 1 <= Len(Top.code) + 1
    BY <2>1, <2>4 DEF More
  <2>7. Code(Token) \in Seq(Tokens) /\ Len(Code(Token)) \in Nat
    BY <2>1, <2>3, EntryFacts, ElementType
  <2>8. frames'[n + 1].at = 1 /\ frames'[n + 1].code = Code(Token) /\ frames'[n + 1].word = Entry(Token)
    BY <2>2 DEF Frame
  <2>9. Len(dictionary) \in Nat
    BY <2>3
  <2>10. ASSUME NEW j \in 1 .. n + 1
         PROVE  frames'[j].at <= Len(frames'[j].code) + 1 /\ frames'[j].word <= Len(dictionary)
    <3>1. CASE j = n + 1
      BY <3>1, <2>2, <2>7, <2>8, <2>9
    <3>2. CASE j = n
      BY <3>2, <2>4, <2>5, <2>6, <2>9
    <3>3. CASE j \in 1 .. n - 1
      BY <3>3, <2>2, <2>3, <2>4 DEF FramesOK
    <3> QED
      BY <3>1, <3>2, <3>3, <2>4
  <2>11. n + 1 <= MaxDepth
    BY <1>2, <2>3, <2>4, ConstantsAssumption DEF FramesOK
  <2>12. FramesOK' /\ frames' # << >>
    BY <2>1, <2>2, <2>4, <2>10, <2>11 DEF FramesOK
  <2> QED
    BY <2>1, <2>12, TypeParts, TypeNow
<1> QED
  BY <1>1, <1>2

\* A move that may change the stack keeps the types.
LEMMA MoveType ==
  ASSUME TypeOK, frames # << >>, NEW i \in 1 .. Len(Top.code) + 1, NEW p \in Phases, Moved(i, p),
         UNCHANGED <<mode, source, dictionary, clean, typed>>,
         stack' \in Seq(Values), Len(stack') <= StackSize
  PROVE  TypeOK'
<1>1. dictionary \in Seq(Definition) /\ Len(dictionary) \in Nat
  BY TypeParts, ElementType
<1>2. i \in Nat \ {0} /\ i <= Len(Top.code) + 1
  BY TopType
<1>3. FramesOK' /\ frames' # << >>
  BY <1>1, <1>2, MovedType
<1> QED
  BY <1>3, TypeParts, TypeNow

\* What is known while tokens are run.
LEMMA RunningType ==
  ASSUME TypeOK, Running
  PROVE  /\ frames # << >> /\ Top.phase = "run" /\ "run" \in Phases /\ More
         /\ Top.at \in 1 .. Len(Top.code) /\ Len(Top.code) \in Nat /\ Token \in Tokens
         /\ stack \in Seq(Values) /\ Len(stack) <= StackSize
BY TopType, TypeParts DEF Running, More, Phases

\* words_exist() goes on to the next token.
LEMMA CheckTokenMoves ==
  ASSUME TypeOK, CheckToken
  PROVE  /\ frames # << >> /\ Top.at \in 1 .. Len(Top.code) /\ PhaseAfter \in Phases \ {"run"}
         /\ Moved(Top.at + 1, PhaseAfter)
<1>1. frames # << >> /\ More /\ Top.phase # "run"
  BY TypeParts DEF CheckToken, Checking
<1>2. Top.at \in 1 .. Len(Top.code) /\ Top.phase \in Phases \ {"run"} /\ Top = frames[Len(frames)]
      /\ Top.at + 1 \in Nat \ {0}
  BY <1>1, TopType DEF More
<1>3. PhaseAfter \in Phases \ {"run"}
  BY <1>2 DEF PhaseAfter, Phases
<1>4. frames' = [frames EXCEPT ![Len(frames)].at = Top.at + 1, ![Len(frames)].phase = PhaseAfter]
  BY <1>2 DEF CheckToken
<1> QED
  BY <1>1, <1>2, <1>3, <1>4, Moves

\* words_exist() has come to the end.
LEMMA CheckedMoves ==
  ASSUME TypeOK, Checked
  PROVE  frames # << >> /\ Top.phase # "run" /\ Top.at = Len(Top.code) + 1 /\ Moved(1, "run")
<1>1. frames # << >> /\ ~More /\ Top.phase # "run"
  BY TypeParts DEF Checked, Checking
<1>2. Top.at = Len(Top.code) + 1
  BY <1>1, TopType DEF More
<1>3. "run" \in Phases /\ 1 \in Nat \ {0}
  BY DEF Phases
<1> QED
  BY <1>1, <1>2, <1>3, Moves DEF Checked

\* Running goes on at another token.
LEMMA JumpMoves ==
  ASSUME TypeOK, Running, NEW i \in 1 .. Len(Top.code) + 1, Jump(i)
  PROVE  Moved(i, "run")
<1>1. i \in Nat \ {0}
  BY RunningType
<1> QED
  BY <1>1, RunningType, Moves

\* A number is pushed.
LEMMA NumberType ==
  ASSUME TypeOK, Number
  PROVE  TypeOK' /\ Moved(Top.at + 1, "run")
<1>1. Running /\ Value[Token] \in Values
  BY ConstantsAssumption DEF Number
<1>2. Top.at + 1 \in 1 .. Len(Top.code) + 1
  BY <1>1, RunningType
<1>3. Moved(Top.at + 1, "run")
  BY <1>1, <1>2, JumpMoves DEF Number
<1>4. stack' \in Seq(Values) /\ Len(stack') <= StackSize
  <2> DEFINE r == <<Value[Token]>>
  <2>1. r \in Seq(Values)
    BY <1>1
  <2>2. stack \in Seq(Values) /\ Len(stack) <= StackSize
    BY <1>1, RunningType
  <2> HIDE DEF r
  <2>3. Pushed(stack, r) \in Seq(Values) /\ Len(Pushed(stack, r)) <= StackSize
    BY <2>1, <2>2, PushedFacts, ElementType, ConstantsAssumption
  <2> QED
    BY <2>3 DEF Number, r
<1> QED
  BY <1>1, <1>2, <1>3, <1>4, RunningType, MoveType DEF Number

\* A token that does nothing.
LEMMA NothingType ==
  ASSUME TypeOK, Nothing
  PROVE  TypeOK' /\ Moved(Top.at + 1, "run")
<1>1. Running
  BY DEF Nothing, IsNative
<1>2. Top.at + 1 \in 1 .. Len(Top.code) + 1
  BY <1>1, RunningType
<1>3. Moved(Top.at + 1, "run")
  BY <1>1, <1>2, JumpMoves DEF Nothing
<1> QED
  BY <1>1, <1>2, <1>3, RunningType, MoveType DEF Nothing

\* A string is printed: one token, or the program faults.
LEMMA PrintStringType ==
  ASSUME TypeOK, PrintString
  PROVE  /\ TypeOK'
         /\ Running /\ Token = DotQuote
         /\ \/ UNCHANGED <<frames, dictionary, clean>>
            \/ Top.at < Len(Top.code) /\ Moved(Top.at + 2, "run") /\ UNCHANGED <<dictionary, clean>>
<1>1. Running /\ Token = DotQuote
  BY DEF PrintString, IsNative
<1>2. CASE Top.at = Len(Top.code)
  <2>1. Stop("lost")
    BY <1>2 DEF PrintString
  <2> QED
    BY <2>1, <1>1, StopType DEF Stop
<1>3. CASE Top.at # Len(Top.code)
  <2>1. Top.at + 2 \in 1 .. Len(Top.code) + 1 /\ Top.at < Len(Top.code)
    BY <1>1, <1>3, RunningType
  <2>2. Moved(Top.at + 2, "run")
    BY <1>1, <1>3, <2>1, JumpMoves DEF PrintString
  <2> QED
    BY <1>1, <1>3, <2>1, <2>2, RunningType, MoveType DEF PrintString
<1> QED
  BY <1>2, <1>3

\* A word on the stack: it traps or leaves values.
LEMMA ComputeType ==
  ASSUME TypeOK, Compute
  PROVE  /\ TypeOK'
         /\ Running /\ Token \in Computing
         /\ UNCHANGED <<dictionary, clean>>
         /\ UNCHANGED frames \/ Moved(Top.at + 1, "run")
<1>1. Running /\ Token \in Computing
  BY DEF Compute, IsNative
<1>2. CASE Traps(Token)
  <2>1. Stop("lost")
    BY <1>2 DEF Compute
  <2> QED
    BY <2>1, <1>1, StopType DEF Stop
<1>3. CASE ~Traps(Token)
  <2> DEFINE r == Results(Token, Popped(1), Popped(2), Popped(3), Popped(4))
             s == Rest(Pops(Token))
  <2>1. Top.at + 1 \in 1 .. Len(Top.code) + 1 /\ stack \in Seq(Values) /\ Len(stack) <= StackSize
    BY <1>1, RunningType
  <2>2. Moved(Top.at + 1, "run")
    BY <1>1, <1>3, <2>1, JumpMoves DEF Compute
  <2>3. Popped(1) \in Values /\ Popped(2) \in Values /\ Popped(3) \in Values /\ Popped(4) \in Values
    BY <2>1, PoppedType
  <2>4. Token \in {"/", "mod", "/mod"} => Popped(1) # 0 /\ ~(Popped(1) = -1 /\ Popped(2) = -Half)
    BY <1>3 DEF Traps
  <2>5. r \in Seq(Values)
    BY <1>1, <2>3, <2>4, ResultsType
  <2>6. Pops(Token) \in Nat
    BY DEF Pops
  <2>7. s \in Seq(Values) /\ Len(s) <= StackSize
    BY <2>1, <2>6, RestFacts
  <2>8. stack' = Pushed(s, r) /\ UNCHANGED <<mode, source, dictionary, clean, typed>>
    BY <1>3 DEF Compute
  <2> HIDE DEF r, s
  <2>9. Pushed(s, r) \in Seq(Values) /\ Len(Pushed(s, r)) <= StackSize
    BY <2>5, <2>7, PushedFacts, ElementType, ConstantsAssumption
  <2> QED
    BY <1>1, <2>1, <2>2, <2>8, <2>9, RunningType, MoveType
<1> QED
  BY <1>2, <1>3

\* What a colon that does not end the program does.
Defines ==
  LET name == Top.code[Top.at + 1]
      body == SubSeq(Top.code, Top.at + 2, End - 1)
  IN /\ Running /\ Token = ":" /\ Ends # {}
     /\ End \in Top.at + 3 .. Len(Top.code) /\ Top.code[End] = ";"
     /\ \A j \in Top.at + 3 .. End - 1 : Top.code[j] # ";"
     /\ name \in Tokens
     /\ body \in Seq(Tokens) /\ Len(body) = End - Top.at - 2
     /\ \A k \in 1 .. Len(body) : body[k] = Top.code[Top.at + 1 + k]
     /\ dictionary' = Define(name, body)
     /\ clean' = (clean /\ ~Known(name) /\ \A i \in DOMAIN Top.code : Top.code[i] \notin Text)
     /\ Moved(End + 1, "run")
     /\ UNCHANGED <<mode, source, stack, typed>>

\* A colon ends the program or defines a word.
LEMMA ColonDefines ==
  ASSUME TypeOK, Colon
  PROVE  Stop("lost") \/ Stop("gone") \/ Defines
<1>1. Running /\ Token = ":"
  BY DEF Colon, IsNative
<1>2. ASSUME ~(Top.at + 2 > Len(Top.code)), Ends # {}
      PROVE  Defines
  <2> DEFINE name == Top.code[Top.at + 1]
             body == SubSeq(Top.code, Top.at + 2, End - 1)
  <2>1. /\ frames # << >> /\ frames \in Seq(Activation) /\ Top.at \in 1 .. Len(Top.code)
        /\ Top.code \in Seq(Tokens) /\ Len(Top.code) \in Nat
    BY <1>1, RunningType, TopType
  <2>2. /\ End \in Top.at + 3 .. Len(Top.code) /\ Top.code[End] = ";"
        /\ \A j \in Top.at + 3 .. End - 1 : Top.code[j] # ";"
    BY <1>2, <2>1, EndFacts
  <2> DEFINE a == Top.at
             n == Len(Top.code)
             e == End
  <2>3. /\ a + 1 \in 1 .. n
        /\ a + 2 \in 1 .. n /\ e - 1 \in a + 2 .. n /\ e - 1 - (a + 2) + 1 = e - a - 2
        /\ e + 1 \in 1 .. n + 1
    <3>1. a \in 1 .. n /\ n \in Nat /\ e \in a + 3 .. n
      BY <2>1, <2>2
    <3> HIDE DEF a, n, e
    <3> QED
      BY <3>1
  <2>4. name \in Tokens
    BY <2>1, <2>3, ElementType
  <2>5. Top.at + 2 \in 1 .. Len(Top.code) /\ End - 1 \in Top.at + 2 .. Len(Top.code)
        /\ End - 1 - (Top.at + 2) + 1 = End - Top.at - 2
    BY <2>3
  <2>6. /\ body \in Seq(Tokens) /\ Len(body) = End - Top.at - 2
        /\ \A k \in 1 .. Len(body) : body[k] = Top.code[Top.at + 2 + k - 1]
    <3> DEFINE code == Top.code
               m == Top.at + 2
               z == End - 1
               s == SubSeq(code, m, z)
    <3>1. code \in Seq(Tokens) /\ m \in 1 .. Len(code) /\ z \in m .. Len(code)
      BY <2>1, <2>5
    <3>2. /\ s \in Seq(Tokens) /\ Len(s) = z - m + 1
          /\ \A k \in 1 .. z - m + 1 : s[k] = code[m + k - 1]
      <4> HIDE DEF code, m, z
      <4> QED
        BY <3>1, SliceFacts
    <3>3. z - m + 1 = End - Top.at - 2
      BY <2>5
    <3> QED
      BY ONLY <3>2, <3>3
  <2>7. \A k \in Nat : Top.at + 2 + k - 1 = Top.at + 1 + k
    BY <2>1
  <2>8. \A k \in 1 .. Len(body) : body[k] = Top.code[Top.at + 1 + k]
    BY <2>6, <2>7
  <2>9. /\ dictionary' = Define(name, body)
        /\ clean' = (clean /\ ~Known(name) /\ \A i \in DOMAIN Top.code : Top.code[i] \notin Text)
        /\ Jump(End + 1)
        /\ UNCHANGED <<mode, source, stack, typed>>
    BY <1>2 DEF Colon
  <2>10. Moved(End + 1, "run")
    <3>1. End + 1 \in 1 .. Len(Top.code) + 1
      BY <2>3
    <3> QED
      BY <3>1, <1>1, <2>9, JumpMoves
  <2> HIDE DEF body, name
  <2>11. /\ \A k \in 1 .. Len(body) : body[k] = Top.code[Top.at + 1 + k]
         /\ name = Top.code[Top.at + 1] /\ body = SubSeq(Top.code, Top.at + 2, End - 1)
    BY <2>8 DEF name, body
  <2> QED
    BY <1>1, <1>2, <2>2, <2>4, <2>6, <2>9, <2>10, <2>11 DEF Defines
<1> QED
  BY <1>2 DEF Colon

\* A definition keeps the types.
LEMMA ColonType ==
  ASSUME TypeOK, Colon
  PROVE  TypeOK'
<1>1. CASE Stop("lost") \/ Stop("gone")
  BY <1>1, StopType
<1>2. CASE Defines
  <2> DEFINE name == Top.code[Top.at + 1]
             body == SubSeq(Top.code, Top.at + 2, End - 1)
  <2>1. /\ Running /\ name \in Tokens /\ body \in Seq(Tokens) /\ dictionary' = Define(name, body)
        /\ Moved(End + 1, "run") /\ UNCHANGED <<mode, source, stack, typed>>
        /\ End \in Top.at + 3 .. Len(Top.code)
    BY <1>2 DEF Defines
  <2>2. clean' \in BOOLEAN
    <3>1. clean' = (clean /\ ~Known(name) /\ \A i \in DOMAIN Top.code : Top.code[i] \notin Text)
      BY <1>2 DEF Defines
    <3> QED
      BY <3>1
  <2> HIDE DEF name, body
  <2>3. dictionary \in Seq(Definition) /\ Len(dictionary) \in Nat
    BY TypeParts, ElementType
  <2>4. dictionary' \in Seq(Definition) /\ Len(dictionary') \in Nat /\ Len(dictionary) <= Len(dictionary')
    <3> DEFINE d == Define(name, body)
    <3>1. /\ d \in Seq(Definition)
          /\ Len(d) = IF Known(name) THEN Len(dictionary) ELSE Len(dictionary) + 1
      BY <2>1, <2>3, DefineFacts
    <3> HIDE DEF d
    <3>2. dictionary' = d
      BY <2>1 DEF d
    <3> QED
      BY <3>1, <3>2, <2>3
  <2>5. frames # << >> /\ Top.at \in 1 .. Len(Top.code) /\ Len(Top.code) \in Nat /\ "run" \in Phases
    BY <2>1, RunningType
  <2>6. End + 1 \in Nat \ {0} /\ End + 1 <= Len(Top.code) + 1
    BY <2>1, <2>5
  <2>7. FramesOK' /\ frames' # << >>
    BY <2>1, <2>4, <2>5, <2>6, MovedType
  <2> QED
    BY <2>1, <2>2, <2>4, <2>7, TypeParts, TypeNow
<1> QED
  BY <1>1, <1>2, ColonDefines

\* The types hold at the start.
LEMMA TypeInit == Init => TypeOK
<1> SUFFICES ASSUME Init PROVE TypeOK
  OBVIOUS
<1>1. DOMAIN CWords = 1 .. 27
  BY DEF CWords
<1>2. \A i \in 1 .. 27 : CWords[i] \in Tokens
  BY <1>1, ConstantsAssumption
<1>3. Native \in Seq(Tokens)
  BY DEF Native
<1>4. \A i \in 1 .. 27 : [name |-> CWords[i], code |-> Native] \in Definition
  BY <1>2, <1>3 DEF Definition
<1>5. dictionary \in Seq(Definition)
  <2>1. dictionary = [i \in 1 .. 27 |-> [name |-> CWords[i], code |-> Native]]
    BY <1>1 DEF Init
  <2>2. dictionary \in [1 .. 27 -> Definition]
    BY <1>4, <2>1
  <2> QED
    BY <2>2, SeqDef
<1>6. FramesOK
  <2>1. frames \in Seq(Activation) /\ Len(frames) = 0
    BY DEF Init
  <2> QED
    BY <2>1, ConstantsAssumption DEF FramesOK
<1>7. stack \in Seq(Values) /\ Len(stack) <= StackSize
  BY ConstantsAssumption DEF Init
<1> QED
  BY <1>5, <1>6, <1>7, TypeParts DEF Init, Modes

\* A line is a sequence of tokens, also the last one of a file.
LEMMA LineType ==
  ASSUME NEW l \in Lines
  PROVE  l \in Seq(Tokens) /\ (l # << >> => [l EXCEPT ![Len(l)] = Doubled[@]] \in Seq(Tokens))
<1>1. l \in Seq(Tokens) /\ \A i \in DOMAIN l : l[i] \in DOMAIN Doubled
  BY ConstantsAssumption
<1>2. ASSUME l # << >> PROVE [l EXCEPT ![Len(l)] = Doubled[@]] \in Seq(Tokens)
  <2> DEFINE e == Doubled[l[Len(l)]]
  <2>1. Len(l) \in DOMAIN l
    BY <1>1, <1>2, ElementType
  <2>2. e \in Tokens
    BY <1>1, <2>1, ConstantsAssumption
  <2> HIDE DEF e
  <2>3. [l EXCEPT ![Len(l)] = e] \in Seq(Tokens)
    BY <1>1, <1>2, <2>2, TopChanged
  <2> QED
    BY <2>3 DEF e
<1> QED
  BY <1>1, <1>2

\* Every step keeps the types.
LEMMA TypeNext == TypeOK /\ [Next]_vars => TypeOK'
<1> SUFFICES ASSUME TypeOK, [Next]_vars PROVE TypeOK'
  OBVIOUS
<1>1. ASSUME NEW l \in Lines, ReadLine(l) \/ ReadLastLine(l) PROVE TypeOK'
  BY <1>1, LineType, ExecuteType DEF ReadLine, ReadLastLine
<1>2. CASE ToTerminal
  BY <1>2, TypeParts, TypeNow DEF ToTerminal, FramesOK
<1>3. CASE NoFile \/ Unreadable \/ NoMemory
  BY <1>3, StopType DEF NoFile, Unreadable, NoMemory
<1>4. CASE CheckToken
  <2>1. /\ frames # << >> /\ Top.at \in 1 .. Len(Top.code) /\ PhaseAfter \in Phases
        /\ Moved(Top.at + 1, PhaseAfter)
    BY <1>4, CheckTokenMoves
  <2>2. Top.at + 1 \in 1 .. Len(Top.code) + 1
    BY <2>1, TopType
  <2> QED
    BY <1>4, <2>1, <2>2, MoveType, TypeParts DEF CheckToken
<1>5. CASE Checked
  <2>1. frames # << >> /\ Moved(1, "run") /\ "run" \in Phases
    BY <1>5, CheckedMoves DEF Phases
  <2>2. 1 \in 1 .. Len(Top.code) + 1
    BY <2>1, TopType
  <2> QED
    BY <1>5, <2>1, <2>2, MoveType, TypeParts DEF Checked
<1>6. CASE NotFound \/ Bye \/ Return
  <2>1. mode = "eval" /\ \E c \in Nat : Leave(c)
    BY <1>6 DEF NotFound, Bye, Return, Checking, Running
  <2> QED
    BY <2>1, LeaveFacts, TypeParts
<1>7. CASE Number \/ Nothing \/ Compute \/ PrintString
  BY <1>7, NumberType, NothingType, ComputeType, PrintStringType
<1>8. CASE Colon \/ Call
  BY <1>8, ColonType, CallType
<1>9. CASE UNCHANGED vars
  BY <1>9, TypeParts, TypeNow DEF vars, FramesOK
<1> QED
  BY <1>1, <1>2, <1>3, <1>4, <1>5, <1>6, <1>7, <1>8, <1>9 DEF Next

\* Every variable has its type: push() and pop() stay in the array, the activations on
\* the C stack, and no activation reads a token behind its code.
THEOREM TypeCorrect == Spec => []TypeOK
BY TypeInit, TypeNext, PTL DEF Spec

\* Where some of the words in C stand.
LEMMA CWordsAt ==
  /\ Built = 27 /\ DOMAIN CWords = 1 .. 27
  /\ CWords[20] = DotQuote /\ CWords[22] = ":" /\ CWords[23] = ";"
  /\ CWords[24] = "(" /\ CWords[25] = ")" /\ CWords[26] = "bye"
BY DEF CWords, DotQuote, Built

\* The words of the program are there, and none of them is a number.
LEMMA WordsInC ==
  ASSUME TypeOK, CWordsFirst
  PROVE  /\ \A t \in Text \cup {":", ";", "bye"} :
              Known(t) /\ t \notin Numerals /\ \E i \in 1 .. Built : dictionary[i].name = t
         /\ Len(dictionary) \in Nat /\ DOMAIN dictionary = 1 .. Len(dictionary)
         /\ Built = 27 /\ Built <= Len(dictionary)
<1>1. Len(dictionary) \in Nat /\ DOMAIN dictionary = 1 .. Len(dictionary)
  BY TypeParts, ElementType
<1>2. Built = 27 /\ Built <= Len(dictionary)
  BY CWordsAt DEF CWordsFirst
<1>3. ASSUME NEW i \in 1 .. 27
      PROVE  /\ Known(CWords[i]) /\ CWords[i] \notin Numerals
             /\ \E j \in 1 .. Built : dictionary[j].name = CWords[i]
  <2>1. dictionary[i].name = CWords[i] /\ i \in 1 .. Built
    BY <1>2 DEF CWordsFirst
  <2>2. i \in DOMAIN dictionary
    BY <1>1, <1>2
  <2>3. CWords[i] \notin Numerals
    BY CWordsAt, ConstantsAssumption
  <2> QED
    BY <2>1, <2>2, <2>3 DEF Known
<1>0. \A k \in {20, 22, 23, 24, 25, 26} : k \in 1 .. 27
  OBVIOUS
<1>4. ASSUME NEW t \in Text \cup {":", ";", "bye"}
      PROVE  \E i \in 1 .. 27 : t = CWords[i]
  <2>2. t \in {DotQuote, "(", ")", ":", ";", "bye"}
    BY DEF Text, Parens
  <2> QED
    BY <1>0, <2>2, CWordsAt
<1>5. ASSUME NEW t \in Text \cup {":", ";", "bye"}
      PROVE  Known(t) /\ t \notin Numerals /\ \E j \in 1 .. Built : dictionary[j].name = t
  <2>1. PICK i \in 1 .. 27 : t = CWords[i]
    BY <1>4
  <2> QED
    BY <2>1, <1>3
<1> QED
  BY <1>1, <1>2, <1>5

-----------------------------------------------------------------------------
(* What a step does to the activations and to the dictionary. *)

Still == UNCHANGED <<frames, dictionary, clean>>
Begins == UNCHANGED <<dictionary, clean>> /\ \E line \in Seq(Tokens) : frames' = <<Frame(line, 0)>>
Checks ==
  /\ Checking /\ More /\ ~Missing /\ PhaseAfter # "run"
  /\ Moved(Top.at + 1, PhaseAfter) /\ UNCHANGED <<dictionary, clean>>
HasChecked ==
  /\ Checking /\ Top.at = Len(Top.code) + 1
  /\ Moved(1, "run") /\ UNCHANGED <<dictionary, clean>>
StepsOver ==
  /\ Running /\ UNCHANGED <<dictionary, clean>>
  /\ \/ Token # ":" /\ Moved(Top.at + 1, "run")
     \/ Token = DotQuote /\ Moved(Top.at + 2, "run")
Leaves ==
  /\ UNCHANGED <<dictionary, clean>>
  /\ frames # << >>
  /\ Len(frames') = Len(frames) - 1 /\ \A j \in 1 .. Len(frames) - 1 : frames'[j] = frames[j]
Calls ==
  /\ Running /\ Token \notin Numerals /\ Known(Token) /\ Code(Token) # Native
  /\ UNCHANGED <<dictionary, clean>>
  /\ Len(frames') = Len(frames) + 1
  /\ \A j \in 1 .. Len(frames) - 1 : frames'[j] = frames[j]
  /\ frames'[Len(frames)] = [Top EXCEPT !.at = Top.at + 1]
  /\ frames'[Len(frames) + 1] = Frame(Code(Token), Entry(Token))

\* Every step does one of eight things to the dictionary and the activations.
LEMMA Shapes ==
  ASSUME TypeOK, CWordsFirst, [Next]_vars
  PROVE  \/ Still \/ Begins \/ Checks \/ HasChecked \/ StepsOver \/ Leaves \/ Calls
         \/ Defines
<1>1. ASSUME NEW l \in Lines, ReadLine(l) \/ ReadLastLine(l) PROVE Begins
  BY <1>1, LineType DEF ReadLine, ReadLastLine, Execute, Begins
<1>2. CASE ToTerminal \/ NoFile \/ Unreadable \/ NoMemory \/ UNCHANGED vars
  BY <1>2 DEF ToTerminal, NoFile, Unreadable, NoMemory, Stop, vars, Still
<1>3. CASE CheckToken
  BY <1>3, CheckTokenMoves DEF CheckToken, Checks
<1>4. CASE Checked
  BY <1>4, CheckedMoves DEF Checked, HasChecked
<1>5. CASE NotFound \/ Bye \/ Return
  <2>1. mode = "eval" /\ \E c \in Nat : Leave(c)
    BY <1>5 DEF NotFound, Bye, Return, Checking, Running
  <2> QED
    BY <2>1, LeaveFacts, TypeParts DEF Leaves, Leave
<1>6. CASE Number
  <2>1. Token # ":"
    BY <1>6, WordsInC DEF Number
  <2> QED
    BY <1>6, <2>1, NumberType DEF Number, StepsOver
<1>7. CASE Nothing
  <2>1. Token # ":"
    BY <1>7, WordsInC DEF Nothing
  <2> QED
    BY <1>7, <2>1, NothingType DEF Nothing, StepsOver, IsNative
<1>8. CASE Compute
  <2>1. Token # ":"
    BY <1>8 DEF Compute, Computing
  <2> QED
    BY <1>8, <2>1, ComputeType DEF StepsOver, Still
<1>9. CASE PrintString
  BY <1>9, PrintStringType DEF StepsOver, Still
<1>10. CASE Colon
  BY <1>10, ColonDefines DEF Stop, Still
<1>11. CASE Call
  <2>1. CASE Len(frames) = MaxDepth
    BY <1>11, <2>1 DEF Call, Stop, Still
  <2>2. CASE Len(frames) # MaxDepth
    <3>1. /\ Running /\ Token \notin Numerals /\ Known(Token) /\ Code(Token) # Native
          /\ frames' = Append([frames EXCEPT ![Len(frames)].at = @ + 1],
                              Frame(Code(Token), Entry(Token)))
          /\ UNCHANGED <<dictionary, clean>>
      BY <1>11, <2>2 DEF Call
    <3> QED
      BY <3>1, CallFacts DEF Calls
  <2> QED
    BY <2>1, <2>2
<1> QED
  BY <1>1, <1>2, <1>3, <1>4, <1>5, <1>6, <1>7, <1>8, <1>9, <1>10, <1>11 DEF Next

\* A word that is there stays, under its name.
LEMMA Grows ==
  ASSUME TypeOK, CWordsFirst, [Next]_vars
  PROVE  /\ Len(dictionary) \in Nat /\ Len(dictionary') \in Nat /\ Len(dictionary) <= Len(dictionary')
         /\ DOMAIN dictionary = 1 .. Len(dictionary) /\ DOMAIN dictionary' = 1 .. Len(dictionary')
         /\ \A i \in 1 .. Len(dictionary) : dictionary'[i].name = dictionary[i].name
         /\ Names \subseteq Names'
<1>1. /\ dictionary \in Seq(Definition) /\ Len(dictionary) \in Nat
      /\ DOMAIN dictionary = 1 .. Len(dictionary)
  BY TypeParts, ElementType
<1>2. /\ dictionary' \in Seq(Definition) /\ Len(dictionary) <= Len(dictionary')
      /\ \A i \in 1 .. Len(dictionary) : dictionary'[i].name = dictionary[i].name
  <2>1. CASE UNCHANGED dictionary
    BY <2>1, <1>1
  <2>2. CASE Defines
    <3> DEFINE name == Top.code[Top.at + 1]
               body == SubSeq(Top.code, Top.at + 2, End - 1)
               d == Define(name, body)
    <3>1. name \in Tokens /\ body \in Seq(Tokens) /\ dictionary' = d
      BY <2>2 DEF Defines
    <3> HIDE DEF name, body
    <3>2. /\ d \in Seq(Definition)
          /\ Len(d) = IF Known(name) THEN Len(dictionary) ELSE Len(dictionary) + 1
          /\ \A i \in 1 .. Len(dictionary) : d[i].name = dictionary[i].name
      BY <1>1, <3>1, DefineFacts
    <3> HIDE DEF d
    <3> QED
      BY <1>1, <3>1, <3>2
  <2> QED
    BY <2>1, <2>2, Shapes DEF Still, Begins, Checks, HasChecked, StepsOver, Leaves, Calls
<1>3. Len(dictionary') \in Nat /\ DOMAIN dictionary' = 1 .. Len(dictionary')
  BY <1>2, ElementType
<1>4. Names \subseteq Names'
  BY <1>1, <1>2, <1>3 DEF Names
<1> QED
  BY <1>1, <1>2, <1>3, <1>4

\* The words in C stay in front, and there is one entry per name.
LEMMA NamesNext ==
  ASSUME TypeOK, CWordsFirst, OneEntryPerName, [Next]_vars
  PROVE  CWordsFirst' /\ OneEntryPerName'
<1> DEFINE n == Len(dictionary)
<1>1. /\ n \in Nat /\ Len(dictionary') \in Nat /\ n <= Len(dictionary')
      /\ DOMAIN dictionary = 1 .. n /\ DOMAIN dictionary' = 1 .. Len(dictionary')
      /\ \A i \in 1 .. n : dictionary'[i].name = dictionary[i].name
      /\ dictionary \in Seq(Definition)
  BY Grows, TypeParts
<1>2. CWordsFirst'
  <2>1. Built = 27 /\ Built <= n /\ \A i \in 1 .. Built : dictionary[i].name = CWords[i]
    BY CWordsAt DEF CWordsFirst
  <2>2. ASSUME NEW i \in 1 .. Built PROVE dictionary'[i].name = CWords[i]
    <3>1. \A m \in Nat : 27 <= m => \A j \in 1 .. 27 : j \in 1 .. m
      OBVIOUS
    <3>2. i \in 1 .. n
      BY <1>1, <2>1, <3>1
    <3> QED
      BY <3>2, <1>1, <2>1
  <2>3. Built <= Len(dictionary')
    <3>1. n \in Nat /\ Len(dictionary') \in Nat /\ n <= Len(dictionary')
      BY <1>1
    <3>2. Built = 27 /\ Built <= n
      BY <2>1
    <3> QED
      BY <3>1, <3>2
  <2> QED
    BY <2>2, <2>3 DEF CWordsFirst, Built
<1>3. CASE UNCHANGED dictionary
  BY <1>2, <1>3 DEF OneEntryPerName
<1>4. CASE Defines
  <2> DEFINE name == Top.code[Top.at + 1]
             body == SubSeq(Top.code, Top.at + 2, End - 1)
             d == Define(name, body)
             f == [name |-> name, code |-> body]
  <2>1. name \in Tokens /\ body \in Seq(Tokens) /\ dictionary' = d
    BY <1>4 DEF Defines
  <2> HIDE DEF name, body
  <2>2. /\ Len(d) = IF Known(name) THEN n ELSE n + 1
        /\ (~Known(name) => d[n + 1] = f)
    BY <1>1, <2>1, DefineFacts
  <2>3. f.name = name
    OBVIOUS
  <2> HIDE DEF d, f
  <2>4. CASE Known(name)
    <3>1. DOMAIN dictionary' = DOMAIN dictionary
      BY <1>1, <2>1, <2>2, <2>4
    <3> QED
      BY <1>1, <1>2, <3>1 DEF OneEntryPerName
  <2>5. CASE ~Known(name)
    <3>1. /\ DOMAIN dictionary' = 1 .. n + 1 /\ dictionary'[n + 1].name = name
          /\ \A i \in 1 .. n : dictionary[i].name # name
      BY <1>1, <2>1, <2>2, <2>3, <2>5 DEF Known
    <3>2. \A i \in 1 .. n + 1 : i \in 1 .. n \/ i = n + 1
      BY <1>1
    <3>3. \A i, j \in 1 .. n + 1 : dictionary'[i].name = dictionary'[j].name => i = j
      BY <1>1, <3>1, <3>2 DEF OneEntryPerName
    <3> QED
      BY <1>2, <3>1, <3>3 DEF OneEntryPerName
  <2> QED
    BY <2>4, <2>5
<1> QED
  BY <1>3, <1>4, Shapes DEF Still, Begins, Checks, HasChecked, StepsOver, Leaves, Calls

\* An activation keeps its code as long as it lives.
LEMMA SameCode ==
  ASSUME TypeOK,
         Still \/ Checks \/ HasChecked \/ StepsOver \/ Leaves \/ Defines
  PROVE  /\ Len(frames') \in Nat /\ Len(frames) \in Nat /\ Len(frames') <= Len(frames)
         /\ \A i \in 1 .. Len(frames') : frames'[i].code = frames[i].code /\ frames'[i].word = frames[i].word
<1>1. Len(frames) \in Nat
  BY TypeParts, ElementType DEF FramesOK
<1>2. CASE Still
  BY <1>1, <1>2 DEF Still
<1>3. CASE Leaves
  BY <1>1, <1>3, EmptySeq, TypeParts DEF Leaves, FramesOK
<1>4. ASSUME NEW i, NEW p, Moved(i, p)
      PROVE  /\ Len(frames') = Len(frames)
             /\ \A j \in 1 .. Len(frames) : frames'[j].code = frames[j].code /\ frames'[j].word = frames[j].word
  BY <1>4 DEF Moved
<1>5. CASE Checks \/ HasChecked \/ StepsOver \/ Defines
  <2>1. \E i, p : Moved(i, p)
    <3>1. CASE Defines
      BY <3>1 DEF Defines
    <3> QED
      BY <3>1, <1>5 DEF Checks, HasChecked, StepsOver
  <2> QED
    BY <1>1, <1>4, <2>1
<1> QED
  BY <1>2, <1>3, <1>5

\* Every step keeps semicolons at the front of a definition.
LEMMA SemicolonNext ==
  ASSUME TypeOK, CWordsFirst, SemicolonFirst, [Next]_vars
  PROVE  SemicolonFirst'
<1> DEFINE n == Len(dictionary)
<1>1. dictionary \in Seq(Definition) /\ n \in Nat /\ Len(frames) \in Nat
  BY TypeParts, ElementType DEF FramesOK
<1>2. \A i \in 1 .. Len(dictionary') : NoSemicolon(dictionary'[i].code)
  <2>1. CASE UNCHANGED dictionary
    BY <2>1 DEF SemicolonFirst
  <2>2. CASE Defines
    <3> DEFINE name == Top.code[Top.at + 1]
               body == SubSeq(Top.code, Top.at + 2, End - 1)
               d == Define(name, body)
               f == [name |-> name, code |-> body]
    <3>1. /\ name \in Tokens /\ body \in Seq(Tokens) /\ dictionary' = d
          /\ End \in Top.at + 3 .. Len(Top.code) /\ Running
          /\ \A j \in Top.at + 3 .. End - 1 : Top.code[j] # ";"
          /\ Len(body) = End - Top.at - 2
          /\ \A k \in 1 .. Len(body) : body[k] = Top.code[Top.at + 1 + k]
      BY <2>2 DEF Defines
    <3> HIDE DEF name, body
    <3>2. Top.at \in 1 .. Len(Top.code) /\ Len(Top.code) \in Nat
      BY <3>1, RunningType
    <3>3. \A a \in Nat, m \in Nat : \A e \in a + 3 .. m : \A k \in 2 .. e - a - 2 :
            k \in 1 .. e - a - 2 /\ a + 1 + k \in a + 3 .. e - 1
      OBVIOUS
    <3>4. NoSemicolon(body)
      <4>1. \A k \in 2 .. Len(body) : k \in 1 .. Len(body) /\ Top.at + 1 + k \in Top.at + 3 .. End - 1
        <5>1. Top.at \in Nat
          BY <3>2
        <5> QED
          BY <3>1, <3>2, <3>3, <5>1
      <4> QED
        BY <3>1, <4>1 DEF NoSemicolon
    <3>5. /\ Len(d) = IF Known(name) THEN n ELSE n + 1
          /\ \A i \in 1 .. n : d[i].code = dictionary[i].code \/ d[i].code = body
          /\ (~Known(name) => d[n + 1] = f)
      BY <1>1, <3>1, DefineFacts
    <3>6. f.code = body
      OBVIOUS
    <3> HIDE DEF d, f
    <3>7. \A i \in 1 .. n : NoSemicolon(d[i].code)
      BY <3>4, <3>5 DEF SemicolonFirst
    <3>8. ~Known(name) => NoSemicolon(d[n + 1].code)
      BY <3>4, <3>5, <3>6
    <3>9. CASE Known(name)
      BY <3>1, <3>5, <3>7, <3>9
    <3>10. CASE ~Known(name)
      <4>1. Len(dictionary') = n + 1
        BY <3>1, <3>5, <3>10
      <4>2. \A i \in 1 .. n + 1 : i \in 1 .. n \/ i = n + 1
        BY <1>1
      <4> QED
        BY <3>1, <3>7, <3>8, <3>10, <4>1, <4>2
    <3> QED
      BY <3>9, <3>10
  <2> QED
    BY <2>1, <2>2, Shapes DEF Still, Begins, Checks, HasChecked, StepsOver, Leaves, Calls
<1>3. \A i \in 2 .. Len(frames') : NoSemicolon(frames'[i].code)
  <2>1. CASE Still \/ Checks \/ HasChecked \/ StepsOver \/ Leaves \/ Defines
    <3>1. /\ Len(frames') \in Nat /\ Len(frames') <= Len(frames)
          /\ \A i \in 1 .. Len(frames') : frames'[i].code = frames[i].code
      BY <2>1, SameCode
    <3>2. \A i \in 2 .. Len(frames') : i \in 1 .. Len(frames') /\ i \in 2 .. Len(frames)
      BY <1>1, <3>1
    <3> QED
      BY <3>1, <3>2 DEF SemicolonFirst
  <2>2. CASE Begins
    <3>1. Len(frames') = 1
      BY <2>2 DEF Begins
    <3> QED
      BY <3>1
  <2>3. CASE Calls
    <3>1. frames # << >> /\ Known(Token)
      BY <2>3, RunningType DEF Calls
    <3>2. Top \in Activation /\ Top = frames[Len(frames)] /\ Len(frames) \in Nat \ {0}
      BY <3>1, TopType
    <3>3. frames'[Len(frames)].code = frames[Len(frames)].code
      BY <2>3, <3>2 DEF Calls, Activation
    <3>4. Entry(Token) \in 1 .. n /\ Code(Token) = dictionary[Entry(Token)].code
      BY <1>1, <3>1, EntryFacts
    <3>5. frames'[Len(frames) + 1].code = Code(Token)
      BY <2>3 DEF Calls, Frame
    <3>6. NoSemicolon(frames'[Len(frames) + 1].code)
      BY <3>4, <3>5 DEF SemicolonFirst
    <3>7. ASSUME NEW i \in 2 .. Len(frames) PROVE NoSemicolon(frames'[i].code)
      <4>1. frames'[i].code = frames[i].code
        <5>1. CASE i = Len(frames)
          BY <5>1, <3>3
        <5>2. CASE i # Len(frames)
          BY <5>2, <2>3, <3>2 DEF Calls
        <5> QED
          BY <5>1, <5>2
      <4> QED
        BY <4>1, <3>7 DEF SemicolonFirst
    <3>8. Len(frames') = Len(frames) + 1
      BY <2>3 DEF Calls
    <3>9. \A i \in 2 .. Len(frames) + 1 : i \in 2 .. Len(frames) \/ i = Len(frames) + 1
      BY <1>1
    <3> QED
      BY <3>6, <3>7, <3>8, <3>9
  <2> QED
    BY <2>1, <2>2, <2>3, Shapes
<1> QED
  BY <1>2, <1>3 DEF SemicolonFirst

\* A word is known when its name is among the names.
LEMMA NamesKnown ==
  ASSUME TypeOK
  PROVE  \A t : Known(t) <=> t \in Names
<1>1. DOMAIN dictionary = 1 .. Len(dictionary)
  BY TypeParts, ElementType
<1> QED
  BY <1>1 DEF Known, Names

\* What has been seen stays seen when there are more names.
LEMMA SeenMore ==
  ASSUME NEW names, NEW more, names \subseteq more, NEW f, SeenSoFar(names, f)
  PROVE  SeenSoFar(more, f)
BY DEF SeenSoFar, Seen

\* One more token.
LEMMA SeenOneMore ==
  ASSUME NEW names, NEW code, NEW n \in Nat, Seen(names, code, n),
         NoTextBefore(code, n) => code[n] \in Numerals \cup names \/ (n > 1 /\ code[n - 1] = ":")
  PROVE  Seen(names, code, n + 1)
<1>1. \A k \in 1 .. n + 1 - 1 : k \in 1 .. n - 1 \/ k = n
  OBVIOUS
<1> QED
  BY <1>1 DEF Seen

\* Only the code, the place and the phase of an activation matter.
LEMMA SeenAlike ==
  ASSUME NEW names, NEW f, NEW g, g.code = f.code, g.at = f.at, g.phase = f.phase,
         SeenSoFar(names, f)
  PROVE  SeenSoFar(names, g)
BY DEF SeenSoFar

\* An activation that runs has seen all of its tokens, wherever it is.
LEMMA SeenRunning ==
  ASSUME NEW names, NEW f, NEW g, f.phase = "run", g.phase = "run", g.code = f.code,
         SeenSoFar(names, f)
  PROVE  SeenSoFar(names, g)
BY DEF SeenSoFar

\* One more token is looked at.
LEMMA SeenToken ==
  ASSUME TypeOK, CWordsFirst, SeenSoFar(Names, Top), Checks, NEW g,
         g.code = Top.code, g.at = Top.at + 1, g.phase = PhaseAfter
  PROVE  SeenSoFar(Names, g)
<1> DEFINE a == Top.at
           code == Top.code
<1>1. frames # << >> /\ More /\ ~Missing /\ Top.phase # "run" /\ PhaseAfter # "run"
  BY TypeParts DEF Checks, Checking
<1>2. a \in Nat \ {0} /\ Top.phase \in Phases /\ Token = code[a]
  BY <1>1, TopType DEF Token
<1>3. Seen(Names, code, a) /\ (Top.phase \in {"comment", "string"} => ~NoTextBefore(code, a))
  BY <1>1 DEF SeenSoFar
<1>4. ASSUME NoTextBefore(code, a)
      PROVE  code[a] \in Numerals \cup Names \/ (a > 1 /\ code[a - 1] = ":")
  <2>1. Top.phase = "words"
    BY <1>1, <1>2, <1>3, <1>4 DEF Phases
  <2>2. Token \in Text => Token \in Names
    BY WordsInC, NamesKnown
  <2>3. AfterColon \/ Token \in Numerals \cup Text \/ Known(Token)
    BY <1>1, <2>1 DEF Missing
  <2> QED
    BY <1>2, <2>2, <2>3, NamesKnown DEF AfterColon
<1>5. Seen(Names, code, a + 1)
  <2>1. a \in Nat
    BY <1>2
  <2> HIDE DEF a, code
  <2> QED
    BY <1>3, <1>4, <2>1, SeenOneMore
<1>6. ASSUME PhaseAfter \in {"comment", "string"}
      PROVE  ~NoTextBefore(code, a + 1)
  <2>1. a \in 1 .. a + 1 - 1 /\ \A k \in 1 .. a - 1 : k \in 1 .. a + 1 - 1
    BY <1>2
  <2>2. CASE Top.phase \in {"comment", "string"}
    BY <1>3, <2>1, <2>2 DEF NoTextBefore
  <2>3. CASE Top.phase = "words"
    <3>1. code[a] \in Text
      BY <1>2, <1>6, <2>3 DEF PhaseAfter, Text
    <3> QED
      BY <2>1, <3>1 DEF NoTextBefore
  <2> QED
    BY <1>1, <1>2, <2>2, <2>3 DEF Phases
<1> QED
  BY <1>1, <1>5, <1>6 DEF SeenSoFar

\* Every step keeps the tokens seen: no name goes away.
LEMMA ScannedNext ==
  ASSUME TypeOK, CWordsFirst, Scanned, [Next]_vars
  PROVE  Scanned'
<1> DEFINE n == Len(frames)
<1>1. n \in Nat /\ Names \subseteq Names'
  BY Grows, TypeParts, ElementType DEF FramesOK
<1>2. CASE Still
  BY <1>1, <1>2, SeenMore DEF Scanned, Still
<1>3. CASE Begins
  <2>1. PICK line \in Seq(Tokens) : frames' = <<Frame(line, 0)>>
    BY <1>3 DEF Begins
  <2>2. SeenSoFar(Names', Frame(line, 0))
    BY DEF SeenSoFar, Seen, Frame
  <2>3. Len(frames') = 1 /\ frames'[1] = Frame(line, 0) /\ \A i \in 1 .. 1 : i = 1
    BY <2>1
  <2> QED
    BY <2>2, <2>3 DEF Scanned
<1>4. ASSUME n # 0, NEW a, NEW p, Moved(a, p), SeenSoFar(Names', frames'[n]) PROVE Scanned'
  <2>1. ASSUME NEW i \in 1 .. n - 1 PROVE SeenSoFar(Names', frames'[i])
    <3>1. i \in 1 .. n
      BY <1>1
    <3>2. frames'[i].code = frames[i].code /\ frames'[i].at = frames[i].at /\ frames'[i].phase = frames[i].phase
      BY <1>4, <3>1 DEF Moved
    <3>3. SeenSoFar(Names, frames[i])
      BY <3>1 DEF Scanned
    <3> QED
      BY <1>1, <3>2, <3>3, SeenMore, SeenAlike
  <2>2. Len(frames') = n /\ \A i \in 1 .. n : i \in 1 .. n - 1 \/ i = n
    BY <1>1, <1>4 DEF Moved
  <2> QED
    BY <1>4, <2>1, <2>2 DEF Scanned
<1>5. ASSUME frames # << >>
      PROVE  n # 0 /\ n \in 1 .. n /\ Top = frames[n] /\ SeenSoFar(Names, Top)
  BY <1>5, TopType DEF Scanned
<1>6. CASE Checks
  <2>1. frames # << >> /\ UNCHANGED dictionary
    BY <1>6, TypeParts DEF Checks, Checking
  <2>2. frames'[n].code = Top.code /\ frames'[n].at = Top.at + 1 /\ frames'[n].phase = PhaseAfter
    BY <1>5, <1>6, <2>1 DEF Checks, Moved
  <2>3. SeenSoFar(Names, frames'[n])
    BY <1>5, <1>6, <2>1, <2>2, SeenToken
  <2>4. SeenSoFar(Names', frames'[n])
    BY <1>1, <2>3, SeenMore
  <2> QED
    BY <1>4, <1>5, <1>6, <2>1, <2>4 DEF Checks
<1>7. CASE HasChecked
  <2>1. frames # << >> /\ Top.phase # "run"
    BY <1>7, TypeParts DEF HasChecked, Checking
  <2>2. frames'[n].code = Top.code /\ frames'[n].phase = "run" /\ Moved(1, "run")
    BY <1>5, <1>7, <2>1 DEF HasChecked, Moved
  <2>3. Seen(Names, Top.code, Len(Top.code) + 1)
    BY <1>5, <1>7, <2>1 DEF HasChecked, SeenSoFar
  <2>4. SeenSoFar(Names', frames'[n])
    BY <1>1, <2>2, <2>3 DEF SeenSoFar, Seen
  <2> QED
    BY <1>4, <1>5, <2>1, <2>2, <2>4
<1>8. CASE StepsOver \/ Defines
  <2>1. frames # << >> /\ Top.phase = "run"
    BY <1>8, RunningType DEF StepsOver, Defines
  <2>2. PICK a : Moved(a, "run")
    BY <1>8 DEF StepsOver, Defines
  <2>3. frames'[n].code = Top.code /\ frames'[n].phase = "run"
    BY <1>5, <2>1, <2>2 DEF Moved
  <2>4. SeenSoFar(Names', frames'[n])
    BY <1>1, <1>5, <2>1, <2>3, SeenMore, SeenRunning
  <2> QED
    BY <1>4, <1>5, <2>1, <2>2, <2>4
<1>9. CASE Leaves
  <2>1. Len(frames') = n - 1 /\ \A i \in 1 .. n - 1 : frames'[i] = frames[i] /\ SeenSoFar(Names, frames[i])
    BY <1>1, <1>9 DEF Leaves, Scanned
  <2> QED
    BY <1>1, <2>1, SeenMore DEF Scanned
<1>10. CASE Calls
  <2>1. frames # << >> /\ Top.phase = "run" /\ Top \in Activation
    BY <1>10, RunningType, TopType DEF Calls
  <2>2. frames'[n].code = Top.code /\ frames'[n].phase = "run"
    BY <1>10, <2>1 DEF Calls, Activation
  <2>3. SeenSoFar(Names', frames'[n])
    BY <1>1, <1>5, <2>1, <2>2, SeenMore, SeenRunning
  <2>4. SeenSoFar(Names', frames'[n + 1])
    BY <1>10 DEF Calls, SeenSoFar, Seen, Frame
  <2>5. \A i \in 1 .. n - 1 : frames'[i] = frames[i] /\ SeenSoFar(Names, frames[i])
    BY <1>1, <1>10 DEF Calls, Scanned
  <2>6. Len(frames') = n + 1 /\ \A i \in 1 .. n + 1 : i \in 1 .. n - 1 \/ i = n \/ i = n + 1
    BY <1>1, <1>10 DEF Calls
  <2> QED
    BY <1>1, <2>3, <2>4, <2>5, <2>6, SeenMore DEF Scanned
<1> QED
  BY <1>2, <1>3, <1>6, <1>7, <1>8, <1>9, <1>10, Shapes

\* The words of a definition are older than it, but for the names of definitions.
LEMMA BodyUsesEarlier ==
  ASSUME TypeOK, CWordsFirst, Scanned, Defines, clean',
         NEW k \in 1 .. End - Top.at - 2
  PROVE  LET body == SubSeq(Top.code, Top.at + 2, End - 1)
         IN /\ body[k] \notin Text
            /\ body[k] \in Numerals \cup Names \/ (k > 1 /\ body[k - 1] = ":")
<1> DEFINE name == Top.code[Top.at + 1]
           body == SubSeq(Top.code, Top.at + 2, End - 1)
           code == Top.code
           p == Top.at + 1 + k
<1>1. /\ Running /\ End \in Top.at + 3 .. Len(code) /\ Len(body) = End - Top.at - 2
      /\ \A j \in 1 .. Len(body) : body[j] = code[Top.at + 1 + j]
      /\ ~Known(name) /\ \A i \in DOMAIN code : code[i] \notin Text
  BY DEF Defines
<1> HIDE DEF body
<1>2. /\ frames # << >> /\ Top.phase = "run" /\ Top.at \in 1 .. Len(code) /\ Len(code) \in Nat
      /\ DOMAIN code = 1 .. Len(code) /\ Top = frames[Len(frames)] /\ Len(frames) \in Nat \ {0}
  BY <1>1, RunningType, TopType
<1>4. /\ p \in 1 .. Len(code) /\ p \in 1 .. Len(code) + 1 - 1
      /\ (k = 1 => p - 1 = Top.at + 1)
      /\ (k # 1 => k > 1 /\ k - 1 \in 1 .. Len(body) /\ Top.at + 1 + (k - 1) = p - 1)
  <2> DEFINE a == Top.at
             m == Len(code)
             e == End
             l == Len(body)
  <2>1. a \in Nat \ {0} /\ m \in Nat /\ e \in a + 3 .. m /\ k \in 1 .. e - a - 2 /\ l = e - a - 2
    BY <1>1, <1>2
  <2>2. p = a + 1 + k
    OBVIOUS
  <2> HIDE DEF a, m, e, l, p
  <2>3. /\ p \in 1 .. m /\ p \in 1 .. m + 1 - 1
        /\ (k = 1 => p - 1 = a + 1)
        /\ (k # 1 => k > 1 /\ k - 1 \in 1 .. l /\ a + 1 + (k - 1) = p - 1)
    BY <2>1, <2>2
  <2> QED
    BY <2>3 DEF a, m, l
<1>5. body[k] = code[p]
  BY <1>1
<1> HIDE DEF p
<1>6. NoTextBefore(code, p)
  <2>1. \A j \in 1 .. p - 1 : j \in 1 .. Len(code)
    BY <1>2, <1>4
  <2> QED
    BY <1>1, <1>2, <2>1 DEF NoTextBefore
<1>7. Seen(Names, code, Len(code) + 1)
  <2>1. SeenSoFar(Names, Top)
    BY <1>2 DEF Scanned
  <2> QED
    BY <1>2, <2>1 DEF SeenSoFar
<1>8. code[p] \in Numerals \cup Names \/ (p > 1 /\ code[p - 1] = ":")
  BY <1>4, <1>6, <1>7 DEF Seen
<1>9. CASE code[p - 1] = ":"
  <2>1. k # 1
    BY <1>1, <1>4, <1>9, WordsInC
  <2>2. k > 1 /\ body[k - 1] = ":"
    BY <1>1, <1>4, <1>9, <2>1
  <2> QED
    BY <1>1, <1>2, <1>4, <1>5, <2>2 DEF body
<1> QED
  BY <1>1, <1>2, <1>4, <1>5, <1>8, <1>9 DEF body

\* Every step keeps the dictionary in layers.
LEMMA StratifiedNext ==
  ASSUME TypeOK, CWordsFirst, Scanned, Stratified, [Next]_vars
  PROVE  Stratified'
<1> DEFINE n == Len(dictionary)
<1>1. CASE UNCHANGED <<dictionary, clean>>
  BY <1>1 DEF Stratified, Built
<1>2. ASSUME Defines, clean' PROVE Stratified'
  <2> DEFINE name == Top.code[Top.at + 1]
             body == SubSeq(Top.code, Top.at + 2, End - 1)
             d == Define(name, body)
             f == [name |-> name, code |-> body]
  <2>1. /\ name \in Tokens /\ body \in Seq(Tokens) /\ dictionary' = d /\ ~Known(name) /\ clean
        /\ Len(body) = End - Top.at - 2
    BY <1>2 DEF Defines
  <2>2. \A k \in 1 .. Len(body) :
          body[k] \notin Text /\ (body[k] \in Numerals \cup Names \/ (k > 1 /\ body[k - 1] = ":"))
    BY <1>2, <2>1, BodyUsesEarlier
  <2> HIDE DEF name, body
  <2>3. dictionary \in Seq(Definition) /\ n \in Nat
    BY TypeParts, ElementType
  <2>4. Len(d) = n + 1 /\ (\A i \in 1 .. n : d[i] = dictionary[i]) /\ d[n + 1] = f
    BY <2>1, <2>3, DefineFacts
  <2>5. f.name = name /\ f.code = body
    OBVIOUS
  <2> HIDE DEF d, f
  <2>6. \A i \in 1 .. Built : d[i].code = Native
    <3>1. Built = 27 /\ Built <= n
      BY WordsInC
    <3>2. \A i \in 1 .. Built : i \in 1 .. n
      BY <2>3, <3>1
    <3> QED
      BY <2>1, <2>4, <3>2 DEF Stratified
  <2>7. ASSUME NEW i \in 1 .. n PROVE UsesEarlier(d, i)
    <3>1. d[i] = dictionary[i] /\ \A j \in 1 .. i - 1 : d[j] = dictionary[j]
      BY <2>3, <2>4
    <3>2. UsesEarlier(dictionary, i)
      BY <2>1 DEF Stratified
    <3> QED
      BY <3>1, <3>2 DEF UsesEarlier
  <2>8. UsesEarlier(d, n + 1)
    <3>1. \A t \in Names : \E j \in 1 .. n + 1 - 1 : d[j].name = t
      BY <2>3, <2>4 DEF Names
    <3>2. d[n + 1].code = body
      BY <2>4, <2>5
    <3> QED
      BY <2>2, <3>1, <3>2 DEF UsesEarlier
  <2>9. \A i \in 1 .. Len(d) : UsesEarlier(d, i)
    <3>1. \A i \in 1 .. n + 1 : i \in 1 .. n \/ i = n + 1
      BY <2>3
    <3> QED
      BY <2>4, <2>7, <2>8, <3>1
  <2> QED
    BY <2>1, <2>6, <2>9 DEF Stratified, Built
<1>3. CASE ~clean'
  BY <1>3 DEF Stratified
<1> QED
  BY <1>1, <1>2, <1>3, Shapes DEF Still, Begins, Checks, HasChecked, StepsOver, Leaves, Calls

\* The activations stay in their order when the innermost one moves.
LEMMA DescendingMoves ==
  ASSUME TypeOK, Descending, frames # << >>, NEW a \in Nat \ {0}, NEW p, Moved(a, p),
         UNCHANGED <<dictionary, clean>>,
         clean /\ Len(frames) >= 2 /\ p = "run" /\ a > 1 => Top.code[a - 1] # ":"
  PROVE  Descending'
<1> DEFINE n == Len(frames)
<1> SUFFICES ASSUME clean PROVE \A i \in 2 .. Len(frames') : Ordered(dictionary, i, frames'[i])
  BY DEF Descending, Ordered
<1>1. n \in Nat \ {0} /\ Top = frames[n] /\ Len(frames') = n
  BY TopType DEF Moved
<1>2. ASSUME NEW i \in 2 .. n PROVE Ordered(dictionary, i, frames'[i])
  <2>1. Ordered(dictionary, i, frames[i])
    BY DEF Descending
  <2>2. i \in 1 .. n /\ frames'[i].code = frames[i].code /\ frames'[i].word = frames[i].word
    BY <1>1 DEF Moved
  <2>3. CASE i = n
    <3>1. frames'[i].at = a /\ frames'[i].phase = p /\ Len(frames) >= 2
      BY <1>1, <2>3 DEF Moved
    <3>2. frames'[i].phase = "run" /\ frames'[i].at > 1 => frames'[i].code[frames'[i].at - 1] # ":"
      BY <1>1, <2>2, <2>3, <3>1
    <3> QED
      BY <2>1, <2>2, <3>2 DEF Ordered
  <2>4. CASE i # n
    <3>1. i \in 1 .. n - 1
      BY <1>1, <2>4
    <3>2. frames'[i].at = frames[i].at /\ frames'[i].phase = frames[i].phase
      BY <3>1 DEF Moved
    <3> QED
      BY <2>1, <2>2, <3>2 DEF Ordered
  <2> QED
    BY <2>3, <2>4
<1> QED
  BY <1>1, <1>2

\* A word in Forth that is called is older than the one that calls it.
LEMMA CalleeEarlier ==
  ASSUME TypeOK, CWordsFirst, OneEntryPerName, Stratified, Descending, Calls, clean
  PROVE  /\ Entry(Token) \in Built + 1 .. Len(dictionary) - (Len(frames) + 1 - 2)
         /\ Token # ":" /\ Code(Token) = dictionary[Entry(Token)].code
<1> DEFINE n == Len(frames)
           m == Len(dictionary)
           e == Entry(Token)
           w == Top.word
<1>1. /\ frames # << >> /\ n \in Nat \ {0} /\ Top = frames[n] /\ Top.phase = "run"
      /\ Top.at \in 1 .. Len(Top.code) /\ Len(Top.code) \in Nat
  BY RunningType, TopType DEF Calls
<1>2. dictionary \in Seq(Definition) /\ Known(Token) /\ Token \notin Numerals /\ Code(Token) # Native
  BY TypeParts DEF Calls
<1>3. e \in 1 .. m /\ dictionary[e].name = Token /\ Code(Token) = dictionary[e].code
  BY <1>2, EntryFacts
<1>4. Built = 27 /\ Built <= m /\ m \in Nat /\ DOMAIN dictionary = 1 .. m
  BY WordsInC
<1>5. \A i \in 1 .. Built : dictionary[i].code = Native
  BY DEF Stratified
<1> HIDE DEF e
<1>6. e \in Built + 1 .. m
  <2>1. e \notin 1 .. Built
    BY <1>2, <1>3, <1>5
  <2> HIDE DEF m
  <2> QED
    BY <1>3, <1>4, <2>1
<1>7. Token # ":"
  <2>1. ASSUME Token = ":" PROVE FALSE
    <3>1. PICK j \in 1 .. Built : dictionary[j].name = ":"
      BY WordsInC
    <3>2. j \in 1 .. m
      BY <1>4
    <3>3. j = e
      BY <1>3, <1>4, <2>1, <3>1, <3>2 DEF OneEntryPerName
    <3> QED
      BY <1>2, <1>3, <1>5, <3>1, <3>3
  <2> QED
    BY <2>1
<1>8. e <= m - (n + 1 - 2)
  <2>1. CASE n = 1
    BY <1>4, <1>6, <2>1
  <2>2. CASE n # 1
    <3>0. \A i \in Nat \ {0} : i # 1 => i \in 2 .. i
      OBVIOUS
    <3>1. n \in 2 .. Len(frames)
      BY <1>1, <2>2, <3>0
    <3>2. /\ w \in Built + 1 .. m - (n - 2) /\ Top.code = dictionary[w].code
          /\ Top.at > 1 => Top.code[Top.at - 1] # ":"
      BY <1>1, <3>1 DEF Descending, Ordered
    <3>3. w \in 1 .. m
      BY <1>1, <1>4, <3>1, <3>2
    <3>4. UsesEarlier(dictionary, w)
      BY <3>3 DEF Stratified
    <3>5. \E j \in 1 .. w - 1 : dictionary[j].name = Token
      BY <1>1, <1>2, <3>2, <3>4 DEF UsesEarlier, Token
    <3>6. PICK j \in 1 .. w - 1 : dictionary[j].name = Token
      BY <3>5
    <3>7. j \in 1 .. m
      BY <1>4, <3>3
    <3>8. j = e
      BY <1>3, <1>4, <3>6, <3>7 DEF OneEntryPerName
    <3> HIDE DEF m, w
    <3> QED
      BY <1>1, <1>4, <3>2, <3>6, <3>8
  <2> QED
    BY <2>1, <2>2
<1> HIDE DEF m
<1>9. e \in Built + 1 .. m - (n + 1 - 2)
  BY <1>1, <1>4, <1>6, <1>8
<1> QED
  BY <1>3, <1>7, <1>9 DEF e, m

\* Every step keeps the activations in the order of their words.
LEMMA DescendingNext ==
  ASSUME IInv, [Next]_vars
  PROVE  Descending'
<1> USE DEF IInv
<1> DEFINE n == Len(frames)
<1>1. CASE Still
  BY <1>1 DEF Descending, Still
<1>2. CASE Begins
  <2>1. Len(frames') = 1
    BY <1>2 DEF Begins
  <2> QED
    BY <2>1 DEF Descending
<1>3. CASE Checks
  <2>1. frames # << >> /\ Top.at + 1 \in Nat \ {0}
    BY <1>3, TypeParts, TopType DEF Checks, Checking
  <2> QED
    BY <1>3, <2>1, DescendingMoves DEF Checks
<1>4. CASE HasChecked
  <2>1. frames # << >> /\ 1 \in Nat \ {0}
    BY <1>4, TypeParts DEF HasChecked, Checking
  <2> QED
    BY <1>4, <2>1, DescendingMoves DEF HasChecked
<1>5. CASE StepsOver
  <2>1. /\ frames # << >> /\ Top.at \in 1 .. Len(Top.code) /\ Top = frames[n] /\ n \in Nat \ {0}
        /\ Len(Top.code) \in Nat /\ Token = Top.code[Top.at]
    BY <1>5, RunningType, TopType DEF StepsOver, Token
  <2>2. Top.at + 1 \in Nat \ {0} /\ Top.at + 2 \in Nat \ {0} /\ Top.at + 1 - 1 = Top.at
    BY <2>1
  <2>3. CASE Token # ":" /\ Moved(Top.at + 1, "run")
    BY <1>5, <2>1, <2>2, <2>3, DescendingMoves DEF StepsOver
  <2>4. CASE Token = DotQuote /\ Moved(Top.at + 2, "run")
    <3>1. ASSUME clean, n >= 2 PROVE FALSE
      <4>1. /\ Top.word \in Built + 1 .. Len(dictionary) - (n - 2)
            /\ Top.code = dictionary[Top.word].code
        BY <2>1, <3>1 DEF Descending, Ordered
      <4>2. Built = 27 /\ Len(dictionary) \in Nat
        BY WordsInC
      <4>3. Top.word \in 1 .. Len(dictionary)
        BY <2>1, <3>1, <4>1, <4>2
      <4>4. Token \notin Text
        BY <2>1, <3>1, <4>1, <4>3 DEF Stratified, UsesEarlier
      <4> QED
        BY <2>4, <4>4 DEF Text
    <3> QED
      BY <1>5, <2>1, <2>2, <2>4, <3>1, DescendingMoves DEF StepsOver
  <2> QED
    BY <1>5, <2>3, <2>4 DEF StepsOver
<1>6. CASE Leaves
  <2>1. n \in Nat /\ Len(frames') = n - 1 /\ (\A i \in 1 .. n - 1 : frames'[i] = frames[i])
        /\ UNCHANGED <<dictionary, clean>>
    BY <1>6, TypeParts, ElementType DEF Leaves, FramesOK
  <2>2. \A i \in 2 .. Len(frames') : i \in 1 .. n - 1 /\ i \in 2 .. n
    BY <2>1
  <2> QED
    BY <2>1, <2>2 DEF Descending
<1>7. CASE Defines
  <2>0. Running
    BY <1>7 DEF Defines
  <2>1. /\ frames # << >> /\ Top = frames[n] /\ n \in Nat \ {0} /\ Top.at \in 1 .. Len(Top.code)
        /\ Len(Top.code) \in Nat
    BY <2>0, RunningType, TopType
  <2>2. End \in Top.at + 3 .. Len(Top.code) /\ Top.code[End] = ";" /\ Len(frames') = n
    BY <1>7 DEF Defines, Moved
  <2>3. End \in 2 .. Len(Top.code)
    <3>1. \A a, m \in Nat : \A e \in a + 3 .. m : e \in 2 .. m
      OBVIOUS
    <3>2. Top.at \in Nat
      BY <2>1
    <3> QED
      BY <2>1, <2>2, <3>1, <3>2
  <2>4. ~(n \in 2 .. n)
    BY <2>1, <2>2, <2>3 DEF SemicolonFirst, NoSemicolon
  <2>5. Len(frames') = 1
    <3>1. \A m \in Nat \ {0} : ~(m \in 2 .. m) => m = 1
      OBVIOUS
    <3> HIDE DEF n
    <3> QED
      BY <2>1, <2>2, <2>4, <3>1
  <2> QED
    BY <2>5 DEF Descending
<1>8. CASE Calls
  <2> SUFFICES ASSUME clean PROVE \A i \in 2 .. Len(frames') : Ordered(dictionary, i, frames'[i])
    BY <1>8 DEF Descending, Ordered, Calls
  <2>1. /\ frames # << >> /\ Top = frames[n] /\ n \in Nat \ {0} /\ Top \in Activation
        /\ Top.at \in Nat \ {0} /\ Top.phase = "run" /\ Token = Top.code[Top.at]
    BY <1>8, RunningType, TopType DEF Calls, Token
  <2>2. /\ Entry(Token) \in Built + 1 .. Len(dictionary) - (n + 1 - 2)
        /\ Token # ":" /\ Code(Token) = dictionary[Entry(Token)].code
    BY <1>8, CalleeEarlier
  <2>3. Ordered(dictionary, n + 1, frames'[n + 1])
    BY <1>8, <2>2 DEF Calls, Frame, Ordered
  <2>4. ASSUME NEW i \in 2 .. n - 1 PROVE Ordered(dictionary, i, frames'[i])
    <3>1. i \in 1 .. n - 1 /\ i \in 2 .. n
      BY <2>1
    <3> QED
      BY <1>8, <3>1 DEF Calls, Descending
  <2>5. n >= 2 => Ordered(dictionary, n, frames'[n])
    <3>1. /\ frames'[n].code = Top.code /\ frames'[n].word = Top.word
          /\ frames'[n].at = Top.at + 1 /\ Top.at + 1 - 1 = Top.at
      BY <1>8, <2>1 DEF Calls, Activation
    <3>2. n >= 2 => Ordered(dictionary, n, Top)
      BY <2>1 DEF Descending
    <3> QED
      BY <2>1, <2>2, <3>1, <3>2 DEF Ordered
  <2>6. Len(frames') = n + 1
    BY <1>8 DEF Calls
  <2>7. \A i \in 2 .. n + 1 : i \in 2 .. n - 1 \/ (i = n /\ n >= 2) \/ i = n + 1
    BY <2>1
  <2> QED
    BY <2>3, <2>4, <2>5, <2>6, <2>7
<1> QED
  BY <1>1, <1>2, <1>3, <1>4, <1>5, <1>6, <1>7, <1>8, Shapes

\* The inductive invariant holds at the start.
LEMMA InvInit == Init => IInv
<1> SUFFICES ASSUME Init PROVE IInv
  OBVIOUS
<1>1. TypeOK
  BY TypeInit
<1>2. /\ dictionary = [i \in 1 .. 27 |-> [name |-> CWords[i], code |-> Native]]
      /\ Built = 27 /\ DOMAIN CWords = 1 .. 27 /\ frames = << >>
  BY CWordsAt DEF Init
<1>3. DOMAIN dictionary = 1 .. 27 /\ Len(dictionary) = 27
  <2>1. DOMAIN dictionary = 1 .. Len(dictionary) /\ Len(dictionary) \in Nat
    BY <1>1, TypeParts, ElementType
  <2>2. DOMAIN dictionary = 1 .. 27
    BY <1>2
  <2>3. 27 \in 1 .. Len(dictionary)
    BY <2>1, <2>2
  <2>4. Len(dictionary) \in 1 .. Len(dictionary)
    BY <2>1, <2>3
  <2>5. Len(dictionary) \in 1 .. 27
    BY <2>1, <2>2, <2>4
  <2> QED
    BY <2>2, <2>3, <2>5
<1>4. \A i \in 1 .. 27 : dictionary[i].name = CWords[i] /\ dictionary[i].code = Native
  BY <1>2
<1>5. Len(Native) = 0 /\ Len(frames) = 0
  BY <1>2 DEF Native
<1>6. CWordsFirst
  BY <1>2, <1>3, <1>4 DEF CWordsFirst
<1>7. OneEntryPerName
  BY <1>2, <1>3, <1>4, ConstantsAssumption DEF OneEntryPerName
<1>8. SemicolonFirst /\ Scanned /\ Descending
  <2>1. \A i \in 1 .. Len(dictionary) : NoSemicolon(dictionary[i].code)
    <3>1. NoSemicolon(Native)
      <4>1. \A k \in 2 .. 0 : FALSE
        OBVIOUS
      <4> QED
        BY <1>5, <4>1 DEF NoSemicolon
    <3> QED
      BY <1>3, <1>4, <3>1
  <2>2. Scanned
    BY <1>5 DEF Scanned
  <2>3. Descending
    BY <1>5 DEF Descending
  <2>4. \A i \in 2 .. Len(frames) : NoSemicolon(frames[i].code)
    BY <1>5
  <2> QED
    BY <2>1, <2>2, <2>3, <2>4 DEF SemicolonFirst
<1>9. Stratified
  BY <1>2, <1>3, <1>4, <1>5 DEF Stratified, UsesEarlier
<1> QED
  BY <1>1, <1>6, <1>7, <1>8, <1>9 DEF IInv

\* Every step keeps the inductive invariant.
LEMMA InvNext == IInv /\ [Next]_vars => IInv'
<1> SUFFICES ASSUME IInv, [Next]_vars PROVE IInv'
  OBVIOUS
<1>1. TypeOK /\ CWordsFirst /\ OneEntryPerName /\ SemicolonFirst /\ Scanned /\ Stratified /\ Descending
  BY DEF IInv
<1>2. TypeOK'
  BY <1>1, TypeNext
<1>3. CWordsFirst' /\ OneEntryPerName'
  BY <1>1, NamesNext
<1>4. SemicolonFirst'
  BY <1>1, SemicolonNext
<1>5. Scanned'
  BY <1>1, ScannedNext
<1>6. Stratified'
  BY <1>1, StratifiedNext
<1>7. Descending'
  BY DescendingNext
<1> QED
  BY <1>2, <1>3, <1>4, <1>5, <1>6, <1>7 DEF IInv

\* The inductive invariant implies the properties.
LEMMA InvSafe == IInv => OneEntryPerName /\ NothingSkipped /\ NestingBounded
<1> SUFFICES ASSUME IInv PROVE OneEntryPerName /\ NothingSkipped /\ NestingBounded
  OBVIOUS
<1> USE DEF IInv
<1>1. NothingSkipped
  <2> SUFFICES ASSUME Running, Token \notin Numerals, ~Known(Token)
               PROVE  \E i \in 1 .. Top.at - 1 : Top.code[i] \in Text \cup {":"}
    BY DEF NothingSkipped
  <2> DEFINE a == Top.at
             code == Top.code
  <2>1. /\ a \in 1 .. Len(code) /\ Len(code) \in Nat /\ Top.phase = "run" /\ Token = code[a]
        /\ Top = frames[Len(frames)] /\ Len(frames) \in Nat \ {0}
    BY RunningType, TopType DEF Token
  <2>2. SeenSoFar(Names, Top)
    BY <2>1 DEF Scanned
  <2>3. Seen(Names, code, Len(code) + 1)
    BY <2>1, <2>2 DEF SeenSoFar
  <2>4. Token \notin Numerals \cup Names
    BY NamesKnown
  <2>5. CASE NoTextBefore(code, a)
    <3>1. a > 1 /\ code[a - 1] = ":"
      BY <2>1, <2>3, <2>4, <2>5 DEF Seen
    <3>2. a - 1 \in 1 .. a - 1
      BY <2>1, <3>1
    <3> QED
      BY <3>1, <3>2
  <2>6. CASE ~NoTextBefore(code, a)
    BY <2>6 DEF NoTextBefore
  <2> QED
    BY <2>5, <2>6
<1>2. NestingBounded
  <2> SUFFICES ASSUME clean PROVE Len(frames) <= Len(dictionary) - Len(CWords) + 1
    BY DEF NestingBounded
  <2>1. Len(frames) \in Nat /\ Len(dictionary) \in Nat /\ Built = 27 /\ Built <= Len(dictionary)
    BY WordsInC, TypeParts, ElementType DEF FramesOK
  <2> SUFFICES Len(frames) <= Len(dictionary) - Built + 1
    BY DEF Built
  <2>2. CASE Len(frames) < 2
    BY <2>1, <2>2
  <2>3. CASE Len(frames) >= 2
    <3>1. Len(frames) \in 2 .. Len(frames)
      BY <2>1, <2>3
    <3>2. frames[Len(frames)].word \in Built + 1 .. Len(dictionary) - (Len(frames) - 2)
      BY <3>1 DEF Descending, Ordered
    <3> QED
      BY <2>1, <3>2
  <2> QED
    BY <2>1, <2>2, <2>3
<1> QED
  BY <1>1, <1>2

\* The inductive invariant holds in every reachable state.
THEOREM Invariance == Spec => []IInv
BY InvInit, InvNext, PTL DEF Spec

\* find_word() and the loop that overwrites a definition agree: no name has two entries.
THEOREM OneEntry == Spec => []OneEntryPerName
BY Invariance, InvSafe, PTL

\* eval() steps over a token that is no word only behind a comment, a string or a colon:
\* the word words_exist() has found is still there after any others have run.
THEOREM NoneSkipped == Spec => []NothingSkipped
BY Invariance, InvSafe, PTL

\* eval() calls itself at most as often as there are words in Forth, while none has been
\* redefined and none was defined in a line with text in it.
THEOREM Nesting == Spec => []NestingBounded
BY Invariance, InvSafe, PTL

-----------------------------------------------------------------------------
(* The abstract machine. *)

\* The width of an int: what a sum or a product is brought to is congruent to it.
LEMMA WrapCongruent ==
  ASSUME NEW m \in Int
  PROVE  Abstract!Congruent(Wrap(m), m)
<1> DEFINE b == 2 * Half
           c == m + Half
           q == c \div b
           r == c % b
<1>1. b \in Nat \ {0} /\ c \in Int /\ c = m + Half /\ Half \in Int
  BY ConstantsAssumption
<1> HIDE DEF c
<1>2. q \in Int /\ r \in Int /\ c = b * q + r
  <2> HIDE DEF b
  <2>1. q \in Int /\ r \in 0 .. b - 1 /\ c = b * q + r
    BY <1>1, DivMod
  <2> QED
    BY <1>1, <2>1
<1>3. Wrap(m) = r - Half
  BY DEF Wrap, c
<1>4. Abstract!Congruent(Wrap(m), m) <=> (Wrap(m) - m) % b = 0
  BY DEF Abstract!Congruent
<1> HIDE DEF q, r, b
<1>5. Wrap(m) - m = b * (-q)
  BY <1>1, <1>2, <1>3
<1>6. (b * (-q)) % b = 0
  BY <1>1, <1>2, MultipleMod
<1> QED
  BY <1>4, <1>5, <1>6

\* The quotient and the remainder of C belong together.
LEMMA DividedFacts ==
  ASSUME NEW y \in Values, NEW x \in Values, x # 0, ~(x = -1 /\ y = -Half)
  PROVE  /\ Abstract!Divided(y, x, Quotient(y, x), Remainder(y, x))
         /\ Quotient(y, x) \in Abstract!Values /\ Remainder(y, x) \in Abstract!Values
<1> DEFINE q == Quotient(y, x)
           r == Remainder(y, x)
           b == 2 * Half
<1>1. q \in Values /\ r \in Values /\ Magnitude(r) < Magnitude(x)
  BY QuotientType
<1>2. r = y - q * x
  BY DEF Remainder
<1> HIDE DEF q, r
<1>3. x \in Int /\ y \in Int /\ q \in Int /\ r \in Int /\ Half \in Nat \ {0}
  BY <1>1, ConstantsAssumption DEF Values
<1>4. y - (q * x + r) = 0
  BY <1>2, <1>3
<1>5. b \in Nat \ {0}
  BY <1>3
<1>6. 0 % b = 0
  <2>1. (b * 0) % b = 0
    BY <1>5, MultipleMod
  <2>2. b * 0 = 0
    BY <1>5
  <2> QED
    BY <2>1, <2>2
<1>7. Abstract!Congruent(y, q * x + r)
  BY <1>4, <1>6 DEF Abstract!Congruent
<1>8. Abstract!Abs(r) < Abstract!Abs(x)
  BY <1>1 DEF Abstract!Abs, Magnitude
<1>9. Abstract!Values = Values
  BY DEF Abstract!Values, Values
<1> QED
  BY <1>1, <1>7, <1>8, <1>9 DEF Abstract!Divided, q, r

\* Each word leaves what the abstract machine says, when its values are there.
LEMMA EffectHolds ==
  ASSUME NEW w \in Computing, NEW x \in Values, NEW y \in Values, NEW z \in Values, NEW u \in Values,
         w \in {"/", "mod", "/mod"} => x # 0 /\ ~(x = -1 /\ y = -Half),
         NEW a,
         Pops(w) = 1 => a[1] = x,
         Pops(w) = 2 => a[1] = y /\ a[2] = x,
         Pops(w) = 3 => a[1] = z /\ a[2] = y /\ a[3] = x,
         Pops(w) = 4 => a[1] = u /\ a[2] = z /\ a[3] = y /\ a[4] = x
  PROVE  Abstract!Effect(w, a, Results(w, x, y, z, u))
<1>1. CASE w \in {"drop", "emit", "."}
  BY <1>1 DEF Abstract!Effect, Results
<1>2. CASE w = "dup"
  BY <1>2 DEF Abstract!Effect, Results, Pops
<1>3. CASE w \in {"2dup", "swap", "over"}
  BY <1>3 DEF Abstract!Effect, Results, Pops
<1>4. CASE w \in {"2swap", "2over"}
  BY <1>4 DEF Abstract!Effect, Results, Pops
<1>5. CASE w = "rot"
  BY <1>5 DEF Abstract!Effect, Results, Pops
<1>6. CASE w \in {"=", "<", ">"}
  BY <1>6 DEF Abstract!Effect, Results, Pops, Abstract!Flag, Flag, Values
<1>7. CASE w \in {"+", "-", "*"}
  <2>1. x + y \in Int /\ y - x \in Int /\ x * y \in Int /\ x + y = y + x /\ x * y = y * x
    BY ConstantsAssumption DEF Values
  <2>2. /\ Abstract!Congruent(Wrap(x + y), x + y) /\ Abstract!Congruent(Wrap(y - x), y - x)
        /\ Abstract!Congruent(Wrap(x * y), x * y)
    BY <2>1, WrapCongruent
  <2>3. a[1] = y /\ a[2] = x
    BY <1>7 DEF Pops
  <2> QED
    BY <1>7, <2>1, <2>2, <2>3 DEF Abstract!Effect, Results
<1>8. CASE w \in {"/", "mod", "/mod"}
  <2>1. a[1] = y /\ a[2] = x
    BY <1>8 DEF Pops
  <2>2. /\ Abstract!Divided(y, x, Quotient(y, x), Remainder(y, x))
        /\ Quotient(y, x) \in Abstract!Values /\ Remainder(y, x) \in Abstract!Values
    BY <1>8, DividedFacts
  <2> QED
    BY <1>8, <2>1, <2>2 DEF Abstract!Effect, Results
<1> QED
  BY <1>1, <1>2, <1>3, <1>4, <1>5, <1>6, <1>7, <1>8 DEF Computing

\* Compute is what the abstract machine allows for its word.
LEMMA ComputeRefines ==
  ASSUME TypeOK, Compute, ~Traps(Token)
  PROVE  Abstract!Do(Token) \/ Abstract!Misuse(Token)
<1> DEFINE w == Token
           n == Pops(w)
           s == Rest(n)
           r == Results(w, Popped(1), Popped(2), Popped(3), Popped(4))
           p == Pushed(s, r)
           k == Len(stack)
<1>1. /\ Running /\ w \in Computing /\ stack' = p
  BY DEF Compute, IsNative
<1>2. stack \in Seq(Values) /\ k \in Nat /\ k <= StackSize /\ StackSize \in Nat
  BY <1>1, RunningType, ElementType, ConstantsAssumption
<1>3. n \in 1 .. 4 /\ n = Abstract!In(w)
  BY DEF Pops, Abstract!In
<1>4. Popped(1) \in Values /\ Popped(2) \in Values /\ Popped(3) \in Values /\ Popped(4) \in Values
  BY <1>2, PoppedType
<1>5. w \in {"/", "mod", "/mod"} => Popped(1) # 0 /\ ~(Popped(1) = -1 /\ Popped(2) = -Half)
  BY DEF Traps
<1>6. r \in Seq(Values) /\ Len(r) \in Nat
  BY <1>1, <1>4, <1>5, ResultsType, ElementType
<1> HIDE DEF r
<1>7. /\ s \in Seq(Values) /\ Len(s) <= StackSize /\ Len(s) \in Nat
      /\ Len(s) = IF n <= k THEN k - n ELSE 0
  <2>1. n \in Nat
    BY <1>3
  <2> HIDE DEF n
  <2>2. /\ s \in Seq(Values) /\ Len(s) <= StackSize
        /\ Len(s) = IF n <= Len(stack) THEN Len(stack) - n ELSE 0
    BY <1>2, <2>1, RestFacts
  <2> QED
    BY <2>2, ElementType
<1>8. s = Abstract!Below(n)
  <2>1. (IF n > k THEN 0 ELSE k - n) = (IF n <= k THEN k - n ELSE 0)
    BY <1>2, <1>3
  <2> QED
    BY <2>1 DEF Rest, Abstract!Below
<1> HIDE DEF s
<1>9. /\ p \in Seq(Values)
      /\ Len(p) = IF Len(r) <= StackSize - Len(s) THEN Len(s) + Len(r) ELSE StackSize
      /\ \A i \in 1 .. Len(s) : p[i] = s[i]
      /\ \A i \in 1 .. Len(r) : Len(s) + i <= StackSize => p[Len(s) + i] = r[i]
  BY <1>6, <1>7, PushedFacts
<1> HIDE DEF p
<1>10. Len(p) \in Len(s) .. StackSize
  BY <1>2, <1>6, <1>7, <1>9
<1>11. SubSeq(p, 1, Len(s)) = s
  <2>1. Len(s) \in 0 .. Len(p)
    BY <1>2, <1>7, <1>10
  <2>2. /\ SubSeq(p, 1, Len(s)) \in Seq(Values) /\ Len(SubSeq(p, 1, Len(s))) = Len(s)
        /\ \A i \in 1 .. Len(s) : SubSeq(p, 1, Len(s))[i] = p[i]
    BY <1>9, <2>1, CutFacts
  <2> QED
    BY <1>7, <1>9, <2>2, SameSequence
<1>12. Abstract!Keeps(n)
  BY <1>1, <1>8, <1>10, <1>11 DEF Abstract!Keeps
<1>13. CASE k < n
  BY <1>3, <1>12, <1>13 DEF Abstract!Misuse
<1>14. CASE ~(Len(r) <= StackSize - Len(s))
  <2>1. Len(stack') = StackSize
    BY <1>1, <1>9, <1>14
  <2> QED
    BY <1>3, <1>12, <2>1 DEF Abstract!Misuse
<1>15. CASE ~(k < n) /\ Len(r) <= StackSize - Len(s)
  <2>1. Len(p) = Len(s) + Len(r) /\ Len(s) = k - n
    BY <1>2, <1>3, <1>7, <1>9, <1>15
  <2>2. SubSeq(p, Len(s) + 1, Len(p)) = r
    <3> DEFINE t == SubSeq(p, Len(s) + 1, Len(p))
    <3>1. Len(s) \in 0 .. Len(p) /\ Len(p) - Len(s) = Len(r)
      BY <1>6, <1>7, <2>1
    <3>2. t \in Seq(Values) /\ Len(t) = Len(r) /\ \A i \in 1 .. Len(r) : t[i] = p[Len(s) + i]
      BY <1>9, <3>1, CutFacts
    <3>3. \A i \in 1 .. Len(r) : Len(s) + i <= StackSize
      BY <1>2, <1>6, <1>7, <1>15
    <3>4. \A i \in 1 .. Len(r) : t[i] = r[i]
      BY <1>9, <3>2, <3>3
    <3> QED
      BY <1>6, <3>2, <3>4, SameSequence
  <2>3. Abstract!Left(n) = r
    BY <1>1, <1>8, <2>2 DEF Abstract!Left
  <2> DEFINE a == Abstract!Taken(n)
  <2>4. \A i \in 1 .. n : a[i] = stack[k - n + i]
    <3>1. k - n \in 0 .. k /\ k - (k - n) = n
      BY <1>2, <1>3, <1>15
    <3>2. \A i \in 1 .. k - (k - n) : SubSeq(stack, k - n + 1, k)[i] = stack[k - n + i]
      BY <1>2, <3>1, CutFacts
    <3> QED
      BY <3>1, <3>2 DEF Abstract!Taken
  <2> HIDE DEF a
  <2>5. \A i \in 1 .. n : i <= k /\ Popped(i) = stack[k - i + 1]
    BY <1>2, <1>3, <1>15 DEF Popped
  <2>6. /\ (n = 1 => a[1] = Popped(1))
        /\ (n = 2 => a[1] = Popped(2) /\ a[2] = Popped(1))
        /\ (n = 3 => a[1] = Popped(3) /\ a[2] = Popped(2) /\ a[3] = Popped(1))
        /\ (n = 4 => a[1] = Popped(4) /\ a[2] = Popped(3) /\ a[3] = Popped(2) /\ a[4] = Popped(1))
    <3>1. \A i, j \in 1 .. n : i + j = n + 1 => a[i] = Popped(j)
      <4> SUFFICES ASSUME NEW i \in 1 .. n, NEW j \in 1 .. n, i + j = n + 1
                   PROVE  a[i] = Popped(j)
        OBVIOUS
      <4> HIDE DEF k, n
      <4>1. k - n + i = k - j + 1
        BY <1>2, <1>3
      <4> QED
        BY <2>4, <2>5, <4>1
    <3> HIDE DEF n
    <3>2. CASE n = 1
      BY <3>1, <3>2
    <3>3. CASE n = 2
      BY <3>1, <3>3
    <3>4. CASE n = 3
      BY <3>1, <3>4
    <3>5. CASE n = 4
      BY <3>1, <3>5
    <3> QED
      BY <1>3, <3>2, <3>3, <3>4, <3>5
  <2>7. Abstract!Effect(w, a, r)
    BY <1>1, <1>4, <1>5, <2>6, EffectHolds DEF r
  <2> QED
    BY <1>2, <1>3, <1>12, <1>15, <2>3, <2>7 DEF Abstract!Do, a
<1> QED
  BY <1>13, <1>14, <1>15

\* A step that leaves the stack alone while nothing is due, or breaks the machine.
LEMMA IdleStep ==
  ASSUME UNCHANGED stack, mode # "lost",
         ~(Running /\ Token \in Numerals), ~(IsNative /\ Token \in Computing)
  PROVE  Abstract!Next
<1>1. Due.word = "idle"
  BY DEF Due
<1> QED
  BY <1>1 DEF Abstract!Next, Abstract!Idle

\* A program that faults breaks the machine.
LEMMA BreakStep == ASSUME Stop("lost") PROVE Abstract!Next
<1>1. mode' = "lost" /\ UNCHANGED stack
  BY DEF Stop
<1>2. Due' = [word |-> "broken", value |-> 0]
  BY <1>1 DEF Due, IsNative, Running
<1>3. Due'.word = "broken"
  BY <1>2
<1> QED
  BY <1>1, <1>3 DEF Abstract!Next, Abstract!Break

\* Every step is a step of the abstract machine, or leaves it alone.
LEMMA StepRefines ==
  ASSUME IInv, [Next]_vars
  PROVE  Abstract!Next \/ UNCHANGED <<stack, Due>>
<1>1. TypeOK /\ CWordsFirst
  BY DEF IInv
<1>2. \A t \in Text \cup {":", ";", "bye"} : t \notin Numerals
  BY <1>1, WordsInC
<1>3. ASSUME NEW l \in Lines, ReadLine(l) \/ ReadLastLine(l) PROVE Abstract!Next
  BY <1>3, IdleStep DEF ReadLine, ReadLastLine, Execute, Running, IsNative
<1>4. CASE ToTerminal \/ NoFile
  BY <1>4, IdleStep DEF ToTerminal, NoFile, Stop, Running, IsNative
<1>5. CASE Unreadable \/ NoMemory
  BY <1>5, BreakStep DEF Unreadable, NoMemory
<1>6. CASE CheckToken \/ Checked \/ NotFound
  BY <1>6, IdleStep DEF CheckToken, Checked, NotFound, Checking, Leave, Running, IsNative
<1>7. CASE Number
  <2> DEFINE v == Value[Token]
  <2>1. Running /\ Token \in Numerals /\ mode # "lost" /\ stack' = Pushed(stack, <<v>>)
    BY <1>7 DEF Number, Running
  <2>2. Due.word = "push" /\ Due.value = v
    <3>1. Due = [word |-> "push", value |-> Value[Token]]
      BY <2>1 DEF Due, IsNative
    <3> QED
      BY <3>1
  <2>3. stack \in Seq(Values) /\ Len(stack) <= StackSize /\ v \in Values /\ StackSize \in Nat
        /\ Len(stack) \in Nat
    BY <1>1, <2>1, RunningType, ElementType, ConstantsAssumption
  <2> HIDE DEF v
  <2>4. Pushed(stack, <<v>>) = IF Len(stack) < StackSize THEN Append(stack, v) ELSE stack
    <3> DEFINE r == <<v>>
    <3>1. r \in Seq(Values) /\ Len(r) = 1 /\ r[1] = v
      BY <2>3
    <3> HIDE DEF r
    <3>2. /\ Pushed(stack, r) \in Seq(Values)
          /\ Len(Pushed(stack, r)) = IF 1 <= StackSize - Len(stack) THEN Len(stack) + 1 ELSE StackSize
          /\ \A i \in 1 .. Len(stack) : Pushed(stack, r)[i] = stack[i]
          /\ \A i \in 1 .. 1 : Len(stack) + i <= StackSize => Pushed(stack, r)[Len(stack) + i] = v
      <4>1. /\ Pushed(stack, r) \in Seq(Values)
            /\ Len(Pushed(stack, r)) = IF Len(r) <= StackSize - Len(stack) THEN Len(stack) + Len(r) ELSE StackSize
            /\ \A i \in 1 .. Len(stack) : Pushed(stack, r)[i] = stack[i]
            /\ \A i \in 1 .. Len(r) : Len(stack) + i <= StackSize => Pushed(stack, r)[Len(stack) + i] = r[i]
        BY <2>3, <3>1, PushedFacts
      <4>2. \A i \in 1 .. 1 : r[i] = v
        BY <3>1
      <4> QED
        BY <3>1, <4>1, <4>2
    <3>3. CASE Len(stack) < StackSize
      <4>1. /\ Append(stack, v) \in Seq(Values) /\ Len(Append(stack, v)) = Len(stack) + 1
            /\ \A i \in 1 .. Len(stack) : Append(stack, v)[i] = stack[i]
            /\ Append(stack, v)[Len(stack) + 1] = v
        BY <2>3, AppendProperties
      <4>2. /\ Len(Pushed(stack, r)) = Len(stack) + 1
            /\ \A i \in 1 .. Len(stack) + 1 : Pushed(stack, r)[i] = Append(stack, v)[i]
        BY <2>3, <3>2, <3>3, <4>1
      <4>3. Pushed(stack, r) = Append(stack, v)
        BY <3>2, <4>1, <4>2, SameSequence
      <4> QED
        BY <3>3, <4>3 DEF r
    <3>4. CASE ~(Len(stack) < StackSize)
      <4>1. Len(Pushed(stack, r)) = Len(stack)
        BY <2>3, <3>2, <3>4
      <4>2. Pushed(stack, r) = stack
        BY <2>3, <3>2, <4>1, SameSequence
      <4> QED
        BY <3>4, <4>2 DEF r
    <3> QED
      BY <3>3, <3>4
  <2> QED
    BY <2>1, <2>2, <2>4 DEF Abstract!Next, Abstract!Push
<1>8. CASE Compute
  <2>1. /\ Running /\ IsNative /\ Token \in Computing /\ Token \notin Numerals /\ mode # "lost"
    BY <1>8 DEF Compute, IsNative, Running
  <2>2. CASE Traps(Token)
    BY <1>8, <2>2, BreakStep DEF Compute
  <2>3. CASE ~Traps(Token)
    <3>1. Due.word = Token
      BY <2>1 DEF Due
    <3>2. Token \in Abstract!Words
      BY <2>1 DEF Abstract!Words, Computing
    <3>3. Abstract!Do(Token) \/ Abstract!Misuse(Token)
      BY <1>1, <1>8, <2>3, ComputeRefines
    <3> QED
      BY <3>1, <3>2, <3>3 DEF Abstract!Next
  <2> QED
    BY <2>2, <2>3
<1>9. CASE Bye
  BY <1>2, <1>9, IdleStep DEF Bye, Leave, Running, IsNative
<1>10. CASE Return
  BY <1>10, IdleStep DEF Return, Leave, Running, IsNative
<1>11. CASE Nothing
  <2>1. Running /\ Token \notin Numerals /\ UNCHANGED stack /\ mode # "lost"
    BY <1>2, <1>11 DEF Nothing, IsNative, Running
  <2>2. ~(IsNative /\ Token \in Computing)
    BY <1>11 DEF Nothing, Computing, IsNative
  <2> QED
    BY <2>1, <2>2, IdleStep
<1>12. CASE PrintString
  <2>1. Token = DotQuote /\ Running /\ Token \notin Numerals /\ UNCHANGED stack /\ mode # "lost"
    BY <1>12 DEF PrintString, IsNative, Running, Stop
  <2>2. DotQuote \notin Computing
    BY DEF DotQuote, Computing
  <2> QED
    BY <2>1, <2>2, IdleStep
<1>13. CASE Colon
  <2>1. Token = ":" /\ Running /\ Token \notin Numerals /\ UNCHANGED stack /\ mode # "lost"
    BY <1>13 DEF Colon, IsNative, Running, Stop
  <2>2. Token \notin Computing
    BY <2>1 DEF Computing
  <2> QED
    BY <2>1, <2>2, IdleStep
<1>14. CASE Call
  <2>1. Running /\ Token \notin Numerals /\ UNCHANGED stack /\ mode # "lost" /\ ~IsNative
    BY <1>14 DEF Call, IsNative, Running, Stop
  <2> QED
    BY <2>1, IdleStep
<1>15. CASE UNCHANGED vars
  BY <1>15 DEF vars, Due, Running, IsNative, More, Token, Top, Known, Code, Entry
<1> QED
  BY <1>3, <1>4, <1>5, <1>6, <1>7, <1>8, <1>9, <1>10, <1>11, <1>12, <1>13, <1>14, <1>15 DEF Next

\* The interpreter does with its array what a Forth promises of its stack.
THEOREM Implements == Spec => ImplementsStackMachine
<1>1. Init => Abstract!Init
  BY DEF Init, Abstract!Init
<1>2. IInv /\ [Next]_vars => [Abstract!Next]_<<stack, Due>>
  BY StepRefines
<1> QED
  BY <1>1, <1>2, Invariance, PTL DEF Spec, ImplementsStackMachine, Abstract!Spec

=============================================================================
