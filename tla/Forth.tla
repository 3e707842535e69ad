--------------------------------- MODULE Forth ---------------------------------
(***************************************************************************)
(* src/bin/forth.c: the interpreter, from the tokens of a line on. A       *)
(* token is a string, a line a sequence of them (at most 63, each of at    *)
(* most 63 characters and none with a backslash in it: split_args() puts   *)
(* them into one block of memory). eval() calls itself for a word that is  *)
(* defined in Forth; its activations are the frames. What is printed is    *)
(* left out.                                                               *)
(***************************************************************************)
EXTENDS Integers, Sequences, FiniteSets

CONSTANTS
  Tokens,    \* what split_args() cuts a line into
  Numerals,  \* the tokens that is_number() accepts
  Value,     \* what atoi() makes of them
  Closing,   \* the tokens that end in a quotation mark
  Doubled,   \* a token with its last character doubled
  Lines,     \* the lines that may be typed or stand in a file
  Half,      \* an int is in [-Half, Half)
  StackSize, \* STACK_SIZE
  MaxDepth,  \* how many activations of eval() the C stack has room for
  MaxLines   \* bound: the lines read in one life of the interpreter

VARIABLES
  mode,       \* "read", "eval", or how it ended: "quit", "gone" by exit(1), "lost" by a fault
  source,     \* where lines come from: "file", then "terminal"
  stack,      \* the data stack, its top on the right
  dictionary, \* the words, oldest first
  frames,     \* the activations of eval(), the innermost on the right
  clean,      \* history: no word has been redefined, and none defined in a line with text in it
  typed       \* the lines read so far

vars == <<mode, source, stack, dictionary, frames, clean, typed>>

Values == -Half .. Half - 1
Wrap(n) == ((n + Half) % (2 * Half)) - Half

DotQuote == ".\""
Parens == {"(", ")"}
Text == Parens \cup {DotQuote}

\* The code of a word that is written in C.
Native == << >>

CWords == <<".", "+", "-", "*", "/", "mod", "/mod", ">", "<", "=", "swap", "2swap", "dup",
            "2dup", "over", "2over", "drop", "rot", ".s", DotQuote, "emit", ":", ";", "(",
            ")", "bye", "dump">>

ASSUME ConstantsAssumption ==
  /\ Half \in Nat \ {0} /\ StackSize \in Nat \ {0} /\ MaxDepth \in Nat \ {0} /\ MaxLines \in Nat
  /\ Numerals \subseteq Tokens /\ Value \in [Numerals -> Values]
  /\ \A i \in DOMAIN CWords : CWords[i] \in Tokens \ Numerals
  /\ \A i, j \in DOMAIN CWords : CWords[i] = CWords[j] => i = j
  /\ DotQuote \in Closing
  /\ \A l \in Lines : l \in Seq(Tokens) /\ \A i \in DOMAIN l : l[i] \in DOMAIN Doubled
  /\ \A t \in DOMAIN Doubled : Doubled[t] \in Tokens

(***************************************************************************)
(* The words that only move values between the stack and the C variables.  *)
(***************************************************************************)
Computing == {".", "emit", "+", "-", "*", "/", "mod", "/mod", ">", "<", "=", "swap", "2swap",
              "dup", "2dup", "over", "2over", "drop", "rot"}

\* Mutant: rot takes two values only.
PopsTwo(w) == IF w = "rot" THEN 2 ELSE IF w \in {"drop", "dup", "emit", "."} THEN 1
              ELSE IF w \in {"2swap", "2over"} THEN 4 ELSE 2

Pops(w) ==
  CASE w \in {"drop", "dup", "emit", "."} -> 1
    [] w \in {"2swap", "2over"} -> 4
    [] w = "rot" -> 3
    [] OTHER -> 2

\* The k-th pop() of a word: 0 when the stack is empty.
Popped(k) == IF k <= Len(stack) THEN stack[Len(stack) - k + 1] ELSE 0
Rest(n) == SubSeq(stack, 1, IF n <= Len(stack) THEN Len(stack) - n ELSE 0)

\* Mutant: push() without its test for a full stack.
PushedUnchecked(s, r) == s \o r

\* push() of several values: those there is no room for are dropped.
Pushed(s, r) ==
  s \o SubSeq(r, 1, IF Len(r) <= StackSize - Len(s) THEN Len(r) ELSE StackSize - Len(s))

Flag(b) == IF b THEN -1 ELSE 0

Magnitude(n) == IF n < 0 THEN -n ELSE n
Quotient(y, x) == LET q == Magnitude(y) \div Magnitude(x) IN IF (y < 0) = (x < 0) THEN q ELSE -q
Remainder(y, x) == y - Quotient(y, x) * x

\* What w pushes after its pops have returned x, y, z, u in this order. Where
\* C leaves the order of two pop() open, the compiler calls the left one first.
Results(w, x, y, z, u) ==
  CASE w \in {"drop", "emit", "."} -> << >>
    [] w = "+" -> <<Wrap(x + y)>>
    [] w = "-" -> <<Wrap(y - x)>>
    [] w = "*" -> <<Wrap(x * y)>>
    [] w = "/" -> <<Quotient(y, x)>>
    [] w = "mod" -> <<Remainder(y, x)>>
    [] w = "/mod" -> <<Remainder(y, x), Quotient(y, x)>>
    [] w = ">" -> <<Flag(x < y)>>
    [] w = "<" -> <<Flag(x > y)>>
    [] w = "=" -> <<Flag(x = y)>>
    [] w = "swap" -> <<x, y>>
    [] w = "2swap" -> <<y, x, u, z>>
    [] w = "dup" -> <<x, x>>
    [] w = "2dup" -> <<y, x, y, x>>
    [] w = "over" -> <<y, x, y>>
    [] w = "2over" -> <<u, z, y, x, u, z>>
    [] w = "rot" -> <<y, x, z>>

Traps(w) == w \in {"/", "mod", "/mod"}
            /\ (Popped(1) = 0 \/ (Popped(1) = -1 /\ Popped(2) = -Half))

(***************************************************************************)
(* The dictionary.                                                         *)
(***************************************************************************)
Known(t) == \E i \in DOMAIN dictionary : dictionary[i].name = t
Entry(t) == CHOOSE i \in DOMAIN dictionary :
              dictionary[i].name = t /\ \A j \in 1 .. i - 1 : dictionary[j].name # t
Code(t) == dictionary[Entry(t)].code

\* Mutant: a word that is defined again gets another entry.
DefineAgain(name, body) == Append(dictionary, [name |-> name, code |-> body])

Define(name, body) ==
  IF Known(name) THEN [dictionary EXCEPT ![Entry(name)].code = body]
                 ELSE Append(dictionary, [name |-> name, code |-> body])

(***************************************************************************)
(* The activations of eval(): words_exist() reads the tokens as words, as  *)
(* a comment or as a string, then they are run.                            *)
(***************************************************************************)
Frame(code, word) == [code |-> code, at |-> 1, phase |-> "words", word |-> word]

Top == frames[Len(frames)]
Token == Top.code[Top.at]
More == Top.at <= Len(Top.code)
Jump(i) == frames' = [frames EXCEPT ![Len(frames)].at = i]
Enclosing == SubSeq(frames, 1, Len(frames) - 1)

Init ==
  /\ mode = "read" /\ source = "file"
  /\ stack = << >>
  /\ dictionary = [i \in DOMAIN CWords |-> [name |-> CWords[i], code |-> Native]]
  /\ frames = << >>
  /\ clean = TRUE /\ typed = 0

Stop(how) == mode' = how /\ UNCHANGED <<source, stack, dictionary, frames, clean, typed>>

Execute(line) ==
  /\ mode = "read" /\ typed < MaxLines
  /\ mode' = "eval"
  /\ frames' = <<Frame(line, 0)>>
  /\ typed' = typed + 1
  /\ UNCHANGED <<source, stack, dictionary, clean>>

ReadLine(line) == Execute(line)

\* At the end of a file the last character is stored once more: harmless if
\* it is a newline.
ReadLastLine(line) ==
  /\ source = "file" /\ line # << >>
  /\ Execute([line EXCEPT ![Len(line)] = Doubled[@]])

ToTerminal ==
  /\ mode = "read" /\ source = "file"
  /\ source' = "terminal"
  /\ UNCHANGED <<mode, stack, dictionary, frames, clean, typed>>

\* A file that cannot be opened ends the program, one that cannot be read is
\* read for ever into a buffer of 256 bytes.
NoFile == mode = "read" /\ source = "file" /\ Stop("gone")
Unreadable == mode = "read" /\ source = "file" /\ Stop("lost")

\* Mutant: a flag for the name behind a colon that is never reset.
AfterAnyColon == \E i \in 1 .. Top.at - 1 : Top.code[i] = ":"

AfterColon == Top.at > 1 /\ Top.code[Top.at - 1] = ":"

Missing ==
  /\ Top.phase = "words" /\ ~AfterColon
  /\ Token \notin Numerals \cup Text /\ ~Known(Token)

PhaseAfter ==
  CASE Top.phase = "words" /\ ~AfterColon /\ Token \in Parens -> "comment"
    [] Top.phase = "words" /\ ~AfterColon /\ Token = DotQuote -> "string"
    [] Top.phase = "string" /\ Token \in Closing \ Numerals -> "words"
    [] OTHER -> Top.phase

Checking == mode = "eval" /\ Top.phase # "run"

CheckToken ==
  /\ Checking /\ More /\ ~Missing
  /\ frames' = [frames EXCEPT ![Len(frames)].at = @ + 1, ![Len(frames)].phase = PhaseAfter]
  /\ UNCHANGED <<mode, source, stack, dictionary, clean, typed>>

\* Mutant: the last token is not looked up.
CheckedEarly ==
  /\ Checking /\ Top.at >= Len(Top.code)
  /\ frames' = [frames EXCEPT ![Len(frames)].at = 1, ![Len(frames)].phase = "run"]
  /\ UNCHANGED <<mode, source, stack, dictionary, clean, typed>>

Checked ==
  /\ Checking /\ ~More
  /\ frames' = [frames EXCEPT ![Len(frames)].at = 1, ![Len(frames)].phase = "run"]
  /\ UNCHANGED <<mode, source, stack, dictionary, clean, typed>>

\* eval() returns. Whoever called it goes on whatever the result; only the
\* loop over the lines of the terminal looks at it.
Leave(code) ==
  /\ frames' = Enclosing
  /\ mode' = IF Len(frames) > 1 THEN "eval"
             ELSE IF code = 2 /\ source = "terminal" THEN "quit" ELSE "read"
  /\ UNCHANGED <<source, stack, dictionary, clean, typed>>

NotFound == Checking /\ More /\ Missing /\ Leave(1)

Running == mode = "eval" /\ Top.phase = "run" /\ More

Return == mode = "eval" /\ Top.phase = "run" /\ ~More /\ Leave(0)

Number ==
  /\ Running /\ Token \in Numerals
  /\ stack' = Pushed(stack, <<Value[Token]>>)
  /\ Jump(Top.at + 1)
  /\ UNCHANGED <<mode, source, dictionary, clean, typed>>

Bye == Running /\ Token = "bye" /\ Leave(2)

IsNative == Running /\ Token \notin Numerals \cup {"bye"} /\ Known(Token) /\ Code(Token) = Native

Compute ==
  /\ IsNative /\ Token \in Computing
  /\ IF Traps(Token) THEN Stop("lost")
     ELSE /\ stack' = Pushed(Rest(Pops(Token)),
                             Results(Token, Popped(1), Popped(2), Popped(3), Popped(4)))
          /\ Jump(Top.at + 1)
          /\ UNCHANGED <<mode, source, dictionary, clean, typed>>

\* The words that change nothing, and the tokens that are no words: eval()
\* steps over what it does not find.
Nothing ==
  /\ \/ IsNative /\ Token \in {";", "(", ")", ".s", "dump"}
     \/ Running /\ Token \notin Numerals /\ ~Known(Token)
  /\ Jump(Top.at + 1)
  /\ UNCHANGED <<mode, source, stack, dictionary, clean, typed>>

\* print() takes one token, however long the string is: the quotation mark it
\* looks for is the one of the word itself.
PrintString ==
  /\ IsNative /\ Token = DotQuote
  /\ IF Top.at = Len(Top.code) THEN Stop("lost")
     ELSE /\ Jump(Top.at + 2)
          /\ UNCHANGED <<mode, source, stack, dictionary, clean, typed>>

\* The positions of ; that may end a definition: the first token of the body
\* is taken as it is.
Ends == {i \in Top.at + 3 .. Len(Top.code) : Top.code[i] = ";"}
End == CHOOSE i \in Ends : \A j \in Ends : i <= j

Colon ==
  /\ IsNative /\ Token = ":"
  /\ IF Top.at + 2 > Len(Top.code) THEN Stop("lost")
     ELSE IF Ends = {} THEN Stop("gone")
     ELSE LET name == Top.code[Top.at + 1]
          IN /\ dictionary' = Define(name, SubSeq(Top.code, Top.at + 2, End - 1))
             /\ clean' = (clean /\ ~Known(name) /\ \A i \in DOMAIN Top.code : Top.code[i] \notin Text)
             /\ Jump(End + 1)
             /\ UNCHANGED <<mode, source, stack, typed>>

Call ==
  /\ Running /\ Token \notin Numerals \cup {"bye"} /\ Known(Token) /\ Code(Token) # Native
  /\ IF Len(frames) = MaxDepth THEN Stop("lost")
     ELSE /\ frames' = Append([frames EXCEPT ![Len(frames)].at = @ + 1],
                              Frame(Code(Token), Entry(Token)))
          /\ UNCHANGED <<mode, source, stack, dictionary, clean, typed>>

\* No result of malloc() is looked at.
NoMemory == mode \in {"read", "eval"} /\ Stop("lost")

Ended == mode \notin {"read", "eval"} \/ (mode = "read" /\ typed = MaxLines)

Next ==
  \/ \E l \in Lines : ReadLine(l) \/ ReadLastLine(l)
  \/ ToTerminal \/ NoFile \/ Unreadable
  \/ CheckToken \/ Checked \/ NotFound
  \/ Number \/ Bye \/ Compute \/ Nothing \/ PrintString \/ Colon \/ Call \/ Return
  \/ NoMemory
  \/ Ended /\ UNCHANGED vars

Spec == Init /\ [][Next]_vars

-----------------------------------------------------------------------------
(* Properties *)

Modes == {"read", "eval", "quit", "gone", "lost"}
Phases == {"words", "comment", "string", "run"}

\* Every variable has its type: the stack stays in its array, the activations on
\* the C stack, and each activation at one of its tokens or behind the last one.
TypeOK ==
  /\ mode \in Modes /\ source \in {"file", "terminal"} /\ clean \in BOOLEAN /\ typed \in Nat
  /\ stack \in Seq(Values) /\ Len(stack) <= StackSize
  /\ dictionary \in Seq([name : Tokens, code : Seq(Tokens)])
  /\ frames \in Seq([code : Seq(Tokens), at : Nat \ {0}, phase : Phases, word : Nat])
  /\ \A i \in DOMAIN frames : frames[i].at <= Len(frames[i].code) + 1
                            /\ frames[i].word <= Len(dictionary)
  /\ Len(frames) <= MaxDepth /\ (mode = "eval" => frames # << >>)

\* Each stack word does what a Forth manual says of it, in the width of an int,
\* and one that finds too few values or too little room leaves what is below
\* its values as it was.
Due ==
  CASE mode = "lost" -> [word |-> "broken", value |-> 0]
    [] Running /\ Token \in Numerals -> [word |-> "push", value |-> Value[Token]]
    [] IsNative /\ Token \in Computing -> [word |-> Token, value |-> 0]
    [] OTHER -> [word |-> "idle", value |-> 0]
Abstract == INSTANCE StackMachine WITH Room <- StackSize, due <- Due
ImplementsStackMachine == Abstract!Spec

\* Defining a word again overwrites it; find and overwrite agree on which entry
\* that is, so that no entry is ever hidden behind another.
OneEntryPerName ==
  \A i, j \in DOMAIN dictionary : dictionary[i].name = dictionary[j].name => i = j

\* What words_exist() has let pass is there when eval() comes to it, although
\* other words have run in between: eval() steps over a token that is no word
\* only behind a comment, a string or a colon.
NothingSkipped ==
  Running /\ Token \notin Numerals /\ ~Known(Token)
    => \E i \in 1 .. Top.at - 1 : Top.code[i] \in Text \cup {":"}

\* A word can be used in a definition only after its own, so words do not call
\* themselves, and eval() is nested no deeper than there are words in Forth; as
\* long as none is redefined or defined in a line with a comment or a string.
NestingBounded ==
  clean => Len(frames) <= Len(dictionary) - Len(CWords) + 1

=============================================================================
