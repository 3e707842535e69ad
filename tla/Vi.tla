--------------------------------- MODULE Vi ---------------------------------
(***************************************************************************)
(* The editor vi, src/bin/vi.c: one file, its lines in an array that ends  *)
(* in a line of length -1, and a cursor that is a column, a row of the     *)
(* screen, and the number of lines scrolled off its top.                   *)
(*                                                                         *)
(* A line keeps its text in a block of its own and, beside it, the number  *)
(* of bytes :w writes. The two are updated separately, so both are kept    *)
(* here. A block comes zeroed and is never used twice (module Memory):     *)
(* behind its string there are zeros until the editor writes there.        *)
(*                                                                         *)
(* Drawing reads the lines and changes nothing; it is left out.            *)
(***************************************************************************)
EXTENDS Integers, Sequences, FiniteSets

CONSTANTS
  Letter,     \* characters without a meaning of their own
  Space,      \* ' ' and '\t'
  Newline,    \* '\n'; in raw mode the return key sends '\r' instead
  Nul,        \* '\0'
  NoText,     \* the null pointer
  Absent,     \* what there is on the disk before the file exists
  Files,      \* what the file may contain when vi is first started
  MaxY,       \* rows of the screen
  Slots,      \* bound: entries of the array of lines (3000)
  Width,      \* bound: cells of a line's block (256)
  MaxPresses  \* bound: keys pressed

Char == Letter \union {Space, Newline}

\* Within these bounds no line and no column is outside the arrays.
ASSUME BoundsAssumption ==
  /\ MaxY \in Nat \ {0} /\ Slots \in Nat /\ Width \in Nat /\ MaxPresses \in Nat
  /\ MaxPresses + 3 <= Slots /\ MaxPresses + 2 <= Width
  /\ Nul \notin Char /\ Newline # Space
  /\ NoText \notin [0 .. Width - 1 -> Char \union {Nul}]
  /\ Absent \notin Seq(Char \union {Nul})
  /\ \A f \in Files \ {Absent} :
       /\ f \in Seq(Char \union {Nul})
       /\ Cardinality({p \in DOMAIN f : f[p] = Newline}) + MaxPresses + 2 <= Slots
       /\ \A a, b \in DOMAIN f : (\A p \in a .. b : f[p] # Newline)
                                  => (b - a + 1) + MaxPresses + 2 <= Width

VARIABLES
  e,        \* struct editor_state
  disk,     \* the file
  running,  \* "reading" keys, "done", or "lost" outside of its memory
  presses,  \* how many keys have been pressed
  careful   \* history: since vi was started on a file with lines in it, they
            \* have fit on the screen, w, dj and dk have not been pressed, and
            \* there was memory for every line

vars == <<e, disk, running, presses, careful>>

Slot == 0 .. Slots - 1
Column == 0 .. Width - 1
Text == [Column -> Char \union {Nul}]
Line == [text : Text \union {NoText}, length : -1 .. Width]
Editor == [mode : {"NORMAL", "INSERT"}, x : Column, y : Slot, offset : Slot,
           lines : [Slot -> Line]]

TypeOK ==
  /\ e \in Editor
  /\ disk = Absent \/ disk \in Seq(Char \union {Nul})
  /\ running \in {"reading", "done", "lost"}
  /\ presses \in 0 .. MaxPresses
  /\ careful \in BOOLEAN

AtLeast0(n) == IF n < 0 THEN 0 ELSE n

-----------------------------------------------------------------------------
(* The array of lines, and reading and writing the file. *)

\* The end of the array is marked, at n or after it.
HasEnd(lines, n) == \E i \in Slot : n <= i /\ lines[i].length = -1

EndFrom(lines, n) ==
  CHOOSE i \in Slot : /\ n <= i /\ lines[i].length = -1
                      /\ \A j \in n .. i - 1 : lines[j].length # -1

num_lines(lines) == EndFrom(lines, 0)

\* A block of 256 bytes that holds the string s.
Allocated(s) == [k \in Column |-> IF k < Len(s) THEN s[k + 1] ELSE Nul]
EmptyLine == [text |-> Allocated(<< >>), length |-> 0]
EndMark == [text |-> NoText, length |-> -1]
UnusedSlot == [text |-> NoText, length |-> 0]

\* The n-th of a set of positions.
Nth(S, n) == CHOOSE p \in S : Cardinality({q \in S : q <= p}) = n

LineEnds(f) == {p \in DOMAIN f : f[p] = Newline}

\* What reading keeps of the n-th line: all but the zeros.
Read(f, n) ==
  LET start == IF n = 1 THEN 1 ELSE Nth(LineEnds(f), n - 1) + 1
      kept == {p \in start .. Nth(LineEnds(f), n) - 1 : f[p] # Nul}
  IN  [k \in 1 .. Cardinality(kept) |-> f[Nth(kept, k)]]

\* Whatever follows the last newline is dropped.
load_file(f) ==
  [i \in Slot |->
     IF i < Cardinality(LineEnds(f))
       THEN [text |-> Allocated(Read(f, i + 1)), length |-> Len(Read(f, i + 1))]
     ELSE IF i = Cardinality(LineEnds(f)) THEN EndMark ELSE UnusedSlot]

create_file ==
  [i \in Slot |-> IF i = 0 THEN EmptyLine ELSE IF i = 1 THEN EndMark ELSE UnusedSlot]

\* What :w writes: of each line as many bytes as its length says, and a newline.
Saved(l) == [k \in 1 .. l.length + 1 |-> IF k <= l.length THEN l.text[k - 1] ELSE Newline]

Written(lines) ==
  LET upto[n \in 0 .. num_lines(lines)] ==
        IF n = 0 THEN << >> ELSE upto[n - 1] \o Saved(lines[n - 1])
  IN  upto[num_lines(lines)]

Opened(f) ==
  [mode |-> "NORMAL", x |-> 0, y |-> 0, offset |-> 0,
   lines |-> IF f = Absent THEN create_file ELSE load_file(f)]

Init ==
  /\ disk \in Files
  /\ e = Opened(disk)
  /\ running = "reading"
  /\ presses = 0
  /\ careful = (num_lines(e.lines) > 0)

-----------------------------------------------------------------------------
(* Editing lines and moving about; each takes and returns an editor. *)

strlen(text) ==
  CHOOSE n \in Column : text[n] = Nul /\ \A k \in 0 .. n - 1 : text[k] # Nul

\* Mutant: the text is not moved.
shiftright_none(text, index) == text

\* Past the end of the string the space goes to its end.
shiftright(text, index) ==
  LET gap == IF index < strlen(text) THEN index ELSE strlen(text)
  IN  [k \in Column |-> IF k = gap THEN Space
                        ELSE IF gap < k /\ k <= strlen(text) THEN text[k - 1]
                        ELSE text[k]]

shiftleft(text, index) ==
  [k \in Column |-> IF index <= k /\ k < strlen(text) THEN text[k + 1] ELSE text[k]]

y_pos(ed) == ed.y + ed.offset
Current(ed) == ed.lines[y_pos(ed)]

\* Mutant: an empty line is not looked after.
goto_eol_unchecked(ed) == [ed EXCEPT !.x = Current(ed).length - 1]

goto_eol(ed) == [ed EXCEPT !.x = AtLeast0(Current(ed).length - 1)]
\* Mutant: the cursor keeps its column.
AnyColumn(ed) == ed

WithinLine(ed) == IF ed.x >= Current(ed).length THEN goto_eol(ed) ELSE ed

\* The pointer it frees is the end mark's, which is null.
delete_line(lines, n) ==
  [i \in Slot |-> IF n <= i /\ i < EndFrom(lines, n) THEN lines[i + 1] ELSE lines[i]]

\* Mutant: the end mark is not moved.
insert_line_short(lines, n) ==
  [i \in Slot |-> IF i = n THEN EmptyLine
                  ELSE IF n < i /\ i <= num_lines(lines) - 1 THEN lines[i - 1]
                  ELSE lines[i]]

insert_line(lines, n) ==
  [i \in Slot |-> IF i = n THEN EmptyLine
                  ELSE IF n < i /\ i <= num_lines(lines) + 1 THEN lines[i - 1]
                  ELSE lines[i]]

next_line(ed) ==
  IF ed.lines[y_pos(ed) + 1].length = -1 THEN ed
  ELSE WithinLine(IF ed.y + 1 < MaxY THEN [ed EXCEPT !.y = @ + 1]
                                     ELSE [ed EXCEPT !.offset = @ + 1])

prev_line(ed) ==
  IF ed.y > 0 THEN WithinLine([ed EXCEPT !.y = @ - 1])
  ELSE [ed EXCEPT !.offset = AtLeast0(@ - 1)]

\* Mutant: the line's length stays.
delete_char_keeps_length(ed) ==
  IF Current(ed).length = 0 THEN ed
  ELSE [ed EXCEPT !.lines[y_pos(ed)].text = shiftleft(@, ed.x),
                  !.x = IF @ > Current(ed).length - 1 THEN AtLeast0(@ - 1) ELSE @]

delete_char(ed) ==
  LET here == Current(ed)
      left == [text |-> shiftleft(here.text, ed.x), length |-> here.length - 1]
  IN  IF here.length = 0 THEN ed
      ELSE [ed EXCEPT !.lines[y_pos(ed)] = left,
                      !.x = IF @ > left.length - 1 THEN AtLeast0(@ - 1) ELSE @]

NewLineBelow(ed) ==
  LET down == [ed EXCEPT !.y = @ + 1]
  IN  [down EXCEPT !.lines = insert_line(@, y_pos(down)), !.x = 0]

-----------------------------------------------------------------------------
(* One key at a time. A key that follows the null pointer of the end mark, *)
(* or looks for the end mark where there is none, leaves the memory of the *)
(* program; what happens then is not defined.                              *)

Press(mode) ==
  /\ running = "reading" /\ e.mode = mode
  /\ presses < MaxPresses
  /\ presses' = presses + 1
  /\ UNCHANGED disk

Becomes(ed) ==
  /\ e' = ed
  /\ careful' = (careful /\ ed.offset = 0 /\ ed.y < MaxY)
  /\ UNCHANGED running

BecomesUnchecked(ed) == e' = ed /\ careful' = FALSE /\ UNCHANGED running

Lost == running' = "lost" /\ UNCHANGED <<e, careful>>

OnText == Current(e).text # NoText

\* i and I
InsertHere ==
  /\ Press("NORMAL")
  /\ \E x \in {e.x, 0} : Becomes([e EXCEPT !.x = x, !.mode = "INSERT"])

\* a and A
InsertAfter ==
  /\ Press("NORMAL")
  /\ \E ed \in {e, goto_eol(e)} :
       Becomes([ed EXCEPT !.x = IF Current(ed).length # 0 THEN @ + 1 ELSE @,
                          !.mode = "INSERT"])

\* h, l, k, j, $ and 0
Move ==
  /\ Press("NORMAL")
  /\ \/ Becomes([e EXCEPT !.x = AtLeast0(@ - 1)])
     \/ Becomes([e EXCEPT !.x = IF @ + 1 < Current(e).length THEN @ + 1 ELSE @])
     \/ Becomes(prev_line(e))
     \/ Becomes(next_line(e))
     \/ Becomes(goto_eol(e))
     \/ Becomes([e EXCEPT !.x = 0])

\* w: behind the next space, or to the start of the next line.
Word ==
  LET spaces == {k \in Column : /\ e.x <= k /\ Current(e).text[k] = Space
                                /\ k = e.x \/ k < Current(e).length}
  IN  /\ Press("NORMAL")
      /\ \/ ~OnText /\ Lost
         \/ /\ OnText /\ spaces # {}
            /\ \E k \in spaces : /\ \A l \in spaces : k <= l
                                /\ BecomesUnchecked([e EXCEPT !.x = k + 1])
         \/ OnText /\ spaces = {} /\ BecomesUnchecked(next_line([e EXCEPT !.x = 0]))

\* G
LastLine ==
  LET walk[n \in Slot] == IF n = 0 THEN e ELSE next_line(walk[n - 1])
      here == y_pos(e)
  IN  /\ Press("NORMAL")
      /\ \/ ~HasEnd(e.lines, here + 1) /\ Lost
         \/ /\ HasEnd(e.lines, here + 1)
            /\ Becomes(walk[EndFrom(e.lines, here + 1) - (here + 1)])

\* x
DeleteCharacter ==
  /\ Press("NORMAL")
  /\ \/ ~OnText /\ Current(e).length # 0 /\ Lost
     \/ (OnText \/ Current(e).length = 0) /\ Becomes(delete_char(e))

\* dd
DeleteLine ==
  LET without == [e EXCEPT !.lines = delete_line(@, y_pos(e))]
      above == IF Current(without).length = -1 /\ e.y > 0
                 THEN [without EXCEPT !.y = @ - 1] ELSE without
      filled == IF num_lines(above.lines) = 0
                  THEN [above EXCEPT !.lines = insert_line(@, 0)] ELSE above
  IN  /\ Press("NORMAL")
      /\ \/ ~HasEnd(e.lines, y_pos(e)) /\ Lost
         \/ HasEnd(e.lines, y_pos(e)) /\ Becomes(WithinLine(filled))

\* dj from the line ed is on, and dk once the cursor has moved up.
DeleteTwo(ed) ==
  LET without == [ed EXCEPT !.lines = delete_line(delete_line(@, y_pos(ed)), y_pos(ed))]
  IN  \/ ~HasEnd(ed.lines, y_pos(ed)) /\ Lost
      \/ /\ HasEnd(ed.lines, y_pos(ed))
         /\ BecomesUnchecked(IF Current(without).length = -1 THEN prev_line(without)
                             ELSE without)

DeleteWithNext == Press("NORMAL") /\ DeleteTwo(e)
DeleteWithPrevious == Press("NORMAL") /\ DeleteTwo(prev_line(e))

\* o
OpenLine ==
  /\ Press("NORMAL")
  /\ Becomes([NewLineBelow(e) EXCEPT !.mode = "INSERT"])

\* : and a line of commands, carried out in order up to the first q. Nothing
\* looks at whether the file could be written.
Command ==
  /\ running = "reading" /\ e.mode = "NORMAL"
  /\ presses < MaxPresses /\ presses' = presses + 1
  /\ \E command \in {"w", "q", "wq"} :
       /\ disk' \in IF command = "q" THEN {disk} ELSE {disk, Written(e.lines)}
       /\ running' = IF command = "w" THEN "reading" ELSE "done"
  /\ UNCHANGED <<e, careful>>

Escape ==
  /\ Press("INSERT")
  /\ Becomes([e EXCEPT !.mode = "NORMAL", !.x = AtLeast0(@ - 1)])

\* DEL behind the first column.
Backspace ==
  LET left == delete_char([e EXCEPT !.x = @ - 1])
  IN  /\ Press("INSERT") /\ e.x > 0
      /\ \/ ~OnText /\ Current(e).length # 0 /\ Lost
         \/ /\ OnText \/ Current(e).length = 0
            /\ e.x = Current(e).length
            /\ Becomes(IF Current(left).length = 0 THEN left ELSE [left EXCEPT !.x = @ + 1])
         \/ /\ OnText \/ Current(e).length = 0
            /\ e.x # Current(e).length /\ Becomes(left)

\* DEL in the first column: it deletes a line, counted from the top of the screen.
BackspaceAtStart ==
  LET up == goto_eol(prev_line([e EXCEPT !.lines = delete_line(@, e.y)]))
  IN  /\ Press("INSERT") /\ e.x = 0
      /\ \/ e.y = 0 /\ Becomes(e)
         \/ e.y > 0 /\ ~HasEnd(e.lines, e.y) /\ Lost
         \/ /\ e.y > 0 /\ HasEnd(e.lines, e.y)
            /\ Becomes([up EXCEPT !.x = IF Current(up).length # 0 THEN @ + 1 ELSE @])

Return == Press("INSERT") /\ Becomes(NewLineBelow(e))

\* Any other key is inserted, into a line counted from the top of the screen.
Type(c) ==
  LET here == e.lines[e.y]
      typed == [text |-> [shiftright(here.text, e.x) EXCEPT ![e.x] = c],
                length |-> here.length + 1]
  IN  /\ Press("INSERT")
      /\ \/ here.text = NoText /\ Lost
         \/ /\ here.text # NoText
            /\ Becomes([e EXCEPT !.lines[e.y] = typed, !.x = @ + 1])

\* vi is started again on what it left behind.
Start ==
  /\ running = "done" /\ running' = "reading"
  /\ e' = Opened(disk)
  /\ careful' = (num_lines(e'.lines) > 0)
  /\ UNCHANGED <<disk, presses>>

\* malloc() returns NULL, to which strcpy() writes: for the line that o, return or
\* dd of the only line inserts, or for one of the file that vi is started on.
NoMemory ==
  /\ \/ running = "reading" /\ presses < MaxPresses /\ presses' = presses + 1
     \/ running = "done" /\ UNCHANGED presses
  /\ running' = "lost" /\ careful' = FALSE
  /\ UNCHANGED <<e, disk>>

Next ==
  \/ InsertHere \/ InsertAfter \/ Move \/ Word \/ LastLine
  \/ DeleteCharacter \/ DeleteLine \/ DeleteWithNext \/ DeleteWithPrevious
  \/ OpenLine \/ Command
  \/ Escape \/ Backspace \/ BackspaceAtStart \/ Return \/ \E c \in Char : Type(c)
  \/ Start \/ NoMemory

Spec == Init /\ [][Next]_vars

-----------------------------------------------------------------------------
(* Properties *)

\* The end of the array stays marked, so that drawing, saving and counting
\* the lines come to an end, whatever keys were pressed before.
EndMarked == HasEnd(e.lines, 0)

\* No zero byte is saved: a line's length never exceeds its string, although
\* the two are updated apart and through different routes (the comment at
\* src/bin/vi.c:89 reports what happened when it did).
NoNulSaved ==
  \A i \in Slot : \A k \in 0 .. e.lines[i].length - 1 : e.lines[i].text[k] # Nul

\* The array is what every loop over it takes it for.
ArraySound == EndMarked /\ NoNulSaved

\* What is saved reads back as the same file: loading it and saving it again
\* changes nothing.
SavingIsStable ==
  LET saved == Written(e.lines) IN Written(load_file(saved)) = saved

\* How much of s is left of t, in order; c is the next byte, or another.
Match(s, done, c) == IF done < Len(s) /\ c = s[done + 1] THEN done + 1 ELSE done

Kept(s, t) ==
  LET upto[n \in 0 .. Len(t)] == IF n = 0 THEN 0 ELSE Match(s, upto[n - 1], t[n])
  IN  upto[Len(t)]

Inserting ==
  \/ InsertHere \/ InsertAfter \/ Move \/ Word \/ LastLine \/ OpenLine
  \/ Escape \/ Return \/ \E c \in Char : Type(c)

\* Only x, d and DEL take away from what :w would save: opening lines and
\* typing, in whatever line the text goes, keep all of it and in order.
NothingTypedOver ==
  [][Inserting => LET old == Written(e.lines)
                  IN  Kept(old, Written(e.lines')) = Len(old)]_vars

\* As long as the lines fit on the screen and in memory and nobody presses w, dj
\* or dk, the cursor is on a line of the file and not behind the end of it; in normal mode
\* it is on a character, if the line has one. So no key follows a null pointer.
CursorOnLine ==
  careful =>
  /\ running # "lost"
  /\ y_pos(e) < num_lines(e.lines)
  /\ e.x <= AtLeast0(Current(e).length - (IF e.mode = "NORMAL" THEN 1 ELSE 0))

\* In the same circumstances, what is on the screen is what is saved: every
\* line's length is that of the string that is drawn. (w to a space at the end
\* of a line, and x, break it.)
SeenIsSaved ==
  careful =>
  \A i \in 0 .. num_lines(e.lines) - 1 : e.lines[i].length = strlen(e.lines[i].text)

=============================================================================
