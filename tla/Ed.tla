---------------------------------- MODULE Ed ----------------------------------
(***************************************************************************)
(* The line editor ed, src/bin/ed.c: an array of pointers to lines, moved  *)
(* up by one with memmove() for each line that is inserted, and one file.  *)
(*                                                                         *)
(* The array has line_max slots, which are never counted; memory never     *)
(* comes back (module Memory), so that memmove() may fail, and nobody      *)
(* looks. Characters matter only where the file is cut into lines and put  *)
(* together again. Printing changes nothing.                               *)
(***************************************************************************)
EXTENDS Integers, Sequences, FiniteSets

CONSTANTS
  Letter, Newline, Nul,
  Texts,      \* the lines that users type in append mode, besides "."
  Addresses,  \* the numbers they type; negative where an int has overflowed
  INT_MAX,    \* the largest int, which also stands for no address at all
  line_max,   \* the size of lines[] (256)
  NoLine,     \* the null pointer
  Absent,     \* what there is on the disk before the file exists
  Files       \* what the file may contain when ed is first started

Byte == Letter \union {Newline, Nul}

ASSUME TextsAssumption ==
  /\ Newline \notin Letter /\ Nul \notin Letter
  /\ Texts \subseteq Seq(Letter)
  /\ Files \subseteq Seq(Byte) \union {Absent}
  /\ NoLine \notin Seq(Letter) /\ Absent \notin Seq(Byte)
ASSUME NumbersAssumption ==
  /\ line_max \in Nat \ {0} /\ INT_MAX \in Nat /\ INT_MAX > line_max
  /\ Addresses \subseteq Int /\ \A n \in Addresses : n <= INT_MAX

VARIABLES
  mode,   \* "command", "append", "quit", or "lost" outside of ed's memory
  lines,  \* the array
  amt,    \* line_amt
  after,  \* of the append command, the line to append after
  disk,   \* the file
  root,   \* is root editing?
  shut,   \* may the user no longer open the file?
  sound   \* history: ed has read all of the file, has not run out of memory, and
          \* was not asked to print from an address that has overflowed

vars == <<mode, lines, amt, after, disk, root, shut, sound>>

Slot == 0 .. line_max - 1

TypeOK ==
  /\ mode \in {"command", "append", "quit", "lost"}
  /\ lines \in [Slot -> Seq(Letter) \union {NoLine}]
  /\ amt \in 0 .. line_max
  /\ after \in Int /\ after <= line_max
  /\ disk \in Seq(Byte) \union {Absent}
  /\ root \in BOOLEAN /\ shut \in BOOLEAN /\ sound \in BOOLEAN

-----------------------------------------------------------------------------
(* The buffer *)

\* A buffer b is [lines, amt]. The line goes to slot pos; memmove() takes one
\* pointer more along than there are lines.
Overruns(b) == b.amt + 1 > line_max - 1

\* Mutant: line_amt has not been increased yet.
InsertFewer(b, pos, t) ==
  [amt |-> b.amt + 1,
   lines |-> [k \in Slot |-> IF k = pos THEN t
                             ELSE IF pos < k /\ k < b.amt THEN b.lines[k - 1]
                             ELSE b.lines[k]]]

Insert(b, pos, t) ==
  [amt |-> b.amt + 1,
   lines |-> [k \in Slot |-> IF k = pos THEN t
                             ELSE IF pos < k /\ k <= b.amt + 1 THEN b.lines[k - 1]
                             ELSE b.lines[k]]]

\* Where the lines of a string end: at its newlines, and at its own end.
Ends(s) == {p \in 1 .. Len(s) + 1 : p = Len(s) + 1 \/ s[p] = Newline}

\* The n-th of them.
End(s, n) == CHOOSE p \in Ends(s) : Cardinality({q \in Ends(s) : q <= p}) = n

\* The lines of a string: what stands in front of each end.
Pieces(s) ==
  LET Start(n) == IF n = 1 THEN 1 ELSE End(s, n - 1) + 1
  IN  [n \in 1 .. Cardinality(Ends(s)) |-> SubSeq(s, Start(n), End(s, n) - 1)]

\* buffer_append(): one line behind the other.
buffer_append(b, from, behind) ==
  LET pieces == Pieces(from)
      upto[n \in 0 .. Len(pieces)] ==
        IF n = 0 THEN b ELSE Insert(upto[n - 1], behind + n, pieces[n])
  IN  upto[Len(pieces)]

NoBuffer == [lines |-> [k \in Slot |-> NoLine], amt |-> 0]

\* The string that raw holds ends at the first zero byte.
AsString(s) ==
  LET zeros == {p \in DOMAIN s : s[p] = Nul}
  IN  IF zeros = {} THEN s
      ELSE SubSeq(s, 1, (CHOOSE p \in zeros : \A q \in zeros : p <= q) - 1)

\* buffer_open(): a file that cannot be opened is an empty one, for main().
buffer_open(f, can) ==
  IF ~can \/ f = Absent \/ f = << >> THEN NoBuffer
  ELSE buffer_append(NoBuffer, AsString(f), -1)

\* ed starts: with as many lines as the array has slots, or more, it is lost.
Start(f, can) ==
  LET fits == ~can \/ f = Absent \/ Len(Pieces(AsString(f))) < line_max
      b == buffer_open(f, can /\ fits)
  IN  /\ mode' = IF fits THEN "command" ELSE "lost"
      /\ lines' = b.lines /\ amt' = b.amt
      /\ after' = -1
      /\ sound' = (can /\ fits /\ (f = Absent \/ AsString(f) = f))

Init ==
  /\ disk \in Files
  /\ root \in BOOLEAN /\ shut \in {FALSE, ~root}
  /\ mode = "quit"
  /\ lines = NoBuffer.lines /\ amt = 0 /\ after = -1 /\ sound = TRUE

Buffer == [lines |-> lines, amt |-> amt]

-----------------------------------------------------------------------------

Launch ==
  /\ mode = "quit"
  /\ Start(disk, ~shut)
  /\ UNCHANGED <<disk, root, shut>>

\* There is no memory for the array, the file or one of its lines: malloc()'s NULL is
\* written to. (A memmove() that fails while a file is loaded does no harm, since
\* there are no lines behind the new one.)
LaunchShort ==
  /\ mode = "quit" /\ mode' = "lost" /\ sound' = FALSE
  /\ UNCHANGED <<lines, amt, after, disk, root, shut>>

\* Mutant: `high` is not limited.
HighAnywhere(n) == IF n = INT_MAX THEN n ELSE n + 1

\* The end of the range a command is for; a single address is both of its ends.
High(n) ==
  LET next == IF n = INT_MAX THEN n ELSE n + 1
  IN  IF next > amt THEN amt ELSE next

\* The command a; there may be no memory for its line_buf.
AppendMode ==
  /\ mode = "command"
  /\ \/ /\ \E n \in Addresses \union {INT_MAX} : after' = High(n) - 1
        /\ mode' = "append"
        /\ UNCHANGED sound
     \/ mode' = "lost" /\ sound' = FALSE /\ UNCHANGED after
  /\ UNCHANGED <<lines, amt, disk, root, shut>>

\* A line in append mode; an address that has overflowed leads out of the array,
\* as does a line too many.
TypeLine(t) ==
  /\ mode = "append"
  /\ \/ /\ Overruns(Buffer) \/ after < -1
        /\ mode' = "lost"
        /\ UNCHANGED <<lines, amt, after>>
     \/ /\ ~Overruns(Buffer) /\ after >= -1
        /\ LET b == buffer_append(Buffer, t, after)
           IN  lines' = b.lines /\ amt' = b.amt
        /\ after' = after + 1
        /\ UNCHANGED mode
  /\ UNCHANGED <<disk, root, shut, sound>>

\* The heap is full: malloc() returns NULL, which is written to; or it has still
\* given the line, but memmove() nothing to go through, and the pointer in the
\* slot is lost.
TypeLineShort(t) ==
  /\ mode = "append" /\ ~Overruns(Buffer) /\ after >= -1
  /\ sound' = FALSE
  /\ \/ mode' = "lost" /\ UNCHANGED <<lines, amt, after>>
     \/ /\ lines' = [lines EXCEPT ![after + 1] = t]
        /\ amt' = amt + 1 /\ after' = after + 1
        /\ UNCHANGED mode
  /\ UNCHANGED <<disk, root, shut>>

\* A single "."
Stop ==
  /\ mode = "append" /\ mode' = "command"
  /\ UNCHANGED <<lines, amt, after, disk, root, shut, sound>>

\* What a run over the first n lines of the buffer writes.
Written(n) ==
  LET upto[k \in 0 .. n] ==
        IF k = 0 THEN << >>
        ELSE upto[k - 1] \o (IF k = 1 THEN << >> ELSE <<Newline>>) \o lines[k - 1]
  IN  upto[n]

\* Mutant: the file is written behind what is there (O_APPEND).
OverlayBehind(old, new) == old \o new

\* The file is not truncated.
Overlay(old, new) == new \o SubSeq(old, Len(new) + 1, Len(old))

Intact == \A k \in 0 .. amt - 1 : lines[k] # NoLine
FirstGone == CHOOSE k \in 0 .. amt - 1 :
               lines[k] = NoLine /\ \A j \in 0 .. k - 1 : lines[j] # NoLine

\* What has been written when the first line that was lost is reached: the lines in
\* front of it, and the newline that it would have followed.
WrittenToGone ==
  Written(FirstGone) \o (IF FirstGone = 0 THEN << >> ELSE <<Newline>>)

\* The command w. A file that open() creates has no permissions at all: only
\* root can open it again, and to everybody else w says nothing. strlen() of a
\* line that was lost is the end of ed.
Write ==
  /\ mode = "command"
  /\ \/ UNCHANGED <<mode, disk, shut>>
     \/ /\ ~shut
        /\ shut' = (disk = Absent /\ ~root)
        /\ LET old == IF disk = Absent THEN << >> ELSE disk IN
           \/ Intact /\ disk' = Overlay(old, Written(amt)) /\ UNCHANGED mode
           \/ ~Intact /\ disk' = Overlay(old, WrittenToGone) /\ mode' = "lost"
  /\ UNCHANGED <<lines, amt, after, root, sound>>

\* A range of lines is printed, which is the end of ed where a line was lost,
\* or where the first address has overflowed.
PrintRange ==
  /\ mode = "command"
  /\ \E low \in Addresses \union {0}, n \in Addresses \union {INT_MAX} :
       \E k \in low .. High(n) - 1 :
         \/ k < 0 /\ sound' = FALSE
         \/ k >= 0 /\ lines[k] = NoLine /\ UNCHANGED sound
  /\ mode' = "lost"
  /\ UNCHANGED <<lines, amt, after, disk, root, shut>>

Quit ==
  /\ mode = "command" /\ mode' = "quit"
  /\ UNCHANGED <<lines, amt, after, disk, root, shut, sound>>

Dead == mode = "lost" /\ UNCHANGED vars

Next ==
  \/ Launch \/ LaunchShort \/ AppendMode \/ Stop \/ Write \/ PrintRange \/ Quit \/ Dead
  \/ \E t \in Texts : TypeLine(t) \/ TypeLineShort(t)

Spec == Init /\ [][Next]_vars

-----------------------------------------------------------------------------
(* Properties *)

Status == CASE mode = "quit" -> "closed"
            [] mode = "lost" \/ (mode # "quit" /\ ~sound) -> "broken"
            [] OTHER -> "open"

\* An address that has overflowed names no line; the line that it is typed for
\* is what breaks ed.
Abstract == INSTANCE Document WITH
  text <- [k \in 1 .. amt |-> lines[k - 1]],
  at <- IF after < -1 THEN 0 ELSE after + 1,
  file <- IF disk = Absent THEN << >> ELSE disk,
  status <- Status

\* The array of pointers, its memmove() and the file that is written over and
\* never cut implement an editor that inserts lines where the user said and
\* saves exactly what there is, over any number of sessions; as long as the file
\* has no zero byte in it, and memory lasts.
ImplementsDocument == Abstract!Spec

\* With memory to spare, nothing takes ed out of its array but the line for
\* which there is no slot, the last one being kept for memmove(), or an address
\* of too many digits; nor does printing or saving meet a pointer that is null.
LostOnlyWhenFull ==
  mode = "lost" /\ sound => amt = line_max - 1 \/ after < -1

=============================================================================
