------------------------------- MODULE Document -------------------------------
(***************************************************************************)
(* What ed promises about a file, with no array and no pointers in it: a   *)
(* text that is the file's when it is opened, that only ever gets lines    *)
(* inserted, one behind the other from the place the user has named, and   *)
(* that, when it is saved, is the whole of the file. Nothing is promised   *)
(* any more once the editor has been asked for more than it can do.        *)
(***************************************************************************)
EXTENDS Naturals, Sequences

CONSTANTS Texts,   \* what may be typed as a line
          Newline

VARIABLES text,    \* the lines
          at,      \* how many of them stand in front of the next one
          file,    \* the bytes on the disk
          status   \* "open", "closed", or "broken"

vars == <<text, at, file, status>>

\* The bytes of a text: newlines stand between the lines, not behind the last.
Join(lines) ==
  LET upto[n \in 0 .. Len(lines)] ==
        IF n = 0 THEN << >>
        ELSE upto[n - 1] \o (IF n = 1 THEN << >> ELSE <<Newline>>) \o lines[n]
  IN  upto[Len(lines)]

Init == status = "closed"

Name(k) ==
  /\ status = "open"
  /\ at' = k
  /\ UNCHANGED <<text, file, status>>

Insert(t) ==
  /\ status = "open"
  /\ text' = SubSeq(text, 1, at) \o <<t>> \o SubSeq(text, at + 1, Len(text))
  /\ at' = at + 1
  /\ UNCHANGED <<file, status>>

Save ==
  /\ status = "open"
  /\ file' = Join(text)
  /\ UNCHANGED <<text, at, status>>

Close ==
  /\ status = "open" /\ status' = "closed"
  /\ UNCHANGED file

Open ==
  /\ status = "closed" /\ status' \in {"open", "broken"}
  /\ status' = "open" => Join(text') = file
  /\ UNCHANGED file

Break == status = "open" /\ status' = "broken"

Next ==
  \/ \E k \in 0 .. Len(text) : Name(k)
  \/ \E t \in Texts : Insert(t)
  \/ Save \/ Close \/ Open \/ Break
  \/ status = "broken"

Spec == Init /\ [][Next]_vars

=============================================================================
