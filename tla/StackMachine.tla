----------------------------- MODULE StackMachine -----------------------------
(***************************************************************************)
(* What a Forth promises about its data stack, in the notation of the      *)
(* language's own manuals: the values before a word and those it leaves,   *)
(* the top of the stack on the right. A word for which there are too few   *)
(* values, or too little room, does at least not touch what lies below.    *)
(***************************************************************************)
EXTENDS Integers, Sequences

CONSTANTS Half,  \* values are the integers of [-Half, Half)
          Room   \* how many values there is room for

VARIABLES
  stack,
  due  \* what comes next: a word, "push" and a value, "idle", or "broken"

Values == -Half .. Half - 1

Flag(b) == IF b THEN -1 ELSE 0

\* The values are equal as far as the width of a cell goes.
Congruent(m, n) == (m - n) % (2 * Half) = 0

Abs(n) == IF n < 0 THEN -n ELSE n

\* A quotient and a remainder belong together; which of the two possible
\* pairs it is, when one of the signs is negative, is left open.
Divided(a, b, q, r) == Congruent(a, q * b + r) /\ Abs(r) < Abs(b)

In(w) ==
  CASE w \in {"drop", "dup", "emit", "."} -> 1
    [] w \in {"2swap", "2over"} -> 4
    [] w = "rot" -> 3
    [] OTHER -> 2

\* ( a1 a2 ... -- out )
Effect(w, a, out) ==
  CASE w \in {"drop", "emit", "."} -> out = << >>
    [] w = "dup" -> out = <<a[1], a[1]>>
    [] w = "2dup" -> out = <<a[1], a[2], a[1], a[2]>>
    [] w = "swap" -> out = <<a[2], a[1]>>
    [] w = "over" -> out = <<a[1], a[2], a[1]>>
    [] w = "rot" -> out = <<a[2], a[3], a[1]>>
    [] w = "2swap" -> out = <<a[3], a[4], a[1], a[2]>>
    [] w = "2over" -> out = <<a[1], a[2], a[3], a[4], a[1], a[2]>>
    [] w = "=" -> out = <<Flag(a[1] = a[2])>>
    [] w = "<" -> out = <<Flag(a[1] < a[2])>>
    [] w = ">" -> out = <<Flag(a[1] > a[2])>>
    [] w = "+" -> Len(out) = 1 /\ Congruent(out[1], a[1] + a[2])
    [] w = "-" -> Len(out) = 1 /\ Congruent(out[1], a[1] - a[2])
    [] w = "*" -> Len(out) = 1 /\ Congruent(out[1], a[1] * a[2])
    [] w = "/" -> Len(out) = 1 /\ \E r \in Values : Divided(a[1], a[2], out[1], r)
    [] w = "mod" -> Len(out) = 1 /\ \E q \in Values : Divided(a[1], a[2], q, out[1])
    [] w = "/mod" -> Len(out) = 2 /\ Divided(a[1], a[2], out[2], out[1])

Words == {"drop", "dup", "2dup", "swap", "over", "rot", "2swap", "2over", "emit", ".",
          "=", "<", ">", "+", "-", "*", "/", "mod", "/mod"}

Below(n) == SubSeq(stack, 1, IF n > Len(stack) THEN 0 ELSE Len(stack) - n)
Taken(n) == SubSeq(stack, Len(stack) - n + 1, Len(stack))

\* What a word leaves above the values it does not take.
Left(n) == SubSeq(stack', Len(Below(n)) + 1, Len(stack'))

Keeps(n) == Len(stack') \in Len(Below(n)) .. Room
            /\ SubSeq(stack', 1, Len(Below(n))) = Below(n)

Init == stack = << >>

Idle == due.word = "idle" /\ UNCHANGED stack

Push ==
  /\ due.word = "push"
  /\ stack' = IF Len(stack) < Room THEN Append(stack, due.value) ELSE stack

Do(w) ==
  /\ Len(stack) >= In(w)
  /\ Keeps(In(w))
  /\ Effect(w, Taken(In(w)), Left(In(w)))

Misuse(w) ==
  /\ Keeps(In(w))
  /\ \/ Len(stack) < In(w)
     \/ Len(stack') = Room

Break == due'.word = "broken" /\ UNCHANGED stack

Next == Idle \/ Push \/ Break \/ (due.word \in Words /\ (Do(due.word) \/ Misuse(due.word)))

Spec == Init /\ [][Next]_<<stack, due>>

=============================================================================
