------------------------------- MODULE Store --------------------------------
(***************************************************************************)
(* What a program expects of malloc, free, memset, memcpy and memmove,     *)
(* with no addresses in it: blocks that have nothing to do with each       *)
(* other, each with its own bytes, and operations that change only the     *)
(* bytes they are asked to change. Only a fill of few bytes is not to be   *)
(* trusted: it may kill the program.                                       *)
(***************************************************************************)
EXTENDS Naturals, Sequences

CONSTANTS
  Sizes, Lengths, Byte, Zero,
  Risky      \* the lengths with which a fill may kill the program

VARIABLES
  store,     \* the blocks, in the order in which they were requested
  alive

vars == <<store, alive>>

Free(k) ==
  store' = [store EXCEPT ![k].live = FALSE]

\* A new block reads as zero: vi and the shell count on it.
Alloc(n) ==
  store' = Append(store, [live |-> TRUE, data |-> [j \in 0 .. n - 1 |-> Zero]])

Fill(k, c, n) ==
  store' = [store EXCEPT ![k].data =
              [j \in DOMAIN @ |-> IF j < n THEN c ELSE @[j]]]

\* n bytes from offset `from` of block k go to offset `to` of block l.
Copied(k, from, l, to, n) ==
  [store EXCEPT ![l].data =
     [j \in DOMAIN @ |-> IF to <= j /\ j < to + n
                         THEN store[k].data[from + j - to] ELSE @[j]]]

Copy(k, from, l, to, n) == store' = Copied(k, from, l, to, n)

\* memmove() keeps a block of its own to go through.
Move(k, from, l, to, n) ==
  store' = Append(Copied(k, from, l, to, n),
                  [live |-> FALSE,
                   data |-> [j \in 0 .. n - 1 |-> store[k].data[from + j]]])

Bytes(k) == DOMAIN store[k].data

Init == store = << >> /\ alive = TRUE

Works ==
  \/ \E n \in Sizes : Alloc(n)
  \/ \E k \in DOMAIN store :
       \/ Free(k)
       \/ \E c \in Byte, n \in Lengths : Fill(k, c, n)
       \/ \E l \in DOMAIN store, n \in Lengths :
            \E from \in Bytes(k) \union {0}, to \in Bytes(l) \union {0} :
              /\ from .. from + n - 1 \subseteq Bytes(k)
              /\ to .. to + n - 1 \subseteq Bytes(l)
              /\ Copy(k, from, l, to, n) \/ Move(k, from, l, to, n)

\* A fill within its block kills the program; nothing is said of what it leaves.
Crash ==
  \E k \in DOMAIN store, n \in Risky : 0 .. n - 1 \subseteq Bytes(k)

Next ==
  /\ alive
  /\ \/ Works /\ UNCHANGED alive
     \/ Crash /\ alive' = FALSE

Spec == Init /\ [][Next]_vars

=============================================================================
