------------------------------- MODULE Memory -------------------------------
(***************************************************************************)
(* The heap of one program: src/libc/memory.c on top of the kernel's brk,  *)
(* and memset of src/libc/string.c. malloc only ever grows the heap, free  *)
(* sets a flag that nothing reads, memmove allocates a block for every     *)
(* call, and memset first fills up to a multiple of the register size.     *)
(*                                                                         *)
(* The program's calls are those a correct program makes: on blocks it has *)
(* been given and has not freed, within their sizes; memset from the start *)
(* of a block, memcpy between ranges that do not overlap.                  *)
(***************************************************************************)
EXTENDS Integers, Sequences

CONSTANTS
  Register,  \* bytes in a register (8)
  Wrap,      \* size_t counts modulo this (2^64)
  Top,       \* how far the kernel lets the heap grow
  Sizes,     \* the sizes asked of malloc
  Lengths,   \* the lengths passed to memset, memcpy and memmove
  Byte, Zero \* the contents of memory

\* sizeof(block_s): a size_t, a bool with its padding, and a pointer.
HeaderSize == 3 * Register

\* No program asks for sizes that would wrap around in malloc.
ASSUME SizesAssumption ==
  /\ Register \in Nat \ {0} /\ Top \in Nat
  /\ Sizes \subseteq Nat /\ Lengths \subseteq Nat
  /\ Wrap \in Nat /\ 2 * Top < Wrap
  /\ \A n \in Sizes \union Lengths : 2 * (HeaderSize + n) < Wrap
ASSUME ByteAssumption == Zero \in Byte /\ "live" \notin Byte /\ "freed" \notin Byte

VARIABLES
  brk,     \* the end of the heap, which starts at address 0
  mem,     \* memory, up to Top
  blocks,  \* history: where the blocks handed out are, and how large
  dead     \* the program has been killed by a fault

vars == <<brk, mem, blocks, dead>>

Address == 0 .. Top - 1

\* Of a header only the flag `free` is kept, in each of its cells.
Cell == Byte \union {"live", "freed"}

Block == [at : 0 .. Top, size : Nat]

TypeOK ==
  /\ brk \in 0 .. Top
  /\ mem \in [Address -> Cell]
  /\ blocks \in Seq(Block)
  /\ dead \in BOOLEAN

Init ==
  /\ brk = 0
  /\ mem = [a \in Address |-> Zero]
  /\ blocks = << >>
  /\ dead = FALSE

-----------------------------------------------------------------------------

Data(k) == blocks[k].at + HeaderSize      \* the pointer malloc returned
Live(k) == mem[blocks[k].at] = "live"

Within(a, n, x) == a <= x /\ x < a + n

\* Mutant: the kernel's refusal goes unnoticed.
SbrkUnchecked(n) == brk' = brk + n

\* Mutant: the break moves by the block without its header.
SbrkNoHeader(n) == brk + n <= Top /\ brk' = brk + (n - HeaderSize)

\* sbrk() gives the memory from brk on, if the kernel agrees.
Sbrk(n) == brk + n <= Top /\ brk' = brk + n

\* malloc(): the memory behind brk has never been used and reads as zero.
Obtain(n, flag, m) ==
  /\ Sbrk(HeaderSize + n)
  /\ mem' = [a \in Address |-> IF Within(brk, HeaderSize, a) THEN flag ELSE m[a]]
  /\ blocks' = Append(blocks, [at |-> brk, size |-> n])

Malloc(n) ==
  /\ Obtain(n, "live", mem)
  /\ UNCHANGED dead

Free(k) ==
  /\ mem' = [a \in Address |->
               IF Within(blocks[k].at, HeaderSize, a) THEN "freed" ELSE mem[a]]
  /\ UNCHANGED <<brk, blocks, dead>>

\* What memset(d, c, n) fills: `offset` bytes to align d, then n - offset more,
\* counted in a size_t, in registers and the rest one by one.
Offset(d) == (Register - (d % Register)) % Register
\* Mutant: one byte too many.
ExtentBeyond(d, n) == Offset(d) + ((n - Offset(d)) % Wrap) + 1

Extent(d, n) == Offset(d) + ((n - Offset(d)) % Wrap)

Memset(k, c, n) ==
  /\ n <= blocks[k].size
  /\ LET d == Data(k) IN
     /\ mem' = [a \in Address |-> IF Within(d, Extent(d, n), a) THEN c ELSE mem[a]]
     /\ dead' = (d + Extent(d, n) > Top)
  /\ UNCHANGED <<brk, blocks>>

Copied(m, from, to, n) ==
  [a \in Address |-> IF Within(to, n, a) THEN m[from + a - to] ELSE m[a]]

\* Both ranges lie in their blocks.
Ranges(k, from, l, to, n) ==
  /\ from \in 0 .. blocks[k].size - n
  /\ to \in 0 .. blocks[l].size - n

\* memcpy() goes upwards byte by byte; without overlap the order is immaterial.
Memcpy(k, from, l, to, n) ==
  /\ Ranges(k, from, l, to, n)
  /\ k = l => from + n <= to \/ to + n <= from
  /\ mem' = Copied(mem, Data(k) + from, Data(l) + to, n)
  /\ UNCHANGED <<brk, blocks, dead>>

\* memmove() goes through a block from malloc, which it frees. Without one it
\* returns NULL and has done nothing, a stuttering step.
Memmove(k, from, l, to, n) ==
  /\ Ranges(k, from, l, to, n)
  /\ LET tmp == brk + HeaderSize IN
     Obtain(n, "freed",
            Copied(Copied(mem, Data(k) + from, tmp, n), tmp, Data(l) + to, n))
  /\ UNCHANGED dead

Next ==
  /\ ~dead
  /\ \/ \E n \in Sizes : Malloc(n)
     \/ \E k \in DOMAIN blocks :
          /\ Live(k)
          /\ \/ Free(k)
             \/ \E c \in Byte, n \in Lengths : Memset(k, c, n)
             \/ \E l \in DOMAIN blocks, n \in Lengths :
                  /\ Live(l)
                  /\ \E from \in 0 .. blocks[k].size, to \in 0 .. blocks[l].size :
                       Memcpy(k, from, l, to, n) \/ Memmove(k, from, l, to, n)

Spec == Init /\ [][Next]_vars

-----------------------------------------------------------------------------
(* Properties *)

Extents(k) == blocks[k].at .. (Data(k) + blocks[k].size) - 1

\* malloc never hands out memory twice: blocks, headers included, lie inside
\* the heap and apart from each other, whatever has been freed.
BlocksApart ==
  /\ \A k \in DOMAIN blocks : Data(k) + blocks[k].size <= brk
  /\ \A k, l \in DOMAIN blocks : k # l => Extents(k) \cap Extents(l) = {}

\* No call that stays within its blocks damages a header, its own block's or
\* a neighbour's.
HeadersIntact ==
  \A k \in DOMAIN blocks : \A a \in blocks[k].at .. Data(k) - 1 :
    mem[a] \in {"live", "freed"} /\ mem[a] = mem[blocks[k].at]

\* Memory behind the heap's end has never been written: what malloc hands out
\* next is all zeros, which callers that never initialise it rely on.
BehindIsZero == \A a \in Address : a >= brk => mem[a] = Zero

Undamaged == HeadersIntact /\ BehindIsZero

\* Neither the headers nor the memory that is handed out next is touched by what
\* a program does within its blocks, unless it does not survive it (memset, see
\* FillsAreHarmless).
HeapIntact == ~dead => Undamaged

\* What the program sees.
View ==
  [k \in DOMAIN blocks |->
     [live |-> Live(k),
      data |-> [j \in 0 .. blocks[k].size - 1 |-> mem[Data(k) + j]]]]

\* The lengths that may be too short to align a pointer.
Short == {n \in Lengths : n < Register - 1}

Abstract == INSTANCE Store WITH store <- View, alive <- ~dead, Risky <- Short

\* The heap implements the blocks a program expects: every call does what it is
\* asked to do and no more, and none but a short fill is ever fatal.
ImplementsStore == Abstract!Spec

\* src/bin/tests/malloc.c:23 fills small blocks with memset and checks that
\* "they didn't get corrupted". A memset within its block is never fatal.
FillsAreHarmless == ~dead
=============================================================================
