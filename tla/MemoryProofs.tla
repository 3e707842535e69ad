---------------------------- MODULE MemoryProofs ----------------------------
(***************************************************************************)
(* Proofs about Memory, for any register size, any limit of the heap and   *)
(* any sizes asked for. Blocks are apart because each begins at or behind  *)
(* the end of all the blocks handed out before it: free gives nothing back.*)
(* Hence a write within one block touches no other block, no header and    *)
(* nothing behind the break, and the heap implements Store, whatever sizes *)
(* and lengths a program uses. Given fewer bytes than it takes to align    *)
(* its pointer memset writes until it faults, which Store allows for       *)
(* lengths below Register - 1 and for nothing else.                        *)
(***************************************************************************)
EXTENDS Memory, TLAPS

End(k) == Data(k) + blocks[k].size

\* Blocks follow each other in the order in which they were handed out.
InOrder ==
  /\ \A k \in DOMAIN blocks : End(k) <= brk
  /\ \A k, l \in DOMAIN blocks : k < l => End(k) <= blocks[l].at

IInv == TypeOK /\ InOrder

\* What the assumptions say of the constants.
LEMMA Constants ==
  /\ HeaderSize \in Nat /\ Top \in Nat /\ Sizes \subseteq Nat /\ Lengths \subseteq Nat
  /\ Zero \in Byte
  BY SizesAssumption, ByteAssumption DEF HeaderSize

\* The blocks handed out are numbered from one, each with its place and its size.
LEMMA BlockTypes ==
  ASSUME TypeOK
  PROVE  /\ Len(blocks) \in Nat /\ DOMAIN blocks = 1 .. Len(blocks)
         /\ \A k \in DOMAIN blocks :
              /\ k \in Nat /\ blocks[k].at \in Nat /\ blocks[k].size \in Nat
              /\ Data(k) \in Nat /\ End(k) \in Nat
<1>1. blocks \in Seq(Block)
  BY DEF TypeOK
<1>2. \A k \in 1 .. Len(blocks) : blocks[k] \in Block
  BY <1>1
<1>3. \A k \in 1 .. Len(blocks) : blocks[k].at \in Nat /\ blocks[k].size \in Nat
  BY <1>2, Constants DEF Block
<1>4. \A k \in 1 .. Len(blocks) : Data(k) \in Nat /\ End(k) \in Nat
  BY <1>3, Constants DEF Data, End
<1>5. Len(blocks) \in Nat /\ DOMAIN blocks = 1 .. Len(blocks)
  BY <1>1
<1> QED
  BY <1>3, <1>4, <1>5

\* The empty heap is in order.
LEMMA IInvInit == Init => IInv
<1> SUFFICES ASSUME Init PROVE IInv
  OBVIOUS
<1>1. TypeOK
  <2>1. << >> \in Seq(Block)
    OBVIOUS
  <2>2. brk \in 0 .. Top /\ mem \in [Address -> Cell] /\ dead \in BOOLEAN
    <3>1. 0 \in 0 .. Top /\ Zero \in Cell
      BY Constants DEF Cell
    <3> QED
      BY <3>1 DEF Init
  <2> QED
    BY <2>1, <2>2 DEF Init, TypeOK
<1>2. DOMAIN blocks = {}
  BY DEF Init
<1> QED
  BY <1>1, <1>2 DEF IInv, InOrder

\* malloc appends a block at the end of the heap.
LEMMA ObtainSafe ==
  ASSUME IInv, NEW n \in Nat, NEW flag \in Cell, NEW m \in [Address -> Cell],
         Obtain(n, flag, m), UNCHANGED dead
  PROVE  IInv'
<1> USE Constants
<1> PICK m1 \in Nat : m1 = Len(blocks) + 1
  BY BlockTypes DEF IInv
<1> DEFINE b == [at |-> brk, size |-> n]
<1>1. /\ blocks' = Append(blocks, b) /\ brk' = brk + (HeaderSize + n)
      /\ brk + (HeaderSize + n) <= Top /\ brk \in Nat
  BY DEF Obtain, Sbrk, IInv, TypeOK
<1>2. b \in Block
  BY DEF IInv, TypeOK, Block
<1>3. TypeOK'
  <2>1. mem' \in [Address -> Cell]
    BY DEF Obtain
  <2>2. brk' \in 0 .. Top
    BY <1>1
  <2> QED
    BY <1>1, <1>2, <2>1, <2>2 DEF IInv, TypeOK
<1>4. /\ m1 \notin DOMAIN blocks /\ \A k \in DOMAIN blocks : k < m1
      /\ Len(blocks) \in Nat /\ DOMAIN blocks = 1 .. Len(blocks)
      /\ DOMAIN blocks' = 1 .. m1
      /\ blocks'[m1] = b
      /\ \A k \in DOMAIN blocks : blocks'[k] = blocks[k]
  BY <1>1, <1>2 DEF IInv, TypeOK
<1>5. \A k \in DOMAIN blocks : End(k)' = End(k) /\ End(k) <= brk /\ End(k) \in Nat
  <2>1. \A k \in DOMAIN blocks : End(k)' = End(k)
    BY <1>4 DEF End, Data
  <2> QED
    BY <2>1, BlockTypes DEF IInv, InOrder
<1> HIDE DEF b
<1>6. End(m1)' = brk'
  <2>1. b.at = brk /\ b.size = n
    BY DEF b
  <2>2. End(m1)' = b.at + HeaderSize + b.size
    <3>1. blocks'[m1] = b
      BY <1>4
    <3> QED
      BY <3>1 DEF End, Data
  <2>3. HeaderSize \in Nat
    OBVIOUS
  <2> QED
    BY <1>1, <2>1, <2>2, <2>3
<1>7. InOrder'
  <2>1. \A k \in (DOMAIN blocks)' : End(k)' <= brk'
    <3> SUFFICES ASSUME NEW k \in (DOMAIN blocks)' PROVE End(k)' <= brk'
      OBVIOUS
    <3>1. CASE k \in DOMAIN blocks
      BY <1>1, <1>5, <3>1
    <3>2. CASE k = m1
      <4>1. End(k)' = brk' /\ brk' \in Nat
        BY <1>1, <1>6, <3>2
      <4> QED
        BY <4>1
    <3> QED
      BY <1>4, <3>1, <3>2
  <2>2. ASSUME NEW k \in (DOMAIN blocks)', NEW l \in (DOMAIN blocks)', k < l
        PROVE  End(k)' <= blocks'[l].at
    <3>1. k \in DOMAIN blocks
      BY <1>4, <2>2
    <3>2. CASE l \in DOMAIN blocks
      BY <1>4, <1>5, <2>2, <3>1, <3>2 DEF IInv, InOrder
    <3>3. CASE l = m1
      BY <1>4, <1>5, <3>1, <3>3 DEF b
    <3> QED
      BY <1>4, <3>2, <3>3
  <2> QED
    BY <2>1, <2>2 DEF InOrder
<1> QED
  BY <1>3, <1>7 DEF IInv

\* Everything else writes to memory only.
LEMMA WriteSafe ==
  ASSUME IInv, mem' \in [Address -> Cell], dead' \in BOOLEAN,
         UNCHANGED <<brk, blocks>>
  PROVE  IInv'
  BY DEF IInv, TypeOK, InOrder, End, Data

\* Copying within memory leaves memory behind.
LEMMA CopiedType ==
  ASSUME NEW m \in [Address -> Cell], NEW from \in Nat, NEW to \in Nat,
         NEW n \in Nat, from + n <= Top
  PROVE  Copied(m, from, to, n) \in [Address -> Cell]
<1>1. ASSUME NEW a \in Address
      PROVE  (IF Within(to, n, a) THEN m[from + a - to] ELSE m[a]) \in Cell
  <2>1. CASE Within(to, n, a)
    <3>1. from + a - to \in Address
      BY <2>1, Constants DEF Within, Address
    <3> QED
      BY <2>1, <3>1
  <2>2. CASE ~Within(to, n, a)
    BY <2>2
  <2> QED
    BY <2>1, <2>2
<1> QED
  BY <1>1 DEF Copied

\* Every call keeps blocks in order.
LEMMA IInvNext == IInv /\ [Next]_vars => IInv'
<1> SUFFICES ASSUME IInv, [Next]_vars PROVE IInv'
  OBVIOUS
<1> USE Constants
<1>1. /\ mem \in [Address -> Cell] /\ brk \in 0 .. Top /\ dead \in BOOLEAN
      /\ \A k \in DOMAIN blocks : blocks[k].at \in Nat /\ blocks[k].size \in Nat
  BY BlockTypes DEF IInv, TypeOK
<1>2. \A k \in DOMAIN blocks : Data(k) \in Nat /\ Data(k) + blocks[k].size <= Top
  BY <1>1, BlockTypes DEF IInv, InOrder, End
<1>3. ASSUME NEW n \in Sizes, Malloc(n) PROVE IInv'
  BY <1>1, <1>3, ObtainSafe DEF Malloc, Cell
<1>4. ASSUME NEW k \in DOMAIN blocks, Free(k) PROVE IInv'
  <2>1. mem' \in [Address -> Cell]
    BY <1>1, <1>4 DEF Free, Cell
  <2> QED
    BY <1>1, <1>4, <2>1, WriteSafe DEF Free
<1>5. ASSUME NEW k \in DOMAIN blocks, NEW c \in Byte, NEW n \in Lengths,
             Memset(k, c, n)
      PROVE  IInv'
  <2>1. mem' \in [Address -> Cell] /\ dead' \in BOOLEAN
    BY <1>1, <1>5 DEF Memset, Cell
  <2> QED
    BY <1>5, <2>1, WriteSafe DEF Memset
<1>6. ASSUME NEW k \in DOMAIN blocks, NEW l \in DOMAIN blocks, NEW n \in Lengths,
             NEW from \in Nat, NEW to \in Nat,
             Memcpy(k, from, l, to, n)
      PROVE  IInv'
  <2>1. from + n <= blocks[k].size /\ Data(k) + from + n <= Top
    <3>1. from \in 0 .. blocks[k].size - n
      BY <1>6 DEF Memcpy, Ranges
    <3>2. n \in Nat
      OBVIOUS
    <3> QED
      BY <1>1, <1>2, <3>1, <3>2
  <2>2. mem' \in [Address -> Cell]
    <3>1. Data(k) + from \in Nat /\ Data(l) + to \in Nat /\ n \in Nat
      BY <1>2
    <3> QED
      BY <1>1, <1>6, <2>1, <3>1, CopiedType DEF Memcpy
  <2> QED
    BY <1>1, <1>6, <2>2, WriteSafe DEF Memcpy
<1>7. ASSUME NEW k \in DOMAIN blocks, NEW l \in DOMAIN blocks, NEW n \in Lengths,
             NEW from \in Nat, NEW to \in Nat,
             Memmove(k, from, l, to, n)
      PROVE  IInv'
  <2> DEFINE tmp == brk + HeaderSize
             m1 == Copied(mem, Data(k) + from, tmp, n)
             m2 == Copied(m1, tmp, Data(l) + to, n)
  <2>1. Data(k) + from + n <= Top /\ tmp + n <= Top /\ tmp \in Nat
    <3>1. from \in 0 .. blocks[k].size - n /\ n \in Nat
      BY <1>7 DEF Memmove, Ranges
    <3>2. brk + (HeaderSize + n) <= Top
      BY <1>7 DEF Memmove, Obtain, Sbrk
    <3> QED
      BY <1>1, <1>2, <3>1, <3>2
  <2> HIDE DEF tmp
  <2>2. m1 \in [Address -> Cell]
    <3>1. Data(k) + from \in Nat /\ n \in Nat
      BY <1>2
    <3> QED
      BY <1>1, <2>1, <3>1, CopiedType
  <2> HIDE DEF m1
  <2>3. m2 \in [Address -> Cell]
    <3>1. Data(l) + to \in Nat /\ n \in Nat
      BY <1>2
    <3> QED
      BY <2>1, <2>2, <3>1, CopiedType
  <2>4. Obtain(n, "freed", m2) /\ UNCHANGED dead
    BY <1>7 DEF Memmove, m1, tmp
  <2> HIDE DEF m2
  <2>5. n \in Nat
    OBVIOUS
  <2> QED
    BY <2>3, <2>4, <2>5, ObtainSafe DEF Cell
<1>8. CASE UNCHANGED vars
  BY <1>8 DEF vars, IInv, TypeOK, InOrder, End, Data
<1>9. \A k \in DOMAIN blocks : \A x \in 0 .. blocks[k].size : x \in Nat
  OBVIOUS
<1> QED
  BY <1>3, <1>4, <1>5, <1>6, <1>7, <1>8, <1>9 DEF Next

\* In every reachable state each block follows all those handed out before it and
\* ends at or below the break: malloc in memory.c only ever grows the heap.
THEOREM Invariant == Spec => []IInv
<1>1. Init => IInv
  BY IInvInit
<1>2. IInv /\ [Next]_vars => IInv'
  BY IInvNext
<1> QED
  BY <1>1, <1>2, PTL DEF Spec

\* Two ranges of which one ends before the other begins share nothing.
LEMMA IntervalsApart ==
  ASSUME NEW p \in Int, NEW q \in Int, NEW r \in Int, NEW s \in Int, q <= r
  PROVE  (p .. q - 1) \cap (r .. s - 1) = {}
  OBVIOUS

\* malloc in memory.c never hands out memory that is in use or ever was.
THEOREM NeverHandedOutTwice == Spec => []BlocksApart
<1>1. IInv => BlocksApart
  <2> SUFFICES ASSUME IInv PROVE BlocksApart
    OBVIOUS
  <2>1. \A k \in DOMAIN blocks :
          /\ k \in Nat /\ blocks[k].at \in Nat /\ Data(k) + blocks[k].size \in Nat
          /\ Data(k) + blocks[k].size <= brk
    BY BlockTypes DEF IInv, InOrder, End
  <2>2. ASSUME NEW k \in DOMAIN blocks, NEW l \in DOMAIN blocks, k < l
        PROVE  Extents(k) \cap Extents(l) = {}
    <3>1. Data(k) + blocks[k].size <= blocks[l].at
      BY <2>2 DEF IInv, InOrder, End
    <3>2. /\ blocks[k].at \in Int /\ Data(k) + blocks[k].size \in Int
          /\ blocks[l].at \in Int /\ Data(l) + blocks[l].size \in Int
      BY <2>1
    <3> QED
      BY <3>1, <3>2, IntervalsApart DEF Extents
  <2>3. ASSUME NEW k \in DOMAIN blocks, NEW l \in DOMAIN blocks, k # l
        PROVE  Extents(k) \cap Extents(l) = {}
    BY <2>1, <2>2, <2>3
  <2> QED
    BY <2>1, <2>3 DEF BlocksApart
<1> QED
  BY <1>1, Invariant, PTL

\* A remainder is below the modulus.
LEMMA ModRange ==
  ASSUME NEW x \in Int, NEW w \in Nat \ {0}
  PROVE  x % w \in 0 .. w - 1
OBVIOUS

\* A number below the modulus is its own remainder.
LEMMA ModSame ==
  ASSUME NEW x \in Nat, NEW w \in Nat \ {0}, x < w
  PROVE  x % w = x
OBVIOUS

\* Just below zero it wraps around: what a size_t makes of `n -= offset`.
LEMMA ModWrapped ==
  ASSUME NEW x \in Int, NEW w \in Nat \ {0}, x < 0, 0 <= x + w
  PROVE  x % w = x + w
OBVIOUS

-----------------------------------------------------------------------------
(* What memset fills. *)

\* A memset of n bytes fills exactly n of them, or so many that it faults: the
\* latter when the pointer needs more bytes to be aligned than there are to fill.
LEMMA ExtentFacts ==
  ASSUME NEW d \in Nat, d <= Top, NEW n \in Lengths
  PROVE  /\ Extent(d, n) \in Nat
         /\ Extent(d, n) = n \/ d + Extent(d, n) > Top
         /\ n >= Register - 1 => Extent(d, n) = n
<1> DEFINE o == Offset(d)
<1>1. Register \in Nat \ {0} /\ n \in Nat /\ Wrap \in Nat /\ Top \in Nat /\ 2 * Top < Wrap
  BY SizesAssumption
<1>2. o \in 0 .. Register - 1
  <2>1. Register - (d % Register) \in Int
    <3>1. d % Register \in 0 .. Register - 1
      BY <1>1, ModRange
    <3> QED
      BY <1>1, <3>1
  <2> QED
    BY <1>1, <2>1, ModRange DEF Offset
<1>3. 2 * (3 * Register + n) < Wrap
  BY SizesAssumption DEF HeaderSize
<1>4. Extent(d, n) = o + ((n - o) % Wrap)
  BY DEF Extent
<1> HIDE DEF o
<1>5. CASE o <= n
  <2>1. n - o \in Nat /\ n - o < Wrap /\ Wrap \in Nat \ {0}
    BY <1>1, <1>2, <1>3, <1>5
  <2>2. (n - o) % Wrap = n - o
    BY <2>1, ModSame
  <2>3. Extent(d, n) = n
    BY <1>1, <1>2, <1>4, <2>2
  <2> QED
    BY <1>1, <2>3
<1>6. CASE o > n
  <2>1. n - o \in Int /\ n - o < 0 /\ 0 <= (n - o) + Wrap /\ Wrap \in Nat \ {0}
    BY <1>1, <1>2, <1>3, <1>6
  <2>2. (n - o) % Wrap = (n - o) + Wrap
    BY <2>1, ModWrapped
  <2>3. Extent(d, n) = n + Wrap
    BY <1>1, <1>2, <1>4, <2>2
  <2>4. ~(n >= Register - 1)
    BY <1>1, <1>2, <1>6
  <2> QED
    BY <1>1, <2>3, <2>4
<1> QED
  BY <1>1, <1>2, <1>5, <1>6

-----------------------------------------------------------------------------
(* What a step that stays within one block leaves alone. *)

\* Memory changes within the data of block l only.
WritesWithin(l) ==
  /\ UNCHANGED <<brk, blocks>>
  /\ mem' \in [Address -> Cell]
  /\ \A a \in Address : mem'[a] # mem[a] => Data(l) <= a /\ a < End(l)

\* Where a block's cells are: below the break, and apart from every other block's.
LEMMA Places ==
  ASSUME IInv, NEW k \in DOMAIN blocks
  PROVE  /\ blocks[k].at \in Nat /\ blocks[k].size \in Nat
         /\ Data(k) \in Nat /\ End(k) \in Nat
         /\ HeaderSize \in Nat /\ HeaderSize > 0
         /\ Data(k) = blocks[k].at + HeaderSize /\ End(k) = Data(k) + blocks[k].size
         /\ End(k) <= brk /\ brk <= Top /\ brk \in Nat /\ Top \in Nat
         /\ \A l \in DOMAIN blocks :
              l # k => (End(k) <= blocks[l].at \/ End(l) <= blocks[k].at)
<1>1. HeaderSize \in Nat /\ HeaderSize > 0
  BY SizesAssumption DEF HeaderSize
<1>2. \A l \in DOMAIN blocks : l # k => (k < l \/ l < k)
  BY BlockTypes DEF IInv
<1>3. \A l \in DOMAIN blocks :
        l # k => (End(k) <= blocks[l].at \/ End(l) <= blocks[k].at)
  BY <1>2 DEF IInv, InOrder
<1>4. brk \in Nat /\ brk <= Top /\ Top \in Nat /\ End(k) <= brk
  BY Constants DEF IInv, TypeOK, InOrder
<1> QED
  BY <1>1, <1>3, <1>4, BlockTypes DEF IInv, Data, End

\* A header is in memory.
LEMMA HeaderInMemory ==
  ASSUME IInv, NEW k \in DOMAIN blocks, NEW a \in blocks[k].at .. Data(k) - 1
  PROVE  /\ a \in Address /\ a \in Nat /\ a < brk
         /\ \A l \in DOMAIN blocks : ~(Data(l) <= a /\ a < End(l))
<1>1. a \in Nat /\ a < Data(k) /\ blocks[k].at <= a /\ a < brk /\ brk <= Top /\ Top \in Nat
      /\ brk \in Nat
  BY Places
<1>2. ASSUME NEW l \in DOMAIN blocks PROVE ~(Data(l) <= a /\ a < End(l))
  <2>1. CASE l = k
    BY <1>1, <2>1, Places
  <2>2. CASE l # k
    <3>1. End(k) <= blocks[l].at \/ End(l) <= blocks[k].at
      BY <2>2, Places
    <3> QED
      BY <1>1, <3>1, Places
  <2> QED
    BY <2>1, <2>2
<1> QED
  BY <1>1, <1>2 DEF Address

\* A block's first cell, where the flag is read, is in its header.
LEMMA FlagCell ==
  ASSUME IInv, NEW k \in DOMAIN blocks
  PROVE  blocks[k].at \in blocks[k].at .. Data(k) - 1
BY Places

\* So are its data, and no other block's.
LEMMA DataInMemory ==
  ASSUME IInv, NEW k \in DOMAIN blocks, NEW j \in 0 .. blocks[k].size - 1
  PROVE  /\ Data(k) + j \in Address /\ Data(k) + j < brk /\ Data(k) + j \in Nat
         /\ \A l \in DOMAIN blocks :
              l # k => ~(blocks[l].at <= Data(k) + j /\ Data(k) + j < End(l))
         /\ \A l \in DOMAIN blocks : ~(blocks[l].at <= Data(k) + j /\ Data(k) + j < Data(l))
<1> PICK a \in Nat : a = Data(k) + j
  BY Places
<1>1. Data(k) <= a /\ a < End(k) /\ a < brk /\ brk <= Top /\ brk \in Nat /\ Top \in Nat
  BY Places
<1>2. ASSUME NEW l \in DOMAIN blocks, l # k PROVE ~(blocks[l].at <= a /\ a < End(l))
  BY <1>1, <1>2, Places
<1>3. ASSUME NEW l \in DOMAIN blocks PROVE ~(blocks[l].at <= a /\ a < Data(l))
  <2>1. CASE l = k
    BY <1>1, <2>1, Places
  <2>2. CASE l # k
    <3>1. Data(l) <= End(l) /\ Data(l) \in Nat /\ End(l) \in Nat
      BY Places
    <3> QED
      BY <1>2, <2>2, <3>1
  <2> QED
    BY <2>1, <2>2
<1> QED
  BY <1>1, <1>2, <1>3 DEF Address

\* Such a write damages no header and nothing behind the break.
LEMMA WriteIntact ==
  ASSUME IInv, Undamaged, NEW l \in DOMAIN blocks, WritesWithin(l)
  PROVE  Undamaged'
<1>1. ASSUME NEW k \in DOMAIN blocks, NEW a \in blocks[k].at .. Data(k) - 1
      PROVE  mem'[a] = mem[a]
  BY HeaderInMemory DEF WritesWithin
<1>2. HeadersIntact'
  <2> SUFFICES ASSUME NEW k \in DOMAIN blocks, NEW a \in blocks[k].at .. Data(k) - 1
               PROVE  mem'[a] \in {"live", "freed"} /\ mem'[a] = mem'[blocks[k].at]
    BY DEF HeadersIntact, WritesWithin, Data
  <2>1. mem'[a] = mem[a] /\ mem'[blocks[k].at] = mem[blocks[k].at]
    BY <1>1, FlagCell
  <2> QED
    BY <2>1 DEF Undamaged, HeadersIntact
<1>3. BehindIsZero'
  <2> SUFFICES ASSUME NEW a \in Address, a >= brk PROVE mem'[a] = Zero
    BY DEF BehindIsZero, WritesWithin
  <2>1. ~(Data(l) <= a /\ a < End(l))
    <3>1. a \in Nat
      BY DEF Address
    <3> QED
      BY <3>1, Places
  <2> QED
    BY <2>1 DEF WritesWithin, Undamaged, BehindIsZero
<1> QED
  BY <1>2, <1>3 DEF Undamaged

-----------------------------------------------------------------------------
(* What malloc adds. *)

\* The blocks after a call of malloc: those that were there, and one behind them.
LEMMA Obtained ==
  ASSUME IInv, NEW n \in Nat, NEW flag, NEW m, Obtain(n, flag, m),
         NEW new \in Nat, new = Len(blocks) + 1
  PROVE  /\ Len(blocks) \in Nat /\ DOMAIN blocks = 1 .. Len(blocks)
         /\ DOMAIN blocks' = 1 .. new /\ new \notin DOMAIN blocks
         /\ \A k \in DOMAIN blocks : blocks'[k] = blocks[k] /\ Data(k)' = Data(k)
         /\ blocks'[new].at = brk /\ blocks'[new].size = n
         /\ Data(new)' = brk + HeaderSize
         /\ brk' = brk + HeaderSize + n /\ brk' <= Top
         /\ HeaderSize \in Nat /\ HeaderSize > 0 /\ brk \in Nat /\ Top \in Nat
<1> DEFINE b == [at |-> brk, size |-> n]
<1>1. /\ blocks' = Append(blocks, b) /\ brk' = brk + (HeaderSize + n)
      /\ brk + (HeaderSize + n) <= Top /\ brk \in Nat
      /\ HeaderSize \in Nat /\ HeaderSize > 0 /\ Top \in Nat
  BY SizesAssumption DEF Obtain, Sbrk, IInv, TypeOK, HeaderSize
<1>2. blocks \in Seq(Block) /\ b \in Block
  BY <1>1, Constants DEF IInv, TypeOK, Block
<1>3. b.at = brk /\ b.size = n
  OBVIOUS
<1> HIDE DEF b
<1>4. /\ Len(blocks) \in Nat /\ DOMAIN blocks = 1 .. Len(blocks)
      /\ DOMAIN blocks' = 1 .. new /\ new \notin DOMAIN blocks
      /\ blocks'[new] = b
      /\ \A k \in DOMAIN blocks : blocks'[k] = blocks[k]
  BY <1>1, <1>2
<1>5. \A k \in DOMAIN blocks : Data(k)' = Data(k)
  BY <1>4 DEF Data
<1>6. Data(new)' = brk + HeaderSize
  BY <1>3, <1>4 DEF Data
<1> QED
  BY <1>1, <1>3, <1>4, <1>5, <1>6

\* malloc itself keeps the heap intact, given memory that differs from what was
\* there only within blocks and in the new block's data.
LEMMA ObtainIntact ==
  ASSUME IInv, Undamaged, NEW n \in Nat, NEW flag \in {"live", "freed"},
         NEW m \in [Address -> Cell], Obtain(n, flag, m),
         \A a \in Address : m[a] # mem[a] =>
           \/ \E l \in DOMAIN blocks : Data(l) <= a /\ a < End(l)
           \/ brk + HeaderSize <= a /\ a < brk + HeaderSize + n
  PROVE  Undamaged'
<1> PICK new \in Nat : new = Len(blocks) + 1
  BY BlockTypes DEF IInv
<1>1. /\ DOMAIN blocks' = DOMAIN blocks \union {new}
      /\ \A k \in DOMAIN blocks : blocks'[k] = blocks[k] /\ Data(k)' = Data(k)
      /\ blocks'[new].at = brk /\ Data(new)' = brk + HeaderSize
      /\ brk' = brk + HeaderSize + n /\ brk' <= Top
      /\ HeaderSize \in Nat /\ HeaderSize > 0 /\ brk \in Nat /\ Top \in Nat
  <2>1. DOMAIN blocks' = 1 .. new /\ DOMAIN blocks = 1 .. new - 1 /\ new \in Nat \ {0}
    <3>1. DOMAIN blocks' = 1 .. new /\ DOMAIN blocks = 1 .. Len(blocks)
      BY Obtained
    <3> QED
      BY <3>1, BlockTypes DEF IInv
  <2>2. 1 .. new = (1 .. new - 1) \union {new}
    BY <2>1
  <2> QED
    BY <2>1, <2>2, Obtained
<1>2. \A a \in Address :
        mem'[a] = IF Within(brk, HeaderSize, a) THEN flag ELSE m[a]
  BY DEF Obtain
<1>3. ASSUME NEW k \in DOMAIN blocks, NEW a \in blocks[k].at .. Data(k) - 1
      PROVE  mem'[a] = mem[a]
  <2>1. /\ a \in Address /\ a \in Nat /\ a < brk
        /\ \A l \in DOMAIN blocks : ~(Data(l) <= a /\ a < End(l))
    BY HeaderInMemory
  <2>2. ~Within(brk, HeaderSize, a) /\ ~(brk + HeaderSize <= a)
    BY <1>1, <2>1 DEF Within
  <2>3. m[a] = mem[a]
    BY <2>1, <2>2
  <2> QED
    BY <1>2, <2>1, <2>2, <2>3
<1>4. ASSUME NEW a \in brk .. brk + HeaderSize - 1
      PROVE  mem'[a] = flag
  <2>1. a \in Address /\ Within(brk, HeaderSize, a)
    BY <1>1 DEF Address, Within
  <2> QED
    BY <1>2, <2>1
<1>5. HeadersIntact'
  <2> SUFFICES ASSUME NEW k \in DOMAIN blocks', NEW a \in blocks'[k].at .. Data(k)' - 1
               PROVE  mem'[a] \in {"live", "freed"} /\ mem'[a] = mem'[blocks'[k].at]
    BY DEF HeadersIntact
  <2>1. CASE k \in DOMAIN blocks
    <3>1. a \in blocks[k].at .. Data(k) - 1 /\ blocks'[k] = blocks[k]
      BY <1>1, <2>1
    <3>2. mem'[a] = mem[a] /\ mem'[blocks[k].at] = mem[blocks[k].at]
      BY <1>3, <2>1, <3>1, FlagCell
    <3> QED
      BY <2>1, <3>1, <3>2 DEF Undamaged, HeadersIntact
  <2>2. CASE k = new
    <3>1. a \in brk .. brk + HeaderSize - 1 /\ blocks'[k].at = brk
      BY <1>1, <2>2
    <3>2. brk \in brk .. brk + HeaderSize - 1
      BY <1>1
    <3> QED
      BY <1>4, <3>1, <3>2
  <2> QED
    BY <1>1, <2>1, <2>2
<1>6. BehindIsZero'
  <2> SUFFICES ASSUME NEW a \in Address, a >= brk' PROVE mem'[a] = Zero
    BY DEF BehindIsZero
  <2>1. /\ a \in Nat /\ a >= brk /\ ~Within(brk, HeaderSize, a)
        /\ ~(brk + HeaderSize <= a /\ a < brk + HeaderSize + n)
    BY <1>1 DEF Address, Within
  <2>2. ASSUME NEW l \in DOMAIN blocks PROVE ~(Data(l) <= a /\ a < End(l))
    BY <2>1, Places
  <2>3. m[a] = mem[a]
    BY <2>1, <2>2
  <2> QED
    BY <1>2, <2>1, <2>3 DEF Undamaged, BehindIsZero
<1> QED
  BY <1>5, <1>6 DEF Undamaged

-----------------------------------------------------------------------------
(* What each call writes. *)

\* free writes the flag into the block's own header.
LEMMA FreeCells ==
  ASSUME IInv, NEW k \in DOMAIN blocks, Free(k)
  PROVE  /\ UNCHANGED <<brk, blocks, dead>> /\ mem' \in [Address -> Cell]
         /\ \A a \in blocks[k].at .. Data(k) - 1 : mem'[a] = "freed"
         /\ \A a \in Address :
              ~(blocks[k].at <= a /\ a < Data(k)) => mem'[a] = mem[a]
<1>1. /\ blocks[k].at \in Nat /\ HeaderSize \in Nat
      /\ Data(k) = blocks[k].at + HeaderSize /\ mem \in [Address -> Cell]
  BY Places DEF IInv, TypeOK
<1>2. mem' = [a \in Address |->
                IF Within(blocks[k].at, HeaderSize, a) THEN "freed" ELSE mem[a]]
  BY DEF Free
<1>3. ASSUME NEW a \in blocks[k].at .. Data(k) - 1 PROVE mem'[a] = "freed"
  <2>1. a \in Address /\ Within(blocks[k].at, HeaderSize, a)
    BY <1>1, HeaderInMemory DEF Within
  <2> QED
    BY <1>2, <2>1
<1>4. ASSUME NEW a \in Address, ~(blocks[k].at <= a /\ a < Data(k))
      PROVE  mem'[a] = mem[a]
  <2>1. ~Within(blocks[k].at, HeaderSize, a)
    BY <1>1, <1>4 DEF Within
  <2> QED
    BY <1>2, <2>1
<1>5. mem' \in [Address -> Cell]
  BY <1>1, <1>2 DEF Cell
<1> QED
  BY <1>3, <1>4, <1>5 DEF Free

\* free keeps the heap intact.
LEMMA FreeIntact ==
  ASSUME IInv, Undamaged, NEW k \in DOMAIN blocks, Free(k)
  PROVE  Undamaged'
<1>1. ASSUME NEW i \in DOMAIN blocks, NEW a \in blocks[i].at .. Data(i) - 1
      PROVE  mem'[a] = IF i = k THEN "freed" ELSE mem[a]
  <2>1. CASE i = k
    BY <2>1, FreeCells
  <2>2. CASE i # k
    <3>1. a \in Address /\ ~(blocks[k].at <= a /\ a < Data(k))
      <4>1. a \in Address /\ a \in Nat /\ blocks[i].at <= a /\ a < Data(i)
        BY HeaderInMemory, Places
      <4>2. End(k) <= blocks[i].at \/ End(i) <= blocks[k].at
        BY <2>2, Places
      <4>3. Data(i) <= End(i) /\ Data(k) <= End(k)
        BY Places
      <4> QED
        BY <4>1, <4>2, <4>3, Places
    <3> QED
      BY <2>2, <3>1, FreeCells
  <2> QED
    BY <2>1, <2>2
<1>2. HeadersIntact'
  <2> SUFFICES ASSUME NEW i \in DOMAIN blocks, NEW a \in blocks[i].at .. Data(i) - 1
               PROVE  mem'[a] \in {"live", "freed"} /\ mem'[a] = mem'[blocks[i].at]
    BY FreeCells DEF HeadersIntact, Data
  <2> QED
    BY <1>1, FlagCell DEF Undamaged, HeadersIntact
<1>3. BehindIsZero'
  <2> SUFFICES ASSUME NEW a \in Address, a >= brk PROVE mem'[a] = Zero
    BY FreeCells DEF BehindIsZero
  <2>1. ~(blocks[k].at <= a /\ a < Data(k))
    <3>1. a \in Nat
      BY DEF Address
    <3> QED
      BY <3>1, Places
  <2> QED
    BY <2>1, FreeCells DEF Undamaged, BehindIsZero
<1> QED
  BY <1>2, <1>3 DEF Undamaged

\* memset of a live program, in its block.
LEMMA MemsetWrites ==
  ASSUME IInv, NEW k \in DOMAIN blocks, NEW c \in Byte, NEW n \in Lengths,
         Memset(k, c, n), ~dead'
  PROVE  /\ WritesWithin(k) /\ n \in Nat /\ n <= blocks[k].size
         /\ mem' = [a \in Address |-> IF Within(Data(k), n, a) THEN c ELSE mem[a]]
<1>1. /\ Data(k) \in Nat /\ Data(k) <= Top /\ n \in Nat /\ n <= blocks[k].size
      /\ blocks[k].size \in Nat /\ End(k) = Data(k) + blocks[k].size
  BY Places, Constants DEF Memset
<1>2. Extent(Data(k), n) = n
  BY <1>1, ExtentFacts DEF Memset
<1>3. mem' = [a \in Address |-> IF Within(Data(k), n, a) THEN c ELSE mem[a]]
  BY <1>2 DEF Memset
<1>4. mem \in [Address -> Cell] /\ c \in Cell
  BY DEF IInv, TypeOK, Cell
<1>5. mem' \in [Address -> Cell]
  BY <1>3, <1>4
<1>6. ASSUME NEW a \in Address, mem'[a] # mem[a] PROVE Data(k) <= a /\ a < End(k)
  <2>1. Within(Data(k), n, a) /\ a \in Nat
    BY <1>3, <1>6 DEF Address
  <2> QED
    BY <1>1, <2>1 DEF Within
<1> QED
  BY <1>1, <1>3, <1>5, <1>6 DEF WritesWithin, Memset

\* The ranges of a copy lie in their blocks.
LEMMA RangesInBlocks ==
  ASSUME IInv, NEW k \in DOMAIN blocks, NEW l \in DOMAIN blocks, NEW n \in Lengths,
         NEW from \in Nat, NEW to \in Nat, Ranges(k, from, l, to, n)
  PROVE  /\ n \in Nat /\ from + n <= blocks[k].size /\ to + n <= blocks[l].size
         /\ Data(k) + from \in Nat /\ Data(k) + from + n <= End(k)
         /\ Data(l) + to \in Nat /\ Data(l) + to + n <= End(l)
<1>1. n \in Nat /\ from \in 0 .. blocks[k].size - n /\ to \in 0 .. blocks[l].size - n
  BY Constants DEF Ranges
<1> QED
  BY <1>1, Places

\* Copied changes its target range only.
LEMMA CopiedElsewhere ==
  ASSUME NEW m, NEW from, NEW to, NEW n, NEW a \in Address, ~Within(to, n, a),
         m \in [Address -> Cell]
  PROVE  Copied(m, from, to, n)[a] = m[a]
BY DEF Copied

\* In its target range it shows the source.
LEMMA CopiedThere ==
  ASSUME NEW m, NEW from, NEW to, NEW n, NEW a \in Address, Within(to, n, a)
  PROVE  Copied(m, from, to, n)[a] = m[from + a - to]
BY DEF Copied

\* memcpy writes within the block it copies to.
LEMMA MemcpyWrites ==
  ASSUME IInv, NEW k \in DOMAIN blocks, NEW l \in DOMAIN blocks, NEW n \in Lengths,
         NEW from \in Nat, NEW to \in Nat, Memcpy(k, from, l, to, n)
  PROVE  WritesWithin(l)
<1>1. /\ n \in Nat /\ Data(k) + from \in Nat /\ Data(k) + from + n <= End(k)
      /\ Data(l) + to \in Nat /\ Data(l) + to + n <= End(l)
  BY RangesInBlocks DEF Memcpy
<1>2. mem \in [Address -> Cell] /\ mem' = Copied(mem, Data(k) + from, Data(l) + to, n)
  BY DEF Memcpy, IInv, TypeOK
<1>3. (Data(k) + from) + n <= Top
  BY <1>1, Places
<1>4. mem' \in [Address -> Cell]
  BY <1>1, <1>2, <1>3, CopiedType
<1>5. ASSUME NEW a \in Address, mem'[a] # mem[a] PROVE Data(l) <= a /\ a < End(l)
  <2>1. Within(Data(l) + to, n, a)
    BY <1>2, <1>5, CopiedElsewhere
  <2>2. a \in Nat
    BY DEF Address
  <2> QED
    BY <1>1, <2>1, <2>2, Places DEF Within
<1> QED
  BY <1>4, <1>5 DEF WritesWithin, Memcpy

\* memmove goes through the new block's data and then changes its target range.
LEMMA MemmoveWrites ==
  ASSUME IInv, NEW k \in DOMAIN blocks, NEW l \in DOMAIN blocks, NEW n \in Lengths,
         NEW from \in Nat, NEW to \in Nat, Ranges(k, from, l, to, n),
         NEW tmp, tmp = brk + HeaderSize, tmp + n <= Top, NEW m,
         m = Copied(Copied(mem, Data(k) + from, tmp, n), tmp, Data(l) + to, n)
  PROVE  /\ m \in [Address -> Cell]
         /\ \A a \in Address :
              (a < brk /\ ~Within(Data(l) + to, n, a)) => m[a] = mem[a]
         /\ \A j \in 0 .. n - 1 :
              /\ m[Data(l) + to + j] = mem[Data(k) + from + j]
              /\ m[tmp + j] = mem[Data(k) + from + j]
         /\ \A a \in Address : m[a] # mem[a] =>
              \/ \E i \in DOMAIN blocks : Data(i) <= a /\ a < End(i)
              \/ tmp <= a /\ a < tmp + n
<1> DEFINE m1 == Copied(mem, Data(k) + from, tmp, n)
           s == Data(k) + from
           t == Data(l) + to
<1>1. /\ n \in Nat /\ s \in Nat /\ s + n <= End(k) /\ t \in Nat /\ t + n <= End(l)
      /\ t >= Data(l) /\ s >= Data(k)
  <2>1. /\ n \in Nat /\ s \in Nat /\ s + n <= End(k) /\ t \in Nat /\ t + n <= End(l)
    BY RangesInBlocks
  <2> QED
    BY <2>1, Places
<1>2. /\ s + n <= brk /\ t + n <= brk /\ brk \in Nat /\ tmp \in Nat /\ brk < tmp
      /\ brk <= Top /\ Top \in Nat
  BY <1>1, Places
<1>3. mem \in [Address -> Cell]
  BY DEF IInv, TypeOK
<1>4. m = Copied(m1, tmp, t, n) /\ m1 = Copied(mem, s, tmp, n)
  OBVIOUS
<1> HIDE DEF m1, s, t
<1>5. m1 \in [Address -> Cell]
  BY <1>1, <1>2, <1>3, <1>4, CopiedType
<1>6. m \in [Address -> Cell]
  BY <1>1, <1>2, <1>4, <1>5, CopiedType
<1>7. \A a \in Address : ~Within(tmp, n, a) => m1[a] = mem[a]
  BY <1>3, <1>4, CopiedElsewhere
<1>8. \A a \in Address : ~Within(t, n, a) => m[a] = m1[a]
  BY <1>4, <1>5, CopiedElsewhere
<1>9. \A a \in Address : a < brk => ~Within(tmp, n, a)
  BY <1>2 DEF Address, Within
<1>10. \A a \in Address : Within(t, n, a) => (a < brk /\ Data(l) <= a /\ a < End(l))
  <2> SUFFICES ASSUME NEW a \in Address, Within(t, n, a)
               PROVE  a < brk /\ Data(l) <= a /\ a < End(l)
    OBVIOUS
  <2>1. a \in Nat /\ t <= a /\ a < t + n
    BY DEF Address, Within
  <2> QED
    BY <1>1, <1>2, <2>1, Places
<1>11. ASSUME NEW j \in 0 .. n - 1
       PROVE  /\ s + j \in Address /\ tmp + j \in Address /\ t + j \in Address
              /\ ~Within(t, n, tmp + j) /\ Within(tmp, n, tmp + j) /\ Within(t, n, t + j)
              /\ s + (tmp + j) - tmp = s + j /\ tmp + (t + j) - t = tmp + j
  BY <1>1, <1>2 DEF Address, Within
<1>12. ASSUME NEW j \in 0 .. n - 1
       PROVE  m1[tmp + j] = mem[s + j]
  <2> DEFINE a == tmp + j
  <2>1. a \in Address /\ Within(tmp, n, a) /\ s + a - tmp = s + j
    BY <1>11
  <2> HIDE DEF a
  <2>2. m1[a] = mem[s + a - tmp]
    BY <1>4, <2>1, CopiedThere
  <2> QED
    BY <2>1, <2>2 DEF a
<1>13. ASSUME NEW j \in 0 .. n - 1
       PROVE  m[t + j] = mem[s + j] /\ m[tmp + j] = mem[s + j]
  <2> DEFINE a == t + j
  <2>1. a \in Address /\ Within(t, n, a) /\ tmp + a - t = tmp + j
    BY <1>11
  <2> HIDE DEF a
  <2>2. m[a] = m1[tmp + a - t]
    BY <1>4, <2>1, CopiedThere
  <2>3. m[tmp + j] = m1[tmp + j]
    BY <1>8, <1>11
  <2> QED
    BY <1>12, <2>1, <2>2, <2>3 DEF a
<1>14. \A a \in Address : (a < brk /\ ~Within(t, n, a)) => m[a] = mem[a]
  BY <1>7, <1>8, <1>9
<1>15. ASSUME NEW a \in Address, m[a] # mem[a]
       PROVE  \/ Data(l) <= a /\ a < End(l)
              \/ tmp <= a /\ a < tmp + n
  <2>1. Within(t, n, a) \/ Within(tmp, n, a)
    BY <1>7, <1>8, <1>15
  <2>2. CASE Within(t, n, a)
    BY <1>10, <2>2
  <2>3. CASE Within(tmp, n, a)
    BY <2>3 DEF Within
  <2> QED
    BY <2>1, <2>2, <2>3
<1> QED
  BY <1>6, <1>13, <1>14, <1>15 DEF s, t

\* An empty heap is intact.
LEMMA IntactInit == Init => HeapIntact
<1> SUFFICES ASSUME Init PROVE Undamaged
  BY DEF HeapIntact
<1>1. DOMAIN blocks = {} /\ \A a \in Address : mem[a] = Zero
  BY DEF Init
<1> QED
  BY <1>1 DEF Undamaged, HeadersIntact, BehindIsZero

\* Every call keeps a living program's heap intact.
LEMMA IntactNext == IInv /\ HeapIntact /\ [Next]_vars => HeapIntact'
<1> SUFFICES ASSUME IInv, HeapIntact, [Next]_vars, ~dead' PROVE Undamaged'
  BY DEF HeapIntact
<1>1. CASE UNCHANGED vars
  BY <1>1 DEF vars, HeapIntact, Undamaged, HeadersIntact, BehindIsZero, Data
<1>2. CASE Next
  <2>1. Undamaged /\ mem \in [Address -> Cell]
    BY <1>2 DEF Next, HeapIntact, IInv, TypeOK
  <2>2. ASSUME NEW n \in Sizes, Malloc(n) PROVE Undamaged'
    <3>1. n \in Nat /\ Obtain(n, "live", mem)
      BY <2>2, Constants DEF Malloc
    <3> QED
      BY <2>1, <3>1, ObtainIntact
  <2>3. ASSUME NEW k \in DOMAIN blocks, Free(k) PROVE Undamaged'
    BY <2>1, <2>3, FreeIntact
  <2>4. ASSUME NEW k \in DOMAIN blocks, NEW c \in Byte, NEW n \in Lengths,
               Memset(k, c, n)
        PROVE  Undamaged'
    BY <2>1, <2>4, MemsetWrites, WriteIntact
  <2>5. ASSUME NEW k \in DOMAIN blocks, NEW l \in DOMAIN blocks, NEW n \in Lengths,
               NEW from \in Nat, NEW to \in Nat, Memcpy(k, from, l, to, n)
        PROVE  Undamaged'
    BY <2>1, <2>5, MemcpyWrites, WriteIntact
  <2>6. ASSUME NEW k \in DOMAIN blocks, NEW l \in DOMAIN blocks, NEW n \in Lengths,
               NEW from \in Nat, NEW to \in Nat, Memmove(k, from, l, to, n)
        PROVE  Undamaged'
    <3> DEFINE tmp == brk + HeaderSize
               m == Copied(Copied(mem, Data(k) + from, tmp, n), tmp, Data(l) + to, n)
    <3>1. Ranges(k, from, l, to, n) /\ Obtain(n, "freed", m) /\ n \in Nat
      BY <2>6, Constants DEF Memmove
    <3>2. tmp + n <= Top
      <4>1. brk + (HeaderSize + n) <= Top
        BY <3>1 DEF Obtain, Sbrk
      <4>2. brk \in Nat /\ HeaderSize \in Nat /\ n \in Nat /\ Top \in Nat
        BY <3>1, Constants, Places
      <4> QED
        BY <4>1, <4>2
    <3>3. tmp = brk + HeaderSize
      OBVIOUS
    <3>4. m = Copied(Copied(mem, Data(k) + from, tmp, n), tmp, Data(l) + to, n)
      OBVIOUS
    <3> HIDE DEF tmp, m
    <3>5. /\ m \in [Address -> Cell]
          /\ \A a \in Address : m[a] # mem[a] =>
               \/ \E i \in DOMAIN blocks : Data(i) <= a /\ a < End(i)
               \/ tmp <= a /\ a < tmp + n
      BY <3>1, <3>2, <3>3, <3>4, MemmoveWrites
    <3> QED
      BY <2>1, <3>1, <3>3, <3>5, ObtainIntact
  <2>7. \A k \in DOMAIN blocks : \A x \in 0 .. blocks[k].size : x \in Nat
    OBVIOUS
  <2> QED
    BY <1>2, <2>2, <2>3, <2>4, <2>5, <2>6, <2>7 DEF Next
<1> QED
  BY <1>1, <1>2

\* For any sizes of blocks and of what is written: as long as a program has not
\* been killed by a memset that runs off the heap, its headers are intact and
\* what malloc hands out next reads as zero (memory.c, memset of string.c).
THEOREM HeapStaysIntact == Spec => []HeapIntact
<1>1. Init => IInv /\ HeapIntact
  BY IInvInit, IntactInit
<1>2. IInv /\ HeapIntact /\ [Next]_vars => IInv' /\ HeapIntact'
  BY IInvNext, IntactNext
<1> QED
  BY <1>1, <1>2, PTL DEF Spec

-----------------------------------------------------------------------------
(* What the program sees. *)

\* Sequences of the same length with the same elements are the same.
LEMMA SameSequence ==
  ASSUME NEW S, NEW s \in Seq(S), NEW t \in Seq(S), NEW n \in Nat, Len(s) = n, Len(t) = n,
         \A i \in 1 .. n : s[i] = t[i]
  PROVE  s = t
OBVIOUS

\* A function that is another one and one value more is that one with it appended.
LEMMA AppendedTo ==
  ASSUME NEW n \in Nat, NEW f, f = [i \in 1 .. n |-> f[i]],
         NEW g, g = [i \in 1 .. n + 1 |-> g[i]], \A i \in 1 .. n : g[i] = f[i]
  PROVE  g = Append(f, g[n + 1])
<1> DEFINE S == {f[i] : i \in 1 .. n} \union {g[n + 1]}
           e == g[n + 1]
<1>1. f \in [1 .. n -> S] /\ e \in S
  OBVIOUS
<1>2. g \in [1 .. n + 1 -> S]
  <2>1. \A i \in 1 .. n + 1 : i \in 1 .. n \/ i = n + 1
    OBVIOUS
  <2> QED
    BY <1>1, <2>1
<1>3. g[n + 1] = e
  OBVIOUS
<1> HIDE DEF S, e
<1>4. f \in Seq(S) /\ Len(f) = n /\ g \in Seq(S) /\ Len(g) = n + 1
  BY <1>1, <1>2
<1>5. /\ Append(f, e) \in Seq(S) /\ Len(Append(f, e)) = n + 1
      /\ \A i \in 1 .. n : Append(f, e)[i] = f[i]
      /\ Append(f, e)[n + 1] = e
  BY <1>1, <1>4
<1>6. \A i \in 1 .. n + 1 : i \in 1 .. n \/ i = n + 1
  OBVIOUS
<1>7. \A i \in 1 .. n + 1 : g[i] = Append(f, e)[i]
  BY <1>3, <1>5, <1>6
<1> QED
  BY <1>4, <1>5, <1>7, SameSequence

\* A block with its data replaced.
LEMMA DataReplaced ==
  ASSUME NEW a, NEW b, NEW d
  PROVE  [[live |-> a, data |-> b] EXCEPT !.data = d] = [live |-> a, data |-> d]
OBVIOUS

\* Its flag replaced.
LEMMA LiveReplaced ==
  ASSUME NEW a, NEW b, NEW d
  PROVE  [[live |-> a, data |-> b] EXCEPT !.live = d] = [live |-> d, data |-> b]
OBVIOUS

\* One block of the view.
Seen(k) ==
  [live |-> Live(k), data |-> [j \in 0 .. blocks[k].size - 1 |-> mem[Data(k) + j]]]

\* The view, block by block.
LEMMA ViewIs == View = [k \in DOMAIN blocks |-> Seen(k)]
BY DEF View, Seen

\* What the view shows of each block.
LEMMA ViewFacts ==
  /\ DOMAIN View = DOMAIN blocks
  /\ \A k \in DOMAIN blocks :
       /\ View[k] = Seen(k)
       /\ View[k].live = Live(k)
       /\ DOMAIN View[k].data = 0 .. blocks[k].size - 1
       /\ \A j \in 0 .. blocks[k].size - 1 : View[k].data[j] = mem[Data(k) + j]
BY ViewIs DEF Seen

\* A write within block l changes the data of that block and of no other.
LEMMA ViewWritten ==
  ASSUME IInv, NEW l \in DOMAIN blocks, WritesWithin(l)
  PROVE  View' = [View EXCEPT ![l].data =
                    [j \in 0 .. blocks[l].size - 1 |-> mem'[Data(l) + j]]]
<1> DEFINE d == [j \in 0 .. blocks[l].size - 1 |-> mem'[Data(l) + j]]
<1>1. UNCHANGED <<brk, blocks>> /\ \A k : Data(k)' = Data(k)
  BY DEF WritesWithin, Data
<1>2. ASSUME NEW k \in DOMAIN blocks PROVE Live(k)' = Live(k)
  <2>1. mem'[blocks[k].at] = mem[blocks[k].at]
    BY HeaderInMemory, FlagCell DEF WritesWithin
  <2> QED
    BY <1>1, <2>1 DEF Live
<1>3. ASSUME NEW k \in DOMAIN blocks, k # l PROVE Seen(k)' = Seen(k)
  <2>1. ASSUME NEW j \in 0 .. blocks[k].size - 1 PROVE mem'[Data(k) + j] = mem[Data(k) + j]
    <3>1. ~(blocks[l].at <= Data(k) + j /\ Data(k) + j < End(l)) /\ Data(k) + j \in Address
          /\ Data(k) + j \in Nat
      BY <1>3, DataInMemory
    <3>2. ~(Data(l) <= Data(k) + j /\ Data(k) + j < End(l))
      BY <3>1, Places
    <3> QED
      BY <3>1, <3>2 DEF WritesWithin
  <2>2. [j \in 0 .. blocks[k].size - 1 |-> mem'[Data(k) + j]]
        = [j \in 0 .. blocks[k].size - 1 |-> mem[Data(k) + j]]
    BY <2>1
  <2> QED
    BY <1>1, <1>2, <2>2 DEF Seen
<1>4. Seen(l)' = [Seen(l) EXCEPT !.data = d]
  <2>1. Seen(l)' = [live |-> Live(l)', data |-> d]
    BY <1>1 DEF Seen
  <2>2. [Seen(l) EXCEPT !.data = d] = [live |-> Live(l), data |-> d]
    BY DataReplaced DEF Seen
  <2> QED
    BY <1>2, <2>1, <2>2
<1>5. View' = [k \in DOMAIN blocks |-> IF k = l THEN [Seen(l) EXCEPT !.data = d] ELSE Seen(k)]
  <2>1. View' = [k \in DOMAIN blocks |-> Seen(k)']
    BY <1>1, ViewIs DEF View, Seen
  <2> QED
    BY <1>3, <1>4, <2>1
<1>6. View = [k \in DOMAIN blocks |-> Seen(k)]
  BY ViewIs
<1> HIDE DEF d, Seen
<1>7. [View EXCEPT ![l].data = d]
      = [k \in DOMAIN blocks |-> IF k = l THEN [Seen(l) EXCEPT !.data = d] ELSE Seen(k)]
  BY <1>6
<1> QED
  BY <1>5, <1>7 DEF d

\* A call of malloc with memory m adds a block to the view and shows m in the others.
LEMMA ViewObtained ==
  ASSUME IInv, Undamaged, NEW n \in Nat, NEW flag \in {"live", "freed"},
         NEW m \in [Address -> Cell], Obtain(n, flag, m),
         \A k \in DOMAIN blocks : m[blocks[k].at] = mem[blocks[k].at]
  PROVE  View' = Append([k \in DOMAIN blocks |->
                           [live |-> Live(k),
                            data |-> [j \in 0 .. blocks[k].size - 1 |-> m[Data(k) + j]]]],
                        [live |-> flag = "live",
                         data |-> [j \in 0 .. n - 1 |-> m[brk + HeaderSize + j]]])
<1> PICK new \in Nat : new = Len(blocks) + 1
  BY BlockTypes DEF IInv
<1> DEFINE F(k) == [live |-> Live(k),
                    data |-> [j \in 0 .. blocks[k].size - 1 |-> m[Data(k) + j]]]
           f == [k \in DOMAIN blocks |-> F(k)]
           e == [live |-> flag = "live",
                 data |-> [j \in 0 .. n - 1 |-> m[brk + HeaderSize + j]]]
<1>1. /\ Len(blocks) \in Nat /\ DOMAIN blocks = 1 .. Len(blocks)
      /\ DOMAIN blocks' = 1 .. new /\ new \notin DOMAIN blocks
      /\ \A k \in DOMAIN blocks : blocks'[k] = blocks[k] /\ Data(k)' = Data(k)
      /\ blocks'[new].at = brk /\ blocks'[new].size = n
      /\ Data(new)' = brk + HeaderSize
      /\ brk' = brk + HeaderSize + n /\ brk' <= Top
      /\ HeaderSize \in Nat /\ HeaderSize > 0 /\ brk \in Nat /\ Top \in Nat
  BY Obtained
<1>2. \A a \in Address :
        mem'[a] = IF Within(brk, HeaderSize, a) THEN flag ELSE m[a]
  BY DEF Obtain
<1>3. ASSUME NEW k \in DOMAIN blocks PROVE Seen(k)' = F(k)
  <2>1. blocks'[k] = blocks[k] /\ Data(k)' = Data(k)
    BY <1>1
  <2>2. ASSUME NEW a \in Address, a < brk PROVE mem'[a] = m[a]
    <3>1. ~Within(brk, HeaderSize, a)
      BY <1>1, <2>2 DEF Address, Within
    <3> QED
      BY <1>2, <3>1
  <2>3. mem'[blocks[k].at] = mem[blocks[k].at]
    BY <2>2, FlagCell, HeaderInMemory
  <2>4. \A j \in 0 .. blocks[k].size - 1 : mem'[Data(k) + j] = m[Data(k) + j]
    BY <2>2, DataInMemory
  <2>5. Live(k)' = Live(k)
    BY <2>1, <2>3 DEF Live
  <2>6. [j \in 0 .. blocks[k].size - 1 |-> mem'[Data(k) + j]]
        = [j \in 0 .. blocks[k].size - 1 |-> m[Data(k) + j]]
    BY <2>4
  <2> QED
    BY <2>1, <2>5, <2>6 DEF Seen
<1>4. Seen(new)' = e
  <2>1. mem'[brk] = flag
    <3>1. brk \in Address /\ Within(brk, HeaderSize, brk)
      BY <1>1 DEF Address, Within
    <3> QED
      BY <1>2, <3>1
  <2>2. ASSUME NEW j \in 0 .. n - 1
        PROVE  mem'[brk + HeaderSize + j] = m[brk + HeaderSize + j]
    <3>1. brk + HeaderSize + j \in Address /\ ~Within(brk, HeaderSize, brk + HeaderSize + j)
      BY <1>1 DEF Address, Within
    <3> QED
      BY <1>2, <3>1
  <2>3. Live(new)' = (flag = "live")
    BY <1>1, <2>1 DEF Live
  <2>4. [j \in 0 .. n - 1 |-> mem'[brk + HeaderSize + j]]
        = [j \in 0 .. n - 1 |-> m[brk + HeaderSize + j]]
    BY <2>2
  <2> QED
    BY <1>1, <2>3, <2>4 DEF Seen
<1>5. View' = [k \in 1 .. new |-> Seen(k)']
  BY <1>1, ViewIs DEF View, Seen
<1>6. new = Len(blocks) + 1
  OBVIOUS
<1> HIDE DEF F, e, Seen
<1>7. /\ View' = [k \in 1 .. Len(blocks) + 1 |-> View'[k]]
      /\ View'[Len(blocks) + 1] = e
      /\ \A k \in 1 .. Len(blocks) : View'[k] = f[k]
      /\ f = [k \in 1 .. Len(blocks) |-> f[k]]
  <2>1. \A k \in 1 .. Len(blocks) : k \in 1 .. new
    BY <1>1, <1>6
  <2>2. new \in 1 .. new
    BY <1>1, <1>6
  <2>3. View'[new] = e
    BY <1>4, <1>5, <2>2
  <2>4. \A k \in 1 .. Len(blocks) : View'[k] = f[k]
    BY <1>1, <1>3, <1>5, <2>1
  <2>5. f = [k \in 1 .. Len(blocks) |-> f[k]]
    BY <1>1
  <2>6. View' = [k \in 1 .. new |-> View'[k]]
    BY <1>5
  <2> QED
    BY <1>6, <2>3, <2>4, <2>5, <2>6
<1> HIDE DEF f
<1>8. View' = Append(f, View'[Len(blocks) + 1])
  BY <1>1, <1>7, AppendedTo
<1> QED
  BY <1>7, <1>8 DEF f, F, e

-----------------------------------------------------------------------------
(* Step by step, the heap does what Store does. *)

\* Only a fill that may be too short to align its pointer kills the program.
LEMMA FatalIsShort ==
  ASSUME IInv, NEW k \in DOMAIN blocks, NEW c \in Byte, NEW n \in Lengths,
         Memset(k, c, n), dead'
  PROVE  n \in Short
<1>1. /\ Data(k) \in Nat /\ Data(k) <= Top /\ n \in Nat /\ Data(k) + n <= Top
      /\ Top \in Nat /\ Register \in Nat
  BY Places, Constants, SizesAssumption DEF Memset
<1>2. ASSUME n >= Register - 1 PROVE FALSE
  <2>1. Extent(Data(k), n) = n
    BY <1>1, <1>2, ExtentFacts
  <2>2. dead' = (Data(k) + n > Top)
    BY <2>1 DEF Memset
  <2>3. (Data(k) + n > Top) = FALSE
    BY <1>1
  <2> QED
    BY <2>2, <2>3, Zenon
<1> QED
  BY <1>1, <1>2 DEF Short

\* free is a step of Store.
LEMMA FreeSteps ==
  ASSUME IInv, NEW k \in DOMAIN blocks, Free(k)
  PROVE  Abstract!Free(k)
<1>1. UNCHANGED <<brk, blocks>> /\ \A i : Data(i)' = Data(i)
  BY DEF Free, Data
<1>2. ASSUME NEW i \in DOMAIN blocks PROVE Live(i)' = IF i = k THEN FALSE ELSE Live(i)
  <2>1. CASE i = k
    BY <1>1, <2>1, FlagCell, FreeCells DEF Live
  <2>2. CASE i # k
    <3>1. /\ blocks[i].at \in Address
          /\ ~(blocks[k].at <= blocks[i].at /\ blocks[i].at < Data(k))
      <4>1. End(k) <= blocks[i].at \/ End(i) <= blocks[k].at
        BY <2>2, Places
      <4>2. blocks[i].at < End(i) /\ Data(k) <= End(k)
        BY Places
      <4>3. blocks[i].at \in Address
        BY FlagCell, HeaderInMemory
      <4> QED
        BY <4>1, <4>2, <4>3, Places
    <3>2. mem'[blocks[i].at] = mem[blocks[i].at]
      BY <3>1, FreeCells
    <3> QED
      BY <1>1, <2>2, <3>2 DEF Live
  <2> QED
    BY <2>1, <2>2
<1>3. ASSUME NEW i \in DOMAIN blocks, NEW j \in 0 .. blocks[i].size - 1
      PROVE  mem'[Data(i) + j] = mem[Data(i) + j]
  BY DataInMemory, FreeCells
<1>4. ASSUME NEW i \in DOMAIN blocks
      PROVE  Seen(i)' = IF i = k THEN [Seen(k) EXCEPT !.live = FALSE] ELSE Seen(i)
  <2>1. [j \in 0 .. blocks[i].size - 1 |-> mem'[Data(i) + j]]
        = [j \in 0 .. blocks[i].size - 1 |-> mem[Data(i) + j]]
    BY <1>3
  <2>2. [Seen(k) EXCEPT !.live = FALSE]
        = [live |-> FALSE, data |-> [j \in 0 .. blocks[k].size - 1 |-> mem[Data(k) + j]]]
    BY LiveReplaced DEF Seen
  <2>3. Seen(i)' = [live |-> Live(i)',
                    data |-> [j \in 0 .. blocks[i].size - 1 |-> mem[Data(i) + j]]]
    BY <1>1, <2>1 DEF Seen
  <2>4. CASE i = k
    BY <1>2, <2>2, <2>3, <2>4
  <2>5. CASE i # k
    BY <1>2, <2>3, <2>5 DEF Seen
  <2> QED
    BY <2>4, <2>5
<1>5. View' = [i \in DOMAIN blocks |->
                 IF i = k THEN [Seen(k) EXCEPT !.live = FALSE] ELSE Seen(i)]
  <2>1. View' = [i \in DOMAIN blocks |-> Seen(i)']
    BY <1>1, ViewIs DEF View, Seen
  <2> QED
    BY <1>4, <2>1
<1>6. View = [i \in DOMAIN blocks |-> Seen(i)]
  BY ViewIs
<1> HIDE DEF Seen
<1>7. [View EXCEPT ![k].live = FALSE]
      = [i \in DOMAIN blocks |-> IF i = k THEN [Seen(k) EXCEPT !.live = FALSE] ELSE Seen(i)]
  BY <1>6
<1> QED
  BY <1>5, <1>7 DEF Abstract!Free

\* So is a memset that does not kill the program.
LEMMA MemsetSteps ==
  ASSUME IInv, NEW k \in DOMAIN blocks, NEW c \in Byte, NEW n \in Lengths,
         Memset(k, c, n), ~dead'
  PROVE  Abstract!Fill(k, c, n)
<1>1. /\ WritesWithin(k) /\ n \in Nat /\ n <= blocks[k].size
      /\ mem' = [a \in Address |-> IF Within(Data(k), n, a) THEN c ELSE mem[a]]
  BY MemsetWrites
<1>2. ASSUME NEW j \in 0 .. blocks[k].size - 1
      PROVE  mem'[Data(k) + j] = IF j < n THEN c ELSE View[k].data[j]
  <2>1. Data(k) + j \in Address /\ View[k].data[j] = mem[Data(k) + j]
    BY DataInMemory, ViewFacts
  <2>2. Within(Data(k), n, Data(k) + j) <=> j < n
    BY <1>1, Places DEF Within
  <2> QED
    BY <1>1, <2>1, <2>2
<1>3. [j \in 0 .. blocks[k].size - 1 |-> mem'[Data(k) + j]]
      = [j \in DOMAIN View[k].data |-> IF j < n THEN c ELSE View[k].data[j]]
  BY <1>2, ViewFacts
<1>4. View' = [View EXCEPT ![k].data =
                 [j \in DOMAIN View[k].data |-> IF j < n THEN c ELSE View[k].data[j]]]
  BY <1>1, <1>3, ViewWritten
<1> QED
  BY <1>4 DEF Abstract!Fill

\* What Store copies, in terms of the cells of the heap.
LEMMA CopiedView ==
  ASSUME IInv, NEW k \in DOMAIN blocks, NEW l \in DOMAIN blocks, NEW n \in Lengths,
         NEW from \in Nat, NEW to \in Nat, Ranges(k, from, l, to, n),
         NEW j \in 0 .. blocks[l].size - 1
  PROVE  (IF to <= j /\ j < to + n THEN View[k].data[from + j - to] ELSE View[l].data[j])
         = IF Within(Data(l) + to, n, Data(l) + j)
           THEN mem[Data(k) + from + (Data(l) + j) - (Data(l) + to)]
           ELSE mem[Data(l) + j]
<1>1. /\ n \in Nat /\ from + n <= blocks[k].size /\ to + n <= blocks[l].size
      /\ Data(k) \in Nat /\ Data(l) \in Nat
      /\ blocks[k].size \in Nat /\ blocks[l].size \in Nat
  BY RangesInBlocks, Places
<1>2. Within(Data(l) + to, n, Data(l) + j) <=> (to <= j /\ j < to + n)
  BY <1>1 DEF Within
<1>3. CASE to <= j /\ j < to + n
  <2>1. PICK i \in 0 .. blocks[k].size - 1 : i = from + j - to
    BY <1>1, <1>3
  <2>2. View[k].data[i] = mem[Data(k) + i]
    BY ViewFacts
  <2>3. Data(k) + from + (Data(l) + j) - (Data(l) + to) = Data(k) + i
    BY <1>1, <2>1
  <2> QED
    BY <1>2, <1>3, <2>1, <2>2, <2>3
<1>4. CASE ~(to <= j /\ j < to + n)
  BY <1>2, <1>4, ViewFacts
<1> QED
  BY <1>3, <1>4

\* So is memcpy, and so are malloc and memmove below.
LEMMA MemcpySteps ==
  ASSUME IInv, NEW k \in DOMAIN blocks, NEW l \in DOMAIN blocks, NEW n \in Lengths,
         NEW from \in Nat, NEW to \in Nat, Memcpy(k, from, l, to, n)
  PROVE  Abstract!Copy(k, from, l, to, n)
<1>1. /\ WritesWithin(l) /\ Ranges(k, from, l, to, n)
      /\ mem' = Copied(mem, Data(k) + from, Data(l) + to, n)
  BY MemcpyWrites DEF Memcpy
<1>2. ASSUME NEW j \in 0 .. blocks[l].size - 1
      PROVE  mem'[Data(l) + j]
             = IF to <= j /\ j < to + n THEN View[k].data[from + j - to]
               ELSE View[l].data[j]
  <2>1. Data(l) + j \in Address
    BY DataInMemory
  <2>2. mem'[Data(l) + j]
        = IF Within(Data(l) + to, n, Data(l) + j)
          THEN mem[Data(k) + from + (Data(l) + j) - (Data(l) + to)]
          ELSE mem[Data(l) + j]
    BY <1>1, <2>1 DEF Copied
  <2> QED
    BY <1>1, <2>2, CopiedView
<1>3. [j \in 0 .. blocks[l].size - 1 |-> mem'[Data(l) + j]]
      = [j \in DOMAIN View[l].data |->
           IF to <= j /\ j < to + n THEN View[k].data[from + j - to] ELSE View[l].data[j]]
  BY <1>2, ViewFacts
<1>4. View' = [View EXCEPT ![l].data =
        [j \in DOMAIN View[l].data |->
           IF to <= j /\ j < to + n THEN View[k].data[from + j - to] ELSE View[l].data[j]]]
  BY <1>1, <1>3, ViewWritten
<1> QED
  BY <1>4 DEF Abstract!Copy, Abstract!Copied

\* malloc hands out zeros: nothing has been written behind the break.
LEMMA MallocSteps ==
  ASSUME IInv, Undamaged, NEW n \in Sizes, Malloc(n)
  PROVE  Abstract!Alloc(n)
<1>1. n \in Nat /\ Obtain(n, "live", mem) /\ mem \in [Address -> Cell]
  BY Constants DEF Malloc, IInv, TypeOK
<1>2. View' = Append([k \in DOMAIN blocks |-> Seen(k)],
                     [live |-> "live" = "live",
                      data |-> [j \in 0 .. n - 1 |-> mem[brk + HeaderSize + j]]])
  BY <1>1, ViewObtained DEF Seen
<1>3. ASSUME NEW j \in 0 .. n - 1 PROVE mem[brk + HeaderSize + j] = Zero
  <2>1. /\ brk + (HeaderSize + n) <= Top /\ brk \in Nat /\ Top \in Nat
        /\ HeaderSize \in Nat
    BY <1>1, Constants DEF Obtain, Sbrk, IInv, TypeOK
  <2>2. brk + HeaderSize + j \in Address /\ brk + HeaderSize + j >= brk
    BY <1>1, <2>1 DEF Address
  <2> QED
    BY <2>2 DEF Undamaged, BehindIsZero
<1>4. [j \in 0 .. n - 1 |-> mem[brk + HeaderSize + j]] = [j \in 0 .. n - 1 |-> Zero]
  BY <1>3
<1> QED
  BY <1>2, <1>4, ViewIs DEF Abstract!Alloc

\* memmove leaves a freed block behind that shows what was copied.
LEMMA MemmoveSteps ==
  ASSUME IInv, Undamaged, NEW k \in DOMAIN blocks, NEW l \in DOMAIN blocks,
         NEW n \in Lengths, NEW from \in Nat, NEW to \in Nat, Memmove(k, from, l, to, n)
  PROVE  Abstract!Move(k, from, l, to, n)
<1> DEFINE tmp == brk + HeaderSize
           m == Copied(Copied(mem, Data(k) + from, tmp, n), tmp, Data(l) + to, n)
<1>1. Ranges(k, from, l, to, n) /\ Obtain(n, "freed", m) /\ n \in Nat
  BY Constants DEF Memmove
<1>2. tmp + n <= Top
  <2>1. brk + (HeaderSize + n) <= Top
    BY <1>1 DEF Obtain, Sbrk
  <2>2. brk \in Nat /\ HeaderSize \in Nat /\ Top \in Nat
    BY Places
  <2> QED
    BY <1>1, <2>1, <2>2
<1>3. tmp = brk + HeaderSize
  OBVIOUS
<1>4. m = Copied(Copied(mem, Data(k) + from, tmp, n), tmp, Data(l) + to, n)
  OBVIOUS
<1> HIDE DEF tmp, m
<1>5. /\ m \in [Address -> Cell]
      /\ \A a \in Address :
           (a < brk /\ ~Within(Data(l) + to, n, a)) => m[a] = mem[a]
      /\ \A j \in 0 .. n - 1 :
           /\ m[Data(l) + to + j] = mem[Data(k) + from + j]
           /\ m[tmp + j] = mem[Data(k) + from + j]
  BY <1>1, <1>2, <1>3, <1>4, MemmoveWrites
<1>6. /\ from + n <= blocks[k].size /\ to + n <= blocks[l].size
      /\ blocks[k].size \in Nat /\ blocks[l].size \in Nat
      /\ Data(k) \in Nat /\ Data(l) \in Nat
  BY <1>1, RangesInBlocks, Places
<1> DEFINE d(i) == [j \in 0 .. blocks[i].size - 1 |-> m[Data(i) + j]]
<1>7. ASSUME NEW i \in DOMAIN blocks PROVE m[blocks[i].at] = mem[blocks[i].at]
  <2>1. /\ blocks[i].at \in Address /\ blocks[i].at < brk
        /\ ~(Data(l) <= blocks[i].at /\ blocks[i].at < End(l))
    BY FlagCell, HeaderInMemory
  <2>2. ~Within(Data(l) + to, n, blocks[i].at)
    BY <1>1, <1>6, <2>1, Places DEF Within
  <2> QED
    BY <1>5, <2>1, <2>2
<1>8. ASSUME NEW i \in DOMAIN blocks, i # l
      PROVE  d(i) = View[i].data
  <2>1. ASSUME NEW j \in 0 .. blocks[i].size - 1 PROVE m[Data(i) + j] = mem[Data(i) + j]
    <3>1. /\ Data(i) + j \in Address /\ Data(i) + j < brk /\ Data(i) + j \in Nat
          /\ ~(blocks[l].at <= Data(i) + j /\ Data(i) + j < End(l))
      BY <1>8, DataInMemory
    <3>2. ~Within(Data(l) + to, n, Data(i) + j)
      BY <1>1, <1>6, <3>1, Places DEF Within
    <3> QED
      BY <1>5, <3>1, <3>2
  <2>2. d(i) = [j \in 0 .. blocks[i].size - 1 |-> mem[Data(i) + j]]
    BY <2>1
  <2>3. View[i] = Seen(i)
    BY ViewFacts
  <2>4. Seen(i).data = [j \in 0 .. blocks[i].size - 1 |-> mem[Data(i) + j]]
    BY DEF Seen
  <2> QED
    BY <2>2, <2>3, <2>4
<1>9. d(l) = [j \in DOMAIN View[l].data |->
                IF to <= j /\ j < to + n THEN View[k].data[from + j - to]
                ELSE View[l].data[j]]
  <2>1. ASSUME NEW j \in 0 .. blocks[l].size - 1
        PROVE  m[Data(l) + j] = IF to <= j /\ j < to + n THEN View[k].data[from + j - to]
                                ELSE View[l].data[j]
    <3>1. Data(l) + j \in Address /\ Data(l) + j < brk /\ View[l].data[j] = mem[Data(l) + j]
      BY DataInMemory, ViewFacts
    <3>2. CASE to <= j /\ j < to + n
      <4>1. PICK i \in 0 .. n - 1 : j = to + i
        BY <1>1, <3>2
      <4>2. /\ Data(l) + to + i = Data(l) + j /\ from + j - to = from + i
            /\ from + i \in 0 .. blocks[k].size - 1
            /\ Data(k) + from + i = Data(k) + (from + i)
        BY <1>1, <1>6, <4>1
      <4>3. View[k].data[from + i] = mem[Data(k) + (from + i)]
        BY <4>2, ViewFacts
      <4>4. m[Data(l) + to + i] = mem[Data(k) + from + i]
        BY <1>5
      <4> QED
        BY <3>2, <4>2, <4>3, <4>4
    <3>3. CASE ~(to <= j /\ j < to + n)
      <4>1. ~Within(Data(l) + to, n, Data(l) + j)
        BY <1>1, <1>6, <3>3 DEF Within
      <4> QED
        BY <1>5, <3>1, <3>3, <4>1
    <3> QED
      BY <3>2, <3>3
  <2> QED
    BY <2>1, ViewFacts
<1>10. [j \in 0 .. n - 1 |-> m[tmp + j]] = [j \in 0 .. n - 1 |-> View[k].data[from + j]]
  <2>1. ASSUME NEW j \in 0 .. n - 1 PROVE m[tmp + j] = View[k].data[from + j]
    <3>1. PICK i \in 0 .. blocks[k].size - 1 : i = from + j
      BY <1>1, <1>6
    <3>2. View[k].data[i] = mem[Data(k) + i] /\ Data(k) + i = Data(k) + from + j
      BY <1>6, <3>1, ViewFacts
    <3> QED
      BY <1>5, <3>1, <3>2
  <2> QED
    BY <2>1
<1>11. View' = Append([i \in DOMAIN blocks |-> [live |-> Live(i), data |-> d(i)]],
                      [live |-> FALSE, data |-> [j \in 0 .. n - 1 |-> m[tmp + j]]])
  <2>1. View' = Append([i \in DOMAIN blocks |-> [live |-> Live(i), data |-> d(i)]],
                      [live |-> "freed" = "live",
                       data |-> [j \in 0 .. n - 1 |-> m[tmp + j]]])
    <3>1. "freed" \in {"live", "freed"} /\ m \in [Address -> Cell] /\ n \in Nat
      BY <1>1, <1>5
    <3>2. \A i \in DOMAIN blocks : m[blocks[i].at] = mem[blocks[i].at]
      BY <1>7
    <3>3. View' = Append([i \in DOMAIN blocks |-> [live |-> Live(i), data |-> d(i)]],
                      [live |-> "freed" = "live",
                       data |-> [j \in 0 .. n - 1 |-> m[brk + HeaderSize + j]]])
      BY <1>1, <3>1, <3>2, ViewObtained, Zenon
    <3> QED
      BY <1>3, <3>3, Zenon
  <2>2. ("freed" = "live") = FALSE
    OBVIOUS
  <2> QED
    BY <2>1, <2>2
<1> DEFINE e == [j \in DOMAIN View[l].data |->
                   IF to <= j /\ j < to + n THEN View[k].data[from + j - to]
                   ELSE View[l].data[j]]
<1>12. ASSUME NEW i \in DOMAIN blocks
       PROVE  [live |-> Live(i), data |-> d(i)]
              = IF i = l THEN [Seen(l) EXCEPT !.data = e] ELSE Seen(i)
  <2>1. CASE i = l
    <3>1. [Seen(l) EXCEPT !.data = e] = [live |-> Live(l), data |-> e]
      BY DataReplaced DEF Seen
    <3> QED
      BY <1>9, <2>1, <3>1
  <2>2. CASE i # l
    <3>1. d(i) = View[i].data /\ View[i] = Seen(i)
      BY <1>8, <2>2, ViewFacts
    <3>2. Seen(i) = [live |-> Live(i), data |-> Seen(i).data]
      BY DEF Seen
    <3> HIDE DEF d
    <3> QED
      BY <2>2, <3>1, <3>2
  <2> QED
    BY <2>1, <2>2
<1> HIDE DEF d, e
<1>13. [i \in DOMAIN blocks |-> [live |-> Live(i), data |-> d(i)]]
       = [View EXCEPT ![l].data = e]
  <2>1. View = [i \in DOMAIN blocks |-> Seen(i)]
    BY ViewIs
  <2>2. [View EXCEPT ![l].data = e]
        = [i \in DOMAIN blocks |-> IF i = l THEN [Seen(l) EXCEPT !.data = e] ELSE Seen(i)]
    BY <2>1
  <2> QED
    BY <1>12, <2>2
<1> QED
  BY <1>10, <1>11, <1>13 DEF e, Abstract!Move, Abstract!Copied

\* Where the ranges of an empty copy are does not matter, so Store takes them from
\* the start of the blocks.
LEMMA NothingCopied ==
  ASSUME NEW m \in [Address -> Cell], NEW from \in Nat, NEW to \in Nat
  PROVE  Copied(m, from, to, 0) = m
<1>1. \A a \in Address : ~Within(to, 0, a)
  BY DEF Within, Address
<1> QED
  BY <1>1 DEF Copied

\* An empty copy might as well be from and to the start of the blocks.
LEMMA EmptyRanges ==
  ASSUME IInv, NEW k \in DOMAIN blocks, NEW l \in DOMAIN blocks, 0 \in Lengths,
         NEW from \in Nat, NEW to \in Nat
  PROVE  /\ Memcpy(k, from, l, to, 0) => Memcpy(k, 0, l, 0, 0)
         /\ Memmove(k, from, l, to, 0) => Memmove(k, 0, l, 0, 0)
<1>1. /\ Data(k) \in Nat /\ Data(l) \in Nat /\ blocks[k].size \in Nat
      /\ blocks[l].size \in Nat /\ brk + HeaderSize \in Nat
  BY Places
<1>2. Data(k) + from \in Nat /\ Data(k) + 0 \in Nat /\ Data(l) + to \in Nat
      /\ Data(l) + 0 \in Nat
  BY <1>1
<1>3. mem \in [Address -> Cell]
  BY DEF IInv, TypeOK
<1>4. Ranges(k, 0, l, 0, 0)
  BY <1>1 DEF Ranges
<1>5. /\ Copied(mem, Data(k) + from, Data(l) + to, 0) = mem
      /\ Copied(mem, Data(k) + 0, Data(l) + 0, 0) = mem
      /\ Copied(mem, Data(k) + from, brk + HeaderSize, 0) = mem
      /\ Copied(mem, Data(k) + 0, brk + HeaderSize, 0) = mem
      /\ Copied(mem, brk + HeaderSize, Data(l) + to, 0) = mem
      /\ Copied(mem, brk + HeaderSize, Data(l) + 0, 0) = mem
  BY <1>1, <1>2, <1>3, NothingCopied
<1> QED
  BY <1>4, <1>5 DEF Memcpy, Memmove

\* The offsets Store allows for a copy that is not empty.
LEMMA OffsetsAllowed ==
  ASSUME IInv, NEW k \in DOMAIN blocks, NEW l \in DOMAIN blocks, NEW n \in Lengths,
         NEW from \in Nat, NEW to \in Nat, Ranges(k, from, l, to, n), n # 0 \/ (from = 0 /\ to = 0)
  PROVE  /\ from \in Abstract!Bytes(k) \union {0} /\ to \in Abstract!Bytes(l) \union {0}
         /\ from .. from + n - 1 \subseteq Abstract!Bytes(k)
         /\ to .. to + n - 1 \subseteq Abstract!Bytes(l)
<1>1. /\ n \in Nat /\ from + n <= blocks[k].size /\ to + n <= blocks[l].size
      /\ blocks[k].size \in Nat /\ blocks[l].size \in Nat
  BY RangesInBlocks, Places
<1>2. /\ Abstract!Bytes(k) = 0 .. blocks[k].size - 1
      /\ Abstract!Bytes(l) = 0 .. blocks[l].size - 1
  BY ViewFacts DEF Abstract!Bytes
<1> QED
  BY <1>1, <1>2

\* A copy is a step of Store.
LEMMA CopyAllowed ==
  ASSUME IInv, Undamaged, NEW k \in DOMAIN blocks, NEW l \in DOMAIN blocks,
         NEW n \in Lengths, NEW from \in Nat, NEW to \in Nat,
         n # 0 \/ (from = 0 /\ to = 0),
         Memcpy(k, from, l, to, n) \/ Memmove(k, from, l, to, n)
  PROVE  Abstract!Works
<1>1. Ranges(k, from, l, to, n)
  BY DEF Memcpy, Memmove
<1>2. /\ from \in Abstract!Bytes(k) \union {0} /\ to \in Abstract!Bytes(l) \union {0}
      /\ from .. from + n - 1 \subseteq Abstract!Bytes(k)
      /\ to .. to + n - 1 \subseteq Abstract!Bytes(l)
  BY <1>1, OffsetsAllowed
<1>3. Abstract!Copy(k, from, l, to, n) \/ Abstract!Move(k, from, l, to, n)
  BY MemcpySteps, MemmoveSteps
<1>4. k \in DOMAIN View /\ l \in DOMAIN View
  BY ViewFacts
<1> QED
  BY <1>2, <1>3, <1>4 DEF Abstract!Works

\* No blocks, nothing seen.
LEMMA ImplementsInit == Init => Abstract!Init
<1> SUFFICES ASSUME Init PROVE View = << >> /\ (~dead) = TRUE
  BY DEF Abstract!Init
<1>1. DOMAIN blocks = {} /\ dead = FALSE
  BY DEF Init
<1> QED
  BY <1>1, ViewFacts DEF View

\* Every call that the program survives is a step of Store.
LEMMA WorkingSteps ==
  ASSUME IInv, HeapIntact, ~dead', Next
  PROVE  Abstract!Works
<1>1. Undamaged
  BY DEF HeapIntact, Next
<1>2. ASSUME NEW n \in Sizes, Malloc(n) PROVE Abstract!Works
  BY <1>1, <1>2, MallocSteps DEF Abstract!Works
<1>3. ASSUME NEW k \in DOMAIN blocks, Free(k) PROVE Abstract!Works
  BY <1>3, FreeSteps, ViewFacts DEF Abstract!Works
<1>4. ASSUME NEW k \in DOMAIN blocks, NEW c \in Byte, NEW n \in Lengths, Memset(k, c, n)
      PROVE  Abstract!Works
  BY <1>4, MemsetSteps, ViewFacts DEF Abstract!Works
<1>5. ASSUME NEW k \in DOMAIN blocks, NEW l \in DOMAIN blocks, NEW n \in Lengths,
             NEW from \in Nat, NEW to \in Nat,
             Memcpy(k, from, l, to, n) \/ Memmove(k, from, l, to, n)
      PROVE  Abstract!Works
  <2>1. CASE n # 0
    BY <1>1, <1>5, <2>1, CopyAllowed
  <2>2. CASE n = 0
    <3>1. Memcpy(k, 0, l, 0, n) \/ Memmove(k, 0, l, 0, n)
      BY <1>5, <2>2, EmptyRanges
    <3> QED
      BY <1>1, <3>1, CopyAllowed
  <2> QED
    BY <2>1, <2>2
<1>6. \A k \in DOMAIN blocks : \A x \in 0 .. blocks[k].size : x \in Nat
  OBVIOUS
<1> QED
  BY <1>2, <1>3, <1>4, <1>5, <1>6 DEF Next

\* A call that the program does not survive is a fill that Store calls risky.
LEMMA FatalSteps ==
  ASSUME IInv, dead', Next
  PROVE  Abstract!Crash
<1> DEFINE Filled == \E k \in DOMAIN blocks : \E c \in Byte : \E n \in Lengths : Memset(k, c, n)
<1>1. ASSUME NEW n \in Sizes, Malloc(n) PROVE FALSE
  BY <1>1 DEF Next, Malloc
<1>2. ASSUME NEW k \in DOMAIN blocks, Free(k) PROVE FALSE
  BY <1>2 DEF Next, Free
<1>3. ASSUME NEW k \in DOMAIN blocks, NEW l \in DOMAIN blocks, NEW n \in Lengths,
             NEW from, NEW to, Memcpy(k, from, l, to, n) \/ Memmove(k, from, l, to, n)
      PROVE  FALSE
  BY <1>3 DEF Next, Memcpy, Memmove
<1>4. Filled
  BY <1>1, <1>2, <1>3, Zenon DEF Next
<1>5. PICK k \in DOMAIN blocks : \E c \in Byte : \E n \in Lengths : Memset(k, c, n)
  BY <1>4
<1>6. PICK n \in Lengths : \E c \in Byte : Memset(k, c, n)
  BY <1>5
<1>7. n \in Short
  BY <1>6, FatalIsShort
<1>8. n \in Nat /\ n <= blocks[k].size /\ blocks[k].size \in Nat
  BY <1>6, Places, Constants DEF Memset
<1>9. Abstract!Bytes(k) = 0 .. blocks[k].size - 1 /\ k \in DOMAIN View
  BY ViewFacts DEF Abstract!Bytes
<1>10. 0 .. n - 1 \subseteq Abstract!Bytes(k)
  BY <1>8, <1>9
<1> QED
  BY <1>7, <1>9, <1>10 DEF Abstract!Crash

\* Every call is a step of Store.
LEMMA ImplementsNext ==
  ASSUME IInv, HeapIntact, [Next]_vars
  PROVE  [Abstract!Next]_(Abstract!vars)
<1>1. CASE UNCHANGED vars
  BY <1>1 DEF vars, View, Live, Data, Abstract!vars
<1>2. CASE Next /\ ~dead'
  <2>1. Abstract!Works /\ ~dead
    BY <1>2, WorkingSteps DEF Next
  <2>2. (~dead') = (~dead)
    BY <1>2, <2>1
  <2> QED
    BY <2>1, <2>2 DEF Abstract!Next
<1>3. CASE Next /\ dead'
  <2>1. Abstract!Crash /\ ~dead
    BY <1>3, FatalSteps DEF Next
  <2>2. (~dead') = FALSE
    BY <1>3
  <2> QED
    BY <2>1, <2>2 DEF Abstract!Next
<1> QED
  BY <1>1, <1>2, <1>3

\* memory.c and memset implement what a program expects of them: blocks that have
\* nothing to do with each other, with operations that change only what they are
\* asked to change - for any sizes and lengths, and with no other risk than a fill
\* of fewer than Register - 1 bytes. What Store shows is read off memory by View.
THEOREM Implements == Spec => ImplementsStore
<1>1. Init => IInv /\ HeapIntact
  BY IInvInit, IntactInit
<1>2. IInv /\ HeapIntact /\ [Next]_vars => IInv' /\ HeapIntact'
  BY IInvNext, IntactNext
<1>3. IInv /\ HeapIntact /\ [Next]_vars => [Abstract!Next]_(Abstract!vars)
  BY ImplementsNext
<1>4. Init => Abstract!Init
  BY ImplementsInit
<1> QED
  BY <1>1, <1>2, <1>3, <1>4, PTL DEF Spec, ImplementsStore, Abstract!Spec

\* The type of the heap's state, for any sizes.
THEOREM TypeCorrect == Spec => []TypeOK
<1>1. IInv => TypeOK
  BY DEF IInv
<1> QED
  BY <1>1, Invariant, PTL

=============================================================================
