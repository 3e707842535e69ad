---------------------------- MODULE ShellProofs -----------------------------
(***************************************************************************)
(* Proofs about Shell, for any set of strings, any length of lines and any *)
(* size of the descriptor table. What a line may do to the table is pinned *)
(* down relative to the table as it was when the line was typed: run()     *)
(* only fills descriptors that were free then, so the ones it closes again *)
(* and the ones it hands to the child are its own.                         *)
(*                                                                         *)
(* The second part is about lines whose operators stand alone: while one   *)
(* is scanned, the array still shows it but for the operators cut out, the *)
(* targets are the last files named so far, and the descriptors that are   *)
(* gone are counted against the operators met.                             *)
(***************************************************************************)
EXTENDS Shell, FiniteSetTheorems, TLAPS

\* The last slot of the array is never used for an argument.
ArgsEnd == args[MaxTokens] = Null

\* The shell was on its terminal when the line was typed.
StartedOnTerminal == \A d \in 0 .. 2 : before[d] = Terminal

Scanning == pc \in {"scan", "lookup"}

\* save_out and save_in were free.
SavedIsOwn ==
  Scanning => \A d \in {saved.out, saved.in} : d # Failed => before[d] = Closed

\* What `out` and `in` refer to, if opening it did not fail.
OutSound == target.out # Failed =>
  fd[target.out] = Terminal \/ \E f \in written : fd[target.out] = Opened("w", f)
InSound == target.in # Failed =>
  fd[target.in] = Terminal \/ fd[target.in].mode = "r"
TargetsSound == Scanning => OutSound /\ InSound

IInv ==
  /\ TypeOK /\ ArgsEnd /\ StartedOnTerminal /\ NothingElseClosed
  /\ SavedIsOwn /\ TargetsSound /\ StdioSound

-----------------------------------------------------------------------------
(* Descriptors *)

\* What a descriptor may refer to, told apart.
LEMMA Kinds ==
  /\ Terminal \in Descriptions /\ Closed \in Descriptions /\ Terminal # Closed
  /\ PasswordFile \in Descriptions
  /\ \A f \in Strings, m \in {"r", "w"} :
       Opened(m, f) \in Descriptions /\ Opened(m, f) # Closed
  /\ \A f \in Strings : Opened("r", f).mode = "r"
  BY DEF Terminal, Closed, Opened, PasswordFile, Descriptions

\* A descriptor the kernel returns was free.
LEMMA ReturnsFree ==
  ASSUME NEW t, NEW d, Returns(t, d)
  PROVE  d = Failed \/ (d \in Fd /\ t[d] = Closed)
  BY DEF Returns, FreeFds

\* The table stays a table when a descriptor is filled.
LEMMA InstallType ==
  ASSUME NEW t \in [Fd -> Descriptions], NEW d \in FdOrFailed, NEW x \in Descriptions
  PROVE  Install(t, d, x) \in [Fd -> Descriptions]
  BY DEF Install

\* Only the descriptor returned is filled.
LEMMA InstallValue ==
  ASSUME NEW t \in [Fd -> Descriptions], NEW d \in FdOrFailed, NEW x
  PROVE  \A e \in Fd : Install(t, d, x)[e] = IF e = d THEN x ELSE t[e]
  BY DEF Install, Fd, FdOrFailed, Failed

\* Opening something leaves what is open alone.
LEMMA InstallKeeps ==
  ASSUME NEW t \in [Fd -> Descriptions], NEW d \in FdOrFailed, NEW x, Returns(t, d)
  PROVE  \A e \in Fd : t[e] # Closed => Install(t, d, x)[e] = t[e]
  BY ReturnsFree, InstallValue, MaxFdAssumption DEF Fd, FdOrFailed, Failed

\* The table stays a table when the saved descriptors are closed.
LEMMA CloseSavedType ==
  ASSUME TypeOK
  PROVE  CloseSaved(fd) \in [Fd -> Descriptions]
  BY Kinds DEF TypeOK, CloseSaved, Close, Install

\* Closing the saved descriptors touches nothing that was open before.
LEMMA CloseSavedKeeps ==
  ASSUME IInv, Scanning
  PROVE  \A d \in Fd : before[d] # Closed => CloseSaved(fd)[d] = before[d]
<1> SUFFICES ASSUME NEW d \in Fd, before[d] # Closed
             PROVE  CloseSaved(fd)[d] = before[d]
  OBVIOUS
<1>1. d # saved.out /\ d # saved.in
  BY DEF IInv, SavedIsOwn, Fd, FdOrFailed, Failed
<1>2. fd[d] = before[d]
  BY DEF IInv, NothingElseClosed
<1>3. CloseSaved(fd)[d] = fd[d]
  BY <1>1 DEF IInv, TypeOK, CloseSaved, Close, Install
<1> QED
  BY <1>2, <1>3

-----------------------------------------------------------------------------
(* The argument array *)

\* The words of a line have the kind of words, and so have their tails.
LEMMA TailsType ==
  ASSUME NEW n \in Nat, NEW new \in [1 .. n -> Token]
  PROVE  Tails(new) \subseteq Strings
<1>1. \A j \in 1 .. n : new[j] \in Strings
  BY TokensAssumption
<1>2. \A r \in Strings : r.word \in Word \union {NoWord}
  BY DEF Strings
<1>3. \A w \in Word \union {NoWord} : Plain(w) \in Strings
  BY DEF Plain, Strings
<1> QED
  BY <1>1, <1>2, <1>3 DEF Tails

\* So is what a slot of the array points to.
LEMMA TextType ==
  ASSUME TypeOK, NEW k \in Nat
  PROVE  Text(k) \in Strings \union {Null}
  BY TokensAssumption DEF Text, TypeOK, Slot

\* The array main() fills ends with a NULL.
LEMMA TextEnd ==
  ASSUME TypeOK, ArgsEnd, NEW k \in Nat, k >= MaxTokens
  PROVE  Text(k) = Null
  BY TokensAssumption DEF Text, ArgsEnd

\* Null is no operator and no word.
LEMMA NullIsNone == Null.op = "null" /\ Null.op \notin {"", ">", "<"}
  BY DEF Null

\* An operand is a name.
LEMMA OperandType ==
  ASSUME TypeOK, ArgsEnd, Text(i).op \in {">", "<"}, Operand # Null
  PROVE  Operand \in Strings /\ i \in 0 .. MaxTokens - 1
<1>0. i \in Nat /\ i + 1 \in Nat
  BY TokensAssumption DEF TypeOK
<1>1. Text(i) \in Strings
  <2>1. Text(i) # Null
    BY NullIsNone
  <2> QED
    BY <1>0, <2>1, TextType
<1>2. i \in 0 .. MaxTokens - 1
  <2>1. ~(i >= MaxTokens)
    BY <1>0, TextEnd, NullIsNone
  <2> QED
    BY <1>0, <2>1, TokensAssumption
<1>3. CASE Text(i).word # NoWord
  <2>1. Text(i).word \in Word
    BY <1>1, <1>3 DEF Strings
  <2> QED
    BY <1>2, <1>3, <2>1 DEF Operand, Plain, Strings
<1>4. CASE Text(i).word = NoWord
  BY <1>0, <1>2, <1>4, TextType DEF Operand
<1> QED
  BY <1>3, <1>4

-----------------------------------------------------------------------------
(* The invariant *)

\* The shell starts on its terminal.
LEMMA IInvInit == Init => IInv
<1> SUFFICES ASSUME Init PROVE IInv
  OBVIOUS
<1>1. fd \in [Fd -> Descriptions]
  BY Kinds DEF Init
<1>2. TypeOK
  BY <1>1, Kinds, TokensAssumption DEF Init, TypeOK, NoChild, Slot
<1>3. ArgsEnd /\ StartedOnTerminal /\ NothingElseClosed
  BY MaxFdAssumption, TokensAssumption DEF Init, ArgsEnd, StartedOnTerminal,
    NothingElseClosed, Slot, Fd
<1>4. SavedIsOwn /\ TargetsSound /\ StdioSound
  BY DEF Init, SavedIsOwn, TargetsSound, StdioSound, Scanning
<1> QED
  BY <1>2, <1>3, <1>4 DEF IInv

\* A new line finds the table as it is.
LEMMA ReadLineSafe ==
  ASSUME IInv, ReadLine
  PROVE  IInv'
<1> PICK n \in 0 .. MaxTokens : \E new \in [1 .. n -> Token] :
      \E over \in SUBSET {k \in Slot : k > n /\ args[k] # Null} :
      \E text \in [over -> Tails(new)] :
      /\ line' = new
      /\ args' = [k \in Slot |-> IF k < n THEN new[k + 1]
                                 ELSE IF k = n THEN Null
                                 ELSE IF k \in over THEN text[k] ELSE args[k]]
  BY DEF ReadLine
<1> PICK new \in [1 .. n -> Token] :
      \E over \in SUBSET {k \in Slot : k > n /\ args[k] # Null} :
      \E text \in [over -> Tails(new)] :
      /\ line' = new
      /\ args' = [k \in Slot |-> IF k < n THEN new[k + 1]
                                 ELSE IF k = n THEN Null
                                 ELSE IF k \in over THEN text[k] ELSE args[k]]
  OBVIOUS
<1> PICK over \in SUBSET {k \in Slot : k > n /\ args[k] # Null} :
      \E text \in [over -> Tails(new)] :
      /\ line' = new
      /\ args' = [k \in Slot |-> IF k < n THEN new[k + 1]
                                 ELSE IF k = n THEN Null
                                 ELSE IF k \in over THEN text[k] ELSE args[k]]
  OBVIOUS
<1> PICK text \in [over -> Tails(new)] :
      /\ line' = new
      /\ args' = [k \in Slot |-> IF k < n THEN new[k + 1]
                                 ELSE IF k = n THEN Null
                                 ELSE IF k \in over THEN text[k] ELSE args[k]]
  OBVIOUS
<1>1. line' \in Seq(Token) /\ Len(line') <= MaxTokens
  OBVIOUS
<1>2. args' \in [Slot -> Strings \union {Null}] /\ args'[MaxTokens] = Null
  <2>1. args \in [Slot -> Strings \union {Null}] /\ args[MaxTokens] = Null
    BY DEF IInv, TypeOK, ArgsEnd
  <2>2. MaxTokens \in Slot /\ MaxTokens \notin over /\ n \in Nat /\ n <= MaxTokens
    BY <2>1, TokensAssumption DEF Slot
  <2>3. \A k \in over : text[k] \in Strings
    BY <2>2, TailsType
  <2>4. \A k \in Slot : k < n => new[k + 1] \in Strings
    BY TokensAssumption DEF Slot
  <2>5. \A k \in Slot : args'[k] \in Strings \union {Null}
    BY <2>1, <2>2, <2>3, <2>4
  <2>6. ~(MaxTokens < n)
    BY <2>2 DEF Slot
  <2>7. args'[MaxTokens] = Null
    BY <2>1, <2>2, <2>6
  <2> QED
    BY <2>5, <2>7
<1>3. StartedOnTerminal'
  BY MaxFdAssumption DEF ReadLine, IInv, StartedOnTerminal, NothingElseClosed,
    Terminal, Closed, Fd
<1>4. TypeOK'
  BY <1>1, <1>2, Kinds, TokensAssumption DEF ReadLine, IInv, TypeOK, NoChild
<1>5. NothingElseClosed' /\ SavedIsOwn' /\ TargetsSound' /\ StdioSound'
  BY DEF ReadLine, IInv, NothingElseClosed, SavedIsOwn, TargetsSound,
    StdioSound, Scanning
<1> QED
  BY <1>2, <1>3, <1>4, <1>5 DEF IInv, ArgsEnd

\* save_out and save_in are descriptors that were free.
LEMMA SaveSafe ==
  ASSUME IInv, SaveDescriptors
  PROVE  IInv'
<1> PICK o \in FdOrFailed, d \in FdOrFailed :
      /\ Returns(fd, o) /\ Returns(Install(fd, o, fd[1]), d)
      /\ saved' = [out |-> o, in |-> d]
      /\ fd' = Install(Install(fd, o, fd[1]), d, fd[0])
  BY DEF SaveDescriptors
<1> DEFINE dup == Install(fd, o, fd[1])
<1>1. fd \in [Fd -> Descriptions] /\ fd[0] = Terminal /\ fd[1] = Terminal
  BY MaxFdAssumption DEF IInv, TypeOK, StartedOnTerminal, NothingElseClosed,
    Terminal, Closed, Fd
<1>2. dup \in [Fd -> Descriptions] /\ fd' \in [Fd -> Descriptions]
  BY <1>1, InstallType, Kinds
<1>3. \A e \in Fd : fd[e] # Closed => dup[e] = fd[e]
  BY <1>1, InstallKeeps
<1>4. \A e \in Fd : fd[e] # Closed => fd'[e] = fd[e]
  <2>1. \A e \in Fd : dup[e] # Closed => fd'[e] = dup[e]
    BY <1>2, InstallKeeps
  <2> QED
    BY <1>3, <2>1
<1>5. /\ o # Failed => fd[o] = Closed
      /\ d # Failed => fd[d] = Closed
  <2>1. o # Failed => fd[o] = Closed
    BY ReturnsFree
  <2>2. d # Failed => d \in Fd /\ dup[d] = Closed
    BY ReturnsFree
  <2> QED
    BY <1>3, <2>1, <2>2
<1>6. NothingElseClosed'
  BY <1>4 DEF IInv, NothingElseClosed, SaveDescriptors
<1>7. SavedIsOwn'
  BY <1>5 DEF IInv, NothingElseClosed, SavedIsOwn, SaveDescriptors, FdOrFailed
<1>8. TargetsSound'
  BY <1>1, <1>4, Kinds, MaxFdAssumption DEF SaveDescriptors, TargetsSound,
    OutSound, InSound, Fd
<1>9. TypeOK'
  BY <1>2, MaxFdAssumption, TokensAssumption DEF IInv, TypeOK,
    SaveDescriptors, Slot, Fd, FdOrFailed
<1>10. ArgsEnd' /\ StartedOnTerminal' /\ StdioSound'
  BY DEF IInv, ArgsEnd, StartedOnTerminal, StdioSound, SaveDescriptors
<1> QED
  BY <1>6, <1>7, <1>8, <1>9, <1>10 DEF IInv

\* Cutting an operator out keeps the array and its last NULL.
LEMMA SkipType ==
  ASSUME TypeOK, ArgsEnd, Skip, i \in 0 .. MaxTokens - 1
  PROVE  /\ args' \in [Slot -> Strings \union {Null}] /\ ArgsEnd'
         /\ i' \in 0 .. MaxTokens + 1
<1>1. args' \in [Slot -> Strings \union {Null}]
  BY DEF Skip, TypeOK
<1>2. ArgsEnd'
  BY DEF Skip, TypeOK, ArgsEnd
<1>3. i' \in 0 .. MaxTokens + 1
  BY TokensAssumption DEF Skip
<1> QED
  BY <1>1, <1>2, <1>3

\* `out` and `in` are descriptors or -1.
LEMMA TargetType ==
  ASSUME TypeOK, NEW d \in FdOrFailed
  PROVE  /\ [target EXCEPT !.out = d] \in [out : FdOrFailed, in : FdOrFailed]
         /\ [target EXCEPT !.in = d] \in [out : FdOrFailed, in : FdOrFailed]
         /\ [target EXCEPT !.out = d].out = d
         /\ [target EXCEPT !.out = d].in = target.in
         /\ [target EXCEPT !.in = d].in = d
         /\ [target EXCEPT !.in = d].out = target.out
  BY DEF TypeOK

\* `>` closes only an `out` opened for this line and opens a free one.
LEMMA RedirectOutSafe ==
  ASSUME IInv, RedirectOut
  PROVE  IInv'
<1>0. Text(i).op = ">" /\ Operand # Null
  BY DEF RedirectOut
<1> PICK f : f = Operand /\
      \/ /\ f \in Unwritable
         /\ target' = [target EXCEPT !.out = Failed]
         /\ UNCHANGED <<fd, written>>
      \/ /\ f \notin Unwritable
         /\ \E c, o \in FdOrFailed :
              LET created == Install(fd, c, Opened("w", f)) IN
              /\ Returns(fd, c) /\ Returns(created, o)
              /\ target' = [target EXCEPT !.out = o]
              /\ fd' = Install(created, o, Opened("w", f))
              /\ written' = IF c = Failed THEN written ELSE written \union {f}
  BY DEF RedirectOut
<1>1. f \in Strings /\ i \in 0 .. MaxTokens - 1
  BY <1>0, OperandType DEF IInv
<1>2. Skip /\ pc = "scan"
  BY DEF RedirectOut
<1>3. ASSUME UNCHANGED <<fd, written>>,
             target' = [target EXCEPT !.out = Failed]
      PROVE  IInv'
  <2>1. i \in 0 .. MaxTokens - 1
    BY <1>1
  <2>2. target' \in [out : FdOrFailed, in : FdOrFailed]
    BY <1>3, TargetType DEF IInv, FdOrFailed
  <2>3. TypeOK' /\ ArgsEnd'
    BY <1>2, <1>3, <2>1, <2>2, SkipType DEF Skip, IInv, TypeOK
  <2>4. TargetsSound'
    BY <1>2, <1>3 DEF Skip, IInv, TypeOK, TargetsSound, OutSound, InSound, Scanning
  <2>5. StartedOnTerminal' /\ NothingElseClosed' /\ SavedIsOwn' /\ StdioSound'
    BY <1>2, <1>3 DEF Skip, IInv, StartedOnTerminal, NothingElseClosed, SavedIsOwn,
      StdioSound, Scanning
  <2> QED
    BY <2>3, <2>4, <2>5 DEF IInv
<1>4. ASSUME NEW c \in FdOrFailed, NEW o \in FdOrFailed,
             Returns(fd, c), Returns(Install(fd, c, Opened("w", f)), o),
             target' = [target EXCEPT !.out = o],
             fd' = Install(Install(fd, c, Opened("w", f)), o, Opened("w", f)),
             written' = IF c = Failed THEN written ELSE written \union {f}
      PROVE  IInv'
  <2> DEFINE x == Opened("w", f)
             created == Install(fd, c, x)
  <2>1. f \in Strings /\ i \in 0 .. MaxTokens - 1
    BY <1>1
  <2>2. x \in Descriptions
    BY <2>1, Kinds
  <2>3. /\ fd \in [Fd -> Descriptions]
        /\ created \in [Fd -> Descriptions] /\ fd' \in [Fd -> Descriptions]
    BY <1>4, <2>2, InstallType DEF IInv, TypeOK
  <2> HIDE DEF x
  <2>4. \A e \in Fd : fd[e] # Closed => fd'[e] = fd[e]
    <3>1. \A e \in Fd : fd[e] # Closed => created[e] = fd[e]
      BY <1>4, <2>3, InstallKeeps DEF x
    <3>2. \A e \in Fd : created[e] # Closed => fd'[e] = created[e]
      BY <1>4, <2>3, InstallKeeps DEF x
    <3> QED
      BY <3>1, <3>2
  <2>5. o # Failed => fd'[o] = x /\ f \in written'
    <3>1. c = Failed => created = fd
      BY DEF Install
    <3>2. c = Failed => o = Failed
      BY <1>4, <3>1 DEF Returns, x, FreeFds, Fd
    <3>3. o # Failed => fd'[o] = x
      BY <1>4, <2>3, <2>2, InstallValue DEF x, FdOrFailed
    <3> QED
      BY <1>4, <3>2, <3>3
  <2>6. /\ target' \in [out : FdOrFailed, in : FdOrFailed]
        /\ target'.out = o /\ target'.in = target.in /\ written' \subseteq Strings
    BY <1>4, <2>1, TargetType DEF IInv, TypeOK
  <2>7. TypeOK' /\ ArgsEnd'
    BY <1>2, <2>1, <2>3, <2>6, SkipType DEF Skip, IInv, TypeOK
  <2>8. NothingElseClosed'
    BY <1>2, <2>4 DEF Skip, IInv, NothingElseClosed
  <2>9. OutSound'
    BY <2>5, <2>6 DEF OutSound, x
  <2>10. InSound'
    <3>1. target'.in = target.in /\ target.in \in FdOrFailed
      BY <2>6 DEF IInv, TypeOK
    <3>2. target.in # Failed => fd[target.in] # Closed
      BY <1>2 DEF IInv, TargetsSound, Scanning, InSound, Terminal, Closed
    <3>3. target.in # Failed => fd'[target.in] = fd[target.in]
      BY <2>4, <3>1, <3>2 DEF FdOrFailed
    <3> QED
      BY <1>2, <3>1, <3>3 DEF IInv, TargetsSound, Scanning, InSound
  <2>11. StartedOnTerminal' /\ SavedIsOwn' /\ TargetsSound' /\ StdioSound'
    BY <1>2, <2>9, <2>10 DEF Skip, IInv, StartedOnTerminal, SavedIsOwn,
      TargetsSound, StdioSound, Scanning
  <2> QED
    BY <2>7, <2>8, <2>11 DEF IInv
<1> QED
  BY <1>3, <1>4

\* `<` closes only an `in` opened for this line and opens a free one.
LEMMA RedirectInSafe ==
  ASSUME IInv, RedirectIn
  PROVE  IInv'
<1>1. Text(i).op = "<" /\ Operand # Null
  BY DEF RedirectIn
<1>2. Skip /\ pc = "scan" /\ written' = written
  BY DEF RedirectIn
<1> PICK f : f = Operand
  OBVIOUS
<1> PICK d \in FdOrFailed :
        /\ Returns(fd, d) \/ d = Failed
        /\ target' = [target EXCEPT !.in = d]
        /\ fd' = Install(fd, d, Opened("r", f))
  BY DEF RedirectIn
<1>3. f \in Strings /\ i \in 0 .. MaxTokens - 1
  BY <1>1, OperandType DEF IInv
<1>4. Opened("r", f) \in Descriptions /\ Opened("r", f).mode = "r"
  BY <1>3, Kinds
<1>5. fd \in [Fd -> Descriptions] /\ fd' \in [Fd -> Descriptions]
  BY <1>4, InstallType DEF IInv, TypeOK
<1>6. \A e \in Fd : fd[e] # Closed => fd'[e] = fd[e]
  <2>1. CASE d = Failed
    BY <2>1 DEF Install
  <2>2. CASE d # Failed
    BY <2>2, <1>5, InstallKeeps
  <2> QED
    BY <2>1, <2>2
<1>7. /\ target' \in [out : FdOrFailed, in : FdOrFailed]
      /\ target'.in = d /\ target'.out = target.out
  BY TargetType DEF IInv
<1>8. TypeOK' /\ ArgsEnd'
  BY <1>2, <1>3, <1>5, <1>7, SkipType DEF Skip, IInv, TypeOK
<1>9. NothingElseClosed'
  BY <1>2, <1>6 DEF Skip, IInv, NothingElseClosed
<1>10. InSound'
  <2>1. d # Failed => fd'[d] = Opened("r", f)
    BY <1>4, <1>5, InstallValue DEF FdOrFailed
  <2> QED
    BY <1>4, <1>7, <2>1 DEF InSound
<1>11. OutSound'
  <2>1. target.out # Failed => target.out \in Fd
    BY DEF IInv, TypeOK, FdOrFailed
  <2>2. OutSound
    BY <1>2 DEF IInv, TargetsSound, Scanning
  <2>3. \A g : Opened("w", g) # Closed
    BY DEF Opened, Closed
  <2>4. target.out # Failed => fd[target.out] # Closed
    BY <2>2, <2>3, Kinds DEF OutSound
  <2>5. target.out # Failed => fd'[target.out] = fd[target.out]
    BY <2>1, <2>4, <1>6
  <2> QED
    BY <1>2, <1>7, <2>2, <2>5 DEF OutSound
<1>12. StartedOnTerminal' /\ SavedIsOwn' /\ TargetsSound' /\ StdioSound'
  BY <1>2, <1>10, <1>11 DEF Skip, IInv, StartedOnTerminal, SavedIsOwn,
    TargetsSound, StdioSound, Scanning
<1> QED
  BY <1>8, <1>9, <1>12 DEF IInv

\* The child gets what the targets refer to; the shell closes what is its own.
LEMMA StartSafe ==
  ASSUME IInv, Start
  PROVE  IInv'
<1> PICK n \in Slot :
      child' = [argc |-> n, stdin |-> Dup2(target.in, 0),
                stdout |-> Dup2(target.out, 1)]
  BY DEF Start
<1>1. /\ pc = "lookup" /\ pc' = "wait" /\ fd' = CloseSaved(fd) /\ Scanning
      /\ UNCHANGED <<args, i, saved, target, line, before, written>>
  BY DEF Start, Scanning
<1>2. fd[0] = Terminal /\ fd[1] = Terminal
  BY MaxFdAssumption DEF IInv, NothingElseClosed, StartedOnTerminal, Terminal,
    Closed, Fd
<1>3. OutSound /\ InSound
  BY <1>1 DEF IInv, TargetsSound
<1>4. /\ Dup2(target.in, 0) \in Descriptions
      /\ Dup2(target.out, 1) \in Descriptions
  BY MaxFdAssumption DEF Dup2, IInv, TypeOK, Fd, FdOrFailed
<1>5. StdioSound'
  <2>1. /\ child'.stdin = Dup2(target.in, 0)
        /\ child'.stdout = Dup2(target.out, 1)
    OBVIOUS
  <2>2. Dup2(target.in, 0) = Terminal \/ Dup2(target.in, 0).mode = "r"
    BY <1>2, <1>3 DEF Dup2, InSound
  <2>3. \/ Dup2(target.out, 1) = Terminal
        \/ \E f \in written : Dup2(target.out, 1) = Opened("w", f)
    BY <1>2, <1>3 DEF Dup2, OutSound
  <2> QED
    BY <1>1, <2>1, <2>2, <2>3 DEF StdioSound
<1>6. TypeOK'
  <2>1. child' \in [argc : 0 .. MaxTokens, stdin : Descriptions, stdout : Descriptions]
    BY <1>4 DEF Slot
  <2>2. fd' \in [Fd -> Descriptions]
    BY <1>1, CloseSavedType DEF IInv
  <2> QED
    BY <1>1, <2>1, <2>2 DEF IInv, TypeOK
<1>7. NothingElseClosed'
  BY <1>1, CloseSavedKeeps DEF NothingElseClosed
<1>8. ArgsEnd' /\ StartedOnTerminal' /\ SavedIsOwn' /\ TargetsSound'
  BY <1>1 DEF IInv, ArgsEnd, StartedOnTerminal, SavedIsOwn, TargetsSound, Scanning
<1> QED
  BY <1>5, <1>6, <1>7, <1>8 DEF IInv

\* Each step of main() and run() preserves the invariant.
LEMMA IInvNext == IInv /\ [Next]_vars => IInv'
<1> SUFFICES ASSUME IInv, [Next]_vars PROVE IInv'
  OBVIOUS
<1>1. CASE ReadLine \/ SaveDescriptors \/ RedirectOut \/ RedirectIn \/ Start
  BY <1>1, ReadLineSafe, SaveSafe, RedirectOutSafe, RedirectInSafe, StartSafe
<1>2. ASSUME UNCHANGED <<args, i, fd, saved, target, line, before, written, child>>,
             pc' \in {"prompt", "dead"} \/ (Scanning /\ pc' = "lookup")
      PROVE  IInv'
  <2>1. TypeOK' /\ ArgsEnd' /\ StartedOnTerminal' /\ NothingElseClosed'
    BY <1>2 DEF IInv, TypeOK, ArgsEnd, StartedOnTerminal, NothingElseClosed
  <2>2. SavedIsOwn' /\ TargetsSound' /\ StdioSound'
    BY <1>2 DEF IInv, SavedIsOwn, TargetsSound, OutSound, InSound, StdioSound,
      Scanning
  <2> QED
    BY <2>1, <2>2 DEF IInv
<1>3. CASE ScanWord
  <2>1. Text(i).op = ""
    BY <1>3 DEF ScanWord
  <2>3. i' \in 0 .. MaxTokens + 1
    <3>1. i \in Nat
      BY TokensAssumption DEF IInv, TypeOK
    <3>2. ~(i >= MaxTokens)
      BY <2>1, <3>1, TextEnd, NullIsNone DEF IInv
    <3>3. i' = i + 1 /\ MaxTokens \in Nat
      BY <1>3, TokensAssumption DEF ScanWord
    <3> QED
      BY <3>1, <3>2, <3>3
  <2>4. TypeOK'
    BY <1>3, <2>3 DEF ScanWord, IInv, TypeOK
  <2>5. /\ ArgsEnd' /\ StartedOnTerminal' /\ NothingElseClosed' /\ SavedIsOwn'
        /\ TargetsSound' /\ StdioSound'
    BY <1>3 DEF ScanWord, IInv, ArgsEnd, StartedOnTerminal, NothingElseClosed,
      SavedIsOwn, TargetsSound, OutSound, InSound, StdioSound, Scanning
  <2> QED
    BY <2>4, <2>5 DEF IInv
<1>4. CASE SyntaxError \/ ForkFails
  <2>1. /\ pc' = "prompt" /\ Scanning /\ fd' = CloseSaved(fd)
        /\ UNCHANGED <<args, i, saved, target, line, before, written, child>>
    BY <1>4 DEF SyntaxError, ForkFails, Scanning
  <2>2. TypeOK'
    BY <2>1, CloseSavedType DEF IInv, TypeOK
  <2>3. NothingElseClosed'
    BY <2>1, CloseSavedKeeps DEF NothingElseClosed
  <2>4. ArgsEnd' /\ StartedOnTerminal' /\ SavedIsOwn' /\ TargetsSound' /\ StdioSound'
    BY <2>1 DEF IInv, ArgsEnd, StartedOnTerminal, SavedIsOwn, TargetsSound,
      StdioSound, Scanning
  <2> QED
    BY <2>2, <2>3, <2>4 DEF IInv
<1>5. CASE UNCHANGED vars
  BY <1>5 DEF vars, IInv, TypeOK, ArgsEnd, StartedOnTerminal, NothingElseClosed,
    SavedIsOwn, TargetsSound, OutSound, InSound, StdioSound, Scanning
<1> QED
  BY <1>1, <1>2, <1>3, <1>4, <1>5 DEF Next, NoCommand, Builtin, ScanEnd,
    NotFound, Wait, Dead, Scanning

\* The inductive invariant: what run() in sh.c relies on about the array, the table
\* and the descriptors it holds is true at every step.
THEOREM Invariant == Spec => []IInv
<1>1. Init => IInv
  BY IInvInit
<1>2. IInv /\ [Next]_vars => IInv'
  BY IInvNext
<1> QED
  BY <1>1, <1>2, PTL DEF Spec

-----------------------------------------------------------------------------
(* What follows *)

\* The variables only ever hold what they are meant to hold; in particular
\* run()'s index stays within one slot of the longest argument array.
THEOREM TypeCorrect == Spec => []TypeOK
<1>1. IInv => TypeOK
  BY DEF IInv
<1> QED
  BY <1>1, Invariant, PTL

\* run() in sh.c closes no descriptor but the ones it opened for the line.
THEOREM ClosesOnlyItsOwn == Spec => []NothingElseClosed
<1>1. IInv => NothingElseClosed
  BY DEF IInv
<1> QED
  BY <1>1, Invariant, PTL

\* The shell never loses its terminal to a redirection.
THEOREM KeepsTerminal == Spec => []TerminalKept
<1>1. IInv => TerminalKept
  BY MaxFdAssumption DEF IInv, StartedOnTerminal, NothingElseClosed,
    TerminalKept, Terminal, Closed, Fd
<1> QED
  BY <1>1, Invariant, PTL

\* A program never gets a descriptor that is stale or of the wrong direction.
THEOREM StdioIsSound == Spec => []StdioSound
<1>1. IInv => StdioSound
  BY DEF IInv
<1> QED
  BY <1>1, Invariant, PTL

-----------------------------------------------------------------------------
(* Lines whose operators stand alone *)

Upto(S, n) == {k \in S : k <= n}

\* The array a shows line l of which the first n slots have been scanned: there
\* operators have been cut out.
Shows(a, l, n) ==
  \A k \in 0 .. Len(l) :
    a[k] = IF k = Len(l) \/ (k < n /\ l[k + 1].op # "") THEN Null ELSE l[k + 1]

\* run() starts with the table main() had, and with the line.
Fresh == pc = "run" => fd = before /\ Shows(args, line, 0)

\* The index is never at the operand of an operator, and the scan ends at the
\* end of the line.
Scanned ==
  /\ i \in 0 .. Len(line) /\ (i > 0 => line[i].op = "") /\ Shows(args, line, i)
  /\ pc = "lookup" => i = Len(line)

\* The saved descriptors are in use, and not the same.
SavedSet(s) == {s.out, s.in} \ {Failed}
SavedInUse ==
  /\ SavedSet(saved) \cap FreeFds(fd) = {}
  /\ saved.out = saved.in => saved.out = Failed

\* What the operators of l up to n cost.
Cost(l, n) == 2 * Cardinality(Upto(Outs(l), n)) + Cardinality(Upto(Ins(l), n))
Free(t) == Cardinality(FreeFds(t))
Counted == Free(before) <= Free(fd) + Cardinality(SavedSet(saved)) + Cost(line, i)

\* k is the last of S up to n.
LastOf(S, n, k) == k \in Upto(S, n) /\ \A j \in Upto(S, n) : j <= k

\* What `out` and `in` stand for in table t is the last file named so far.
OutIs(out, t, f) ==
  IF f \in Unwritable THEN out = Failed ELSE out \in Fd /\ t[out] = Opened("w", f)
OutTracked(l, n, out, t) ==
  \/ Upto(Outs(l), n) = {} /\ out = 1
  \/ \E k \in Outs(l) : LastOf(Outs(l), n, k) /\ OutIs(out, t, l[k + 1])

InIs(in, t, f) == in = Failed \/ (in \in Fd /\ t[in] = Opened("r", f))
InTracked(l, n, in, t) ==
  \/ Upto(Ins(l), n) = {} /\ in = 0
  \/ \E k \in Ins(l) : LastOf(Ins(l), n, k) /\ InIs(in, t, l[k + 1])

ScanSound ==
  Scanning => /\ SavedInUse
              /\ Spaced(line) => /\ Scanned /\ Counted
                                 /\ InTracked(line, i, target.in, fd)
                                 /\ Room(line) => OutTracked(line, i, target.out, fd)

\* A program has been started for a line that asks for one, and costs no more
\* than the operators do.
StartedSound ==
  pc = "wait" /\ Spaced(line) =>
    Found(line) /\ Free(before) <= Free(fd) + Cost(line, Len(line))

LineInv ==
  /\ Fresh /\ ScanSound /\ StartedSound /\ DescriptorsLost /\ RunsWhatWasTyped

-----------------------------------------------------------------------------
(* Lines, slots and counts *)

\* What users type is never the NULL that ends the array.
LEMMA TokenKinds ==
  \A s \in Token : s # Null /\ s.op \in {"", ">", "<"} /\ s \in Strings
<1>1. ASSUME NEW s \in Strings PROVE s # Null /\ s.op \in {"", ">", "<"}
  <2>1. s.op \in {"", ">", "<"}
    BY DEF Strings
  <2>2. Null.op = "null"
    BY DEF Null
  <2> QED
    BY <2>1, <2>2
<1> QED
  BY <1>1, TokensAssumption

\* Operators are positions of the line.
LEMMA LineFacts ==
  ASSUME NEW l \in Seq(Token)
  PROVE  /\ Len(l) \in Nat /\ DOMAIN l = 1 .. Len(l)
         /\ \A k \in 1 .. Len(l) : l[k] \in Token
         /\ Outs(l) \subseteq 1 .. Len(l) /\ Ins(l) \subseteq 1 .. Len(l)
         /\ \A k \in 1 .. Len(l) : /\ k \in Outs(l) <=> l[k].op = ">"
                                   /\ k \in Ins(l) <=> l[k].op = "<"
BY DEF Outs, Ins

\* Where the index and the positions of a line are.
LEMMA Positions ==
  ASSUME NEW n \in Nat, NEW m \in Nat
  PROVE  /\ m <= n => m \in 0 .. n
         /\ m < n => m + 1 \in 1 .. n /\ m + 1 \in 0 .. n /\ m + 1 <= n
         /\ m + 2 \in 1 .. n => /\ m + 2 \in 0 .. n /\ m + 2 <= n /\ m < n
                                /\ m + 1 # n /\ m # n /\ m + 1 <= n
         /\ m <= n => 0 .. m \subseteq 0 .. n
         /\ m + 1 # m /\ ~(m + 1 < m)
         /\ n >= 1 => 0 \in 0 .. n /\ 0 # n /\ 0 + 1 = 1
         /\ m + 1 \in Nat /\ m + 2 \in Nat /\ (m + 1) + 1 = m + 2 /\ m + 2 > 0
         /\ \A k \in 0 .. n : /\ k \in Nat /\ (k < m + 1 <=> (k < m \/ k = m))
                            /\ (k < m + 2 <=> (k < m \/ k = m \/ k = m + 1))
OBVIOUS

\* A position of the line is the successor of an index before its end.
LEMMA Predecessors ==
  ASSUME NEW n \in Nat
  PROVE  /\ 1 .. n \subseteq Int
         /\ \A j \in 1 .. n : \E k \in Nat : j = k + 1 /\ k < n
<1>1. 1 .. n \subseteq Int
  OBVIOUS
<1>2. ASSUME NEW j \in 1 .. n PROVE \E k \in Nat : j = k + 1 /\ k < n
  <2>1. j - 1 \in Nat /\ j = (j - 1) + 1 /\ j - 1 < n
    OBVIOUS
  <2> QED
    BY <2>1
<1> QED
  BY <1>1, <1>2

\* Only the empty sequence has no length.
LEMMA Lengths ==
  ASSUME NEW S, NEW l \in Seq(S), l # << >>
  PROVE  Len(l) \in Nat /\ Len(l) >= 1
OBVIOUS

\* In a line whose operators stand alone each has its operand behind it.
LEMMA SpacedFacts ==
  ASSUME NEW l \in Seq(Token), Spaced(l)
  PROVE  /\ Len(l) >= 1 /\ l[1].op = ""
         /\ \A k \in 1 .. Len(l) : l[k].op # "" =>
              l[k].word = NoWord /\ k + 1 \in 1 .. Len(l) /\ l[k + 1].op = ""
<1>1. Len(l) \in Nat /\ DOMAIN l = 1 .. Len(l)
  OBVIOUS
<1>2. l # << >> /\ l[1].op = ""
  BY DEF Spaced
<1>3. Len(l) >= 1
  BY <1>2, Lengths
<1>4. \A k \in DOMAIN l : l[k].op # "" =>
        l[k].word = NoWord /\ k + 1 \in DOMAIN l /\ l[k + 1].op = ""
  BY DEF Spaced
<1> QED
  BY <1>1, <1>2, <1>3, <1>4

\* Sets of positions are finite, also up to some position.
LEMMA UptoFinite ==
  ASSUME NEW n \in Nat, NEW S \in SUBSET (1 .. n), NEW m \in Nat
  PROVE  /\ IsFiniteSet(S) /\ Cardinality(S) \in Nat
         /\ IsFiniteSet(Upto(S, m)) /\ Cardinality(Upto(S, m)) \in Nat
         /\ Cardinality(Upto(S, m)) <= Cardinality(S)
         /\ Upto(S, n) = S /\ Upto(S, 0) = {}
<1>1. IsFiniteSet(1 .. n)
  BY FS_Interval
<1>2. IsFiniteSet(S)
  BY <1>1, FS_Subset
<1>3. Upto(S, m) \in SUBSET S
  BY DEF Upto
<1>4. IsFiniteSet(Upto(S, m)) /\ Cardinality(Upto(S, m)) <= Cardinality(S)
  BY <1>2, <1>3, FS_Subset
<1>5. \A k \in S : k \in Nat /\ k >= 1 /\ k <= n
  OBVIOUS
<1>6. Upto(S, n) = S
  BY <1>5 DEF Upto
<1>7. Upto(S, 0) = {}
  <2>1. \A k \in S : ~(k <= 0)
    BY <1>5
  <2> QED
    BY <2>1 DEF Upto
<1> QED
  BY <1>2, <1>4, <1>6, <1>7, FS_CardinalityType

\* One position more.
LEMMA UptoNext ==
  ASSUME NEW n \in Nat, NEW S \in SUBSET (1 .. n), NEW m \in Nat
  PROVE  /\ m + 1 \in S => /\ Upto(S, m + 1) = Upto(S, m) \union {m + 1}
                           /\ Cardinality(Upto(S, m + 1)) = Cardinality(Upto(S, m)) + 1
         /\ m + 1 \notin S => Upto(S, m + 1) = Upto(S, m)
<1>1. CASE m + 1 \in S
  <2>1. Upto(S, m + 1) = Upto(S, m) \union {m + 1} /\ m + 1 \notin Upto(S, m)
    <3>1. \A k \in S : (k <= m + 1) <=> (k <= m \/ k = m + 1)
      OBVIOUS
    <3>2. ~(m + 1 <= m)
      OBVIOUS
    <3>3. \A k : k \in Upto(S, m + 1) <=> k \in Upto(S, m) \union {m + 1}
      BY <1>1, <3>1 DEF Upto
    <3>4. m + 1 \notin Upto(S, m)
      BY <3>2 DEF Upto
    <3> QED
      BY <3>3, <3>4
  <2>2. IsFiniteSet(Upto(S, m))
    BY UptoFinite
  <2>3. Cardinality(Upto(S, m + 1)) = Cardinality(Upto(S, m)) + 1
    BY <2>1, <2>2, FS_AddElement
  <2> QED
    BY <1>1, <2>1, <2>3
<1>2. CASE m + 1 \notin S
  <2>1. \A k \in S : (k <= m + 1) <=> (k <= m)
    BY <1>2
  <2> QED
    BY <1>2, <2>1 DEF Upto
<1> QED
  BY <1>1, <1>2

\* What the next string of the line costs: nothing, unless it is an operator.
LEMMA CostFacts ==
  ASSUME NEW l \in Seq(Token), NEW m \in Nat, m + 1 <= Len(l)
  PROVE  /\ Cost(l, m) \in Nat /\ Cost(l, m + 1) \in Nat
         /\ l[m + 1].op = "" => /\ Cost(l, m + 1) = Cost(l, m)
                                /\ Upto(Outs(l), m + 1) = Upto(Outs(l), m)
                                /\ Upto(Ins(l), m + 1) = Upto(Ins(l), m)
         /\ l[m + 1].op = ">" => /\ Cost(l, m + 1) = Cost(l, m) + 2
                                 /\ Upto(Outs(l), m + 1) = Upto(Outs(l), m) \union {m + 1}
                                 /\ Upto(Ins(l), m + 1) = Upto(Ins(l), m)
         /\ l[m + 1].op = "<" => /\ Cost(l, m + 1) = Cost(l, m) + 1
                                 /\ Upto(Outs(l), m + 1) = Upto(Outs(l), m)
                                 /\ Upto(Ins(l), m + 1) = Upto(Ins(l), m) \union {m + 1}
<1> DEFINE O == Outs(l)
           I == Ins(l)
           n == Len(l)
<1>1. /\ n \in Nat /\ O \in SUBSET (1 .. n) /\ I \in SUBSET (1 .. n) /\ m + 1 \in 1 .. n
      /\ m + 1 \in Nat
      /\ (m + 1 \in O <=> l[m + 1].op = ">") /\ (m + 1 \in I <=> l[m + 1].op = "<")
  BY LineFacts
<1>2. Cost(l, m) = 2 * Cardinality(Upto(O, m)) + Cardinality(Upto(I, m))
      /\ Cost(l, m + 1) = 2 * Cardinality(Upto(O, m + 1)) + Cardinality(Upto(I, m + 1))
  BY DEF Cost
<1> HIDE DEF O, I, n
<1>3. /\ Cardinality(Upto(O, m)) \in Nat /\ Cardinality(Upto(O, m + 1)) \in Nat
      /\ Cardinality(Upto(I, m)) \in Nat /\ Cardinality(Upto(I, m + 1)) \in Nat
  BY <1>1, UptoFinite
<1>4. /\ m + 1 \in O => /\ Upto(O, m + 1) = Upto(O, m) \union {m + 1}
                        /\ Cardinality(Upto(O, m + 1)) = Cardinality(Upto(O, m)) + 1
      /\ m + 1 \notin O => Upto(O, m + 1) = Upto(O, m)
  BY <1>1, UptoNext
<1>5. /\ m + 1 \in I => /\ Upto(I, m + 1) = Upto(I, m) \union {m + 1}
                        /\ Cardinality(Upto(I, m + 1)) = Cardinality(Upto(I, m)) + 1
      /\ m + 1 \notin I => Upto(I, m + 1) = Upto(I, m)
  BY <1>1, UptoNext
<1>6. Cost(l, m) \in Nat /\ Cost(l, m + 1) \in Nat
  BY <1>2, <1>3
<1>7. CASE l[m + 1].op = ""
  BY <1>1, <1>2, <1>4, <1>5, <1>6, <1>7 DEF O, I
<1>8. CASE l[m + 1].op = ">"
  <2>1. m + 1 \in O /\ m + 1 \notin I
    BY <1>1, <1>8
  <2> QED
    BY <1>2, <1>3, <1>4, <1>5, <1>6, <1>8, <2>1 DEF O, I
<1>9. CASE l[m + 1].op = "<"
  <2>1. m + 1 \notin O /\ m + 1 \in I
    BY <1>1, <1>9
  <2> QED
    BY <1>2, <1>3, <1>4, <1>5, <1>6, <1>9, <2>1 DEF O, I
<1> QED
  BY <1>6, <1>7, <1>8, <1>9

\* The line as a whole costs what its operators do, and no part of it more.
LEMMA CostWhole ==
  ASSUME NEW l \in Seq(Token), NEW m \in Nat
  PROVE  /\ Cost(l, m) \in Nat
         /\ Cost(l, m) <= 2 * Cardinality(Outs(l)) + Cardinality(Ins(l))
         /\ Cost(l, Len(l)) = 2 * Cardinality(Outs(l)) + Cardinality(Ins(l))
         /\ Cost(l, 0) = 0
<1> DEFINE O == Outs(l)
           I == Ins(l)
           n == Len(l)
<1>1. n \in Nat /\ O \in SUBSET (1 .. n) /\ I \in SUBSET (1 .. n)
  BY LineFacts
<1> HIDE DEF O, I, n
<1>2. /\ Cardinality(O) \in Nat /\ Cardinality(Upto(O, m)) \in Nat
      /\ Cardinality(Upto(O, m)) <= Cardinality(O) /\ Upto(O, n) = O /\ Upto(O, 0) = {}
      /\ Cardinality(I) \in Nat /\ Cardinality(Upto(I, m)) \in Nat
      /\ Cardinality(Upto(I, m)) <= Cardinality(I) /\ Upto(I, n) = I /\ Upto(I, 0) = {}
  BY <1>1, UptoFinite
<1>3. Cardinality({}) = 0
  BY FS_EmptySet
<1>4. /\ Cost(l, m) = 2 * Cardinality(Upto(O, m)) + Cardinality(Upto(I, m))
      /\ Cost(l, n) = 2 * Cardinality(Upto(O, n)) + Cardinality(Upto(I, n))
      /\ Cost(l, 0) = 2 * Cardinality(Upto(O, 0)) + Cardinality(Upto(I, 0))
  BY DEF Cost, O, I
<1>5. /\ Cost(l, m) \in Nat /\ Cost(l, m) <= 2 * Cardinality(O) + Cardinality(I)
      /\ Cost(l, n) = 2 * Cardinality(O) + Cardinality(I) /\ Cost(l, 0) = 0
  <2>1. \A a, b, c, d \in Nat : (a <= b /\ c <= d) =>
          2 * a + c \in Nat /\ 2 * a + c <= 2 * b + d
    OBVIOUS
  <2>2. Cost(l, m) \in Nat /\ Cost(l, m) <= 2 * Cardinality(O) + Cardinality(I)
    BY <1>2, <1>4, <2>1
  <2>3. Cost(l, n) = 2 * Cardinality(O) + Cardinality(I)
    BY <1>2, <1>4
  <2>4. Cost(l, 0) = 0
    <3>1. Cardinality(Upto(O, 0)) = 0 /\ Cardinality(Upto(I, 0)) = 0
      BY <1>2, FS_EmptySet, Zenon
    <3> QED
      BY <1>4, <3>1
  <2> QED
    BY <2>2, <2>3, <2>4
<1> QED
  BY <1>5 DEF O, I, n

-----------------------------------------------------------------------------
(* Free descriptors *)

\* The free descriptors can be counted.
LEMMA FreeFinite ==
  ASSUME NEW t
  PROVE  IsFiniteSet(FreeFds(t)) /\ Free(t) \in Nat
<1>1. IsFiniteSet(Fd)
  BY FS_Interval, MaxFdAssumption DEF Fd
<1>2. FreeFds(t) \in SUBSET Fd
  BY DEF FreeFds
<1> QED
  BY <1>1, <1>2, FS_Subset, FS_CardinalityType DEF Free

\* Opening something takes one descriptor at most, and one if there is one.
LEMMA Taken ==
  ASSUME NEW t \in [Fd -> Descriptions], NEW d \in FdOrFailed, Returns(t, d),
         NEW x, x # Closed
  PROVE  /\ Free(t) <= Free(Install(t, d, x)) + 1
         /\ d = Failed => Install(t, d, x) = t
         /\ d # Failed => /\ d \in Fd /\ t[d] = Closed
                          /\ FreeFds(Install(t, d, x)) = FreeFds(t) \ {d}
                          /\ Free(t) = Free(Install(t, d, x)) + 1
         /\ Free(t) >= 1 => d # Failed
<1>1. CASE d = Failed
  <2>1. FreeFds(t) = {}
    BY <1>1, MaxFdAssumption DEF Returns, FreeFds, Fd, Failed
  <2>2. Free(t) = 0
    BY <2>1, FS_EmptySet DEF Free
  <2> QED
    BY <1>1, <2>2, FreeFinite DEF Install
<1>2. CASE d # Failed
  <2>1. d \in FreeFds(t) /\ d \in Fd /\ t[d] = Closed
    BY <1>2 DEF Returns, FreeFds
  <2>2. FreeFds(Install(t, d, x)) = FreeFds(t) \ {d}
    <3>1. \A e \in Fd : Install(t, d, x)[e] = IF e = d THEN x ELSE t[e]
      BY InstallValue
    <3>2. \A e \in Fd : Install(t, d, x)[e] = Closed <=> (t[e] = Closed /\ e # d)
      BY <3>1
    <3> QED
      BY <3>2 DEF FreeFds
  <2>3. Free(Install(t, d, x)) = Free(t) - 1 /\ Free(t) \in Nat
    BY <2>1, <2>2, FreeFinite, FS_RemoveElement DEF Free
  <2> QED
    BY <1>2, <2>1, <2>2, <2>3, FreeFinite
<1> QED
  BY <1>1, <1>2

\* The saved descriptors are at most two.
LEMMA SavedFew ==
  ASSUME NEW s
  PROVE  /\ IsFiniteSet(SavedSet(s)) /\ Cardinality(SavedSet(s)) \in 0 .. 2
<1>1. /\ IsFiniteSet({s.out}) /\ Cardinality({s.out}) = 1
  BY FS_Singleton
<1>2. IsFiniteSet({s.out} \union {s.in}) /\ Cardinality({s.out} \union {s.in}) <= 2
      /\ Cardinality({s.out} \union {s.in}) \in Nat
  <2>1. /\ IsFiniteSet({s.out} \union {s.in})
        /\ Cardinality({s.out} \union {s.in})
           = IF s.in \in {s.out} THEN Cardinality({s.out}) ELSE Cardinality({s.out}) + 1
    BY <1>1, FS_AddElement
  <2> QED
    BY <1>1, <2>1
<1>3. SavedSet(s) \in SUBSET ({s.out} \union {s.in})
  BY DEF SavedSet
<1> QED
  BY <1>2, <1>3, FS_Subset, FS_CardinalityType

\* Closing them gives all of them back.
LEMMA GivenBack ==
  ASSUME TypeOK, SavedInUse
  PROVE  Free(CloseSaved(fd)) = Free(fd) + Cardinality(SavedSet(saved))
<1>1. FreeFds(CloseSaved(fd)) = FreeFds(fd) \union SavedSet(saved)
  <2>1. /\ fd \in [Fd -> Descriptions] /\ saved.out \in FdOrFailed /\ saved.in \in FdOrFailed
    BY DEF TypeOK
  <2>2. \A d \in Fd : CloseSaved(fd)[d] = IF d \in SavedSet(saved) THEN Closed ELSE fd[d]
    BY <2>1, Kinds DEF CloseSaved, Close, Install, SavedSet
  <2>3. SavedSet(saved) \subseteq Fd
    BY <2>1 DEF SavedSet, FdOrFailed
  <2> QED
    BY <2>2, <2>3 DEF FreeFds
<1>2. Cardinality(FreeFds(fd) \cap SavedSet(saved)) = 0
  BY FS_EmptySet DEF SavedInUse
<1>3. Cardinality(FreeFds(fd) \union SavedSet(saved))
      = Cardinality(FreeFds(fd)) + Cardinality(SavedSet(saved))
        - Cardinality(FreeFds(fd) \cap SavedSet(saved))
  BY FreeFinite, SavedFew, FS_Union
<1> QED
  BY <1>1, <1>2, <1>3, FreeFinite, SavedFew DEF Free

-----------------------------------------------------------------------------
(* The scan of such a line *)

\* What the scan finds at its index, and behind an operator.
LEMMA AtIndex ==
  ASSUME IInv, Scanned, Spaced(line)
  PROVE  /\ Len(line) \in Nat /\ Len(line) <= MaxTokens /\ i \in Nat /\ i <= Len(line)
         /\ line \in Seq(Token) /\ Text(i) = args[i]
         /\ i = Len(line) => args[i] = Null
         /\ i < Len(line) => /\ i + 1 \in 1 .. Len(line)
                             /\ args[i] = line[i + 1] /\ args[i] # Null
                             /\ args[i].op \in {"", ">", "<"}
         /\ i < Len(line) /\ line[i + 1].op # "" =>
              /\ i + 2 \in 1 .. Len(line) /\ line[i + 2].op = ""
              /\ line[i + 2] # Null /\ line[i + 2] \in Token
              /\ Operand = line[i + 2]
<1>1. /\ line \in Seq(Token) /\ Len(line) \in Nat /\ Len(line) <= MaxTokens
      /\ i \in Nat /\ i <= Len(line) /\ MaxTokens \in Nat
  <2>1. line \in Seq(Token) /\ Len(line) <= MaxTokens /\ i \in 0 .. Len(line)
    BY DEF IInv, TypeOK, Scanned
  <2>2. Len(line) \in Nat /\ MaxTokens \in Nat
    BY <2>1, TokensAssumption
  <2> QED
    BY <2>1, <2>2
<1>2. ASSUME NEW k \in 0 .. Len(line) PROVE Text(k) = args[k]
  BY <1>1 DEF Text
<1>3. ASSUME NEW k \in 0 .. Len(line)
      PROVE  args[k] = IF k = Len(line) \/ (k < i /\ line[k + 1].op # "")
                       THEN Null ELSE line[k + 1]
  BY DEF Scanned, Shows
<1>4. ASSUME NEW k \in 1 .. Len(line)
      PROVE  line[k] \in Token /\ line[k] # Null /\ line[k].op \in {"", ">", "<"}
  BY <1>1, LineFacts, TokenKinds
<1>5. i \in 0 .. Len(line)
  BY <1>1
<1>6. ASSUME i < Len(line)
      PROVE  /\ i + 1 \in 1 .. Len(line)
             /\ args[i] = line[i + 1] /\ args[i] # Null /\ args[i].op \in {"", ">", "<"}
  <2>1. i + 1 \in 1 .. Len(line) /\ ~(i < i) /\ i # Len(line)
    BY <1>1, <1>6
  <2>2. args[i] = line[i + 1]
    BY <1>3, <1>5, <2>1
  <2> QED
    BY <1>4, <2>1, <2>2
<1>7. ASSUME i < Len(line), line[i + 1].op # ""
      PROVE  /\ i + 2 \in 1 .. Len(line) /\ line[i + 2].op = ""
             /\ line[i + 2] # Null /\ line[i + 2] \in Token
             /\ Operand = line[i + 2]
  <2>1. /\ line[i + 1].word = NoWord /\ (i + 1) + 1 \in 1 .. Len(line)
        /\ line[(i + 1) + 1].op = ""
    BY <1>1, <1>6, <1>7, SpacedFacts
  <2>2. (i + 1) + 1 = i + 2 /\ i + 1 \in 0 .. Len(line) /\ ~(i + 1 < i) /\ i + 1 # Len(line)
    <3>1. \A a, n \in Nat : (a + 1) + 1 \in 1 .. n =>
            /\ (a + 1) + 1 = a + 2 /\ a + 1 \in 0 .. n /\ ~(a + 1 < a) /\ a + 1 # n
      OBVIOUS
    <3> QED
      BY <1>1, <2>1, <3>1
  <2>3. line[i + 2] # Null /\ line[i + 2] \in Token
    BY <1>4, <2>1, <2>2
  <2>4. args[i + 1] = line[i + 2]
    BY <1>3, <2>2
  <2>5. Text(i + 1) = line[i + 2] /\ Text(i).word = NoWord
    BY <1>2, <1>5, <1>6, <1>7, <2>1, <2>2, <2>4
  <2> QED
    BY <2>1, <2>2, <2>3, <2>5 DEF Operand
<1> QED
  BY <1>1, <1>2, <1>3, <1>5, <1>6, <1>7

\* Nothing but a scan or a start follows a step within the scan.
LEMMA WithinScan ==
  ASSUME Scanning', ScanSound'
  PROVE  LineInv'
BY DEF LineInv, Scanning, Fresh, StartedSound, DescriptorsLost, RunsWhatWasTyped

\* main() splits the line into the array, as it was typed, and notes the table.
LEMMA ReadLineSpaced ==
  ASSUME IInv, ReadLine
  PROVE  LineInv'
<1> PICK n \in 0 .. MaxTokens : \E new \in [1 .. n -> Token] :
      \E over \in SUBSET {k \in Slot : k > n /\ args[k] # Null} :
      \E text \in [over -> Tails(new)] :
      /\ line' = new
      /\ args' = [k \in Slot |-> IF k < n THEN new[k + 1]
                                 ELSE IF k = n THEN Null
                                 ELSE IF k \in over THEN text[k] ELSE args[k]]
  BY DEF ReadLine
<1> PICK new \in [1 .. n -> Token] :
      \E over \in SUBSET {k \in Slot : k > n /\ args[k] # Null} :
      \E text \in [over -> Tails(new)] :
      /\ line' = new
      /\ args' = [k \in Slot |-> IF k < n THEN new[k + 1]
                                 ELSE IF k = n THEN Null
                                 ELSE IF k \in over THEN text[k] ELSE args[k]]
  OBVIOUS
<1> PICK over \in SUBSET {k \in Slot : k > n /\ args[k] # Null} :
      \E text \in [over -> Tails(new)] :
      /\ line' = new
      /\ args' = [k \in Slot |-> IF k < n THEN new[k + 1]
                                 ELSE IF k = n THEN Null
                                 ELSE IF k \in over THEN text[k] ELSE args[k]]
  OBVIOUS
<1> PICK text \in [over -> Tails(new)] :
      /\ line' = new
      /\ args' = [k \in Slot |-> IF k < n THEN new[k + 1]
                                 ELSE IF k = n THEN Null
                                 ELSE IF k \in over THEN text[k] ELSE args[k]]
  OBVIOUS
<1>1. n \in Nat /\ n <= MaxTokens /\ Len(line') = n /\ MaxTokens \in Nat
  BY TokensAssumption
<1>2. ASSUME NEW k \in 0 .. n
      PROVE  args'[k] = IF k = n \/ (k < 0 /\ line'[k + 1].op # "") THEN Null
                        ELSE line'[k + 1]
  <2>1. k \in Slot /\ ~(k < 0) /\ (k = n => ~(k < n)) /\ (k # n => k < n)
    BY <1>1 DEF Slot
  <2> QED
    BY <2>1
<1>3. Shows(args', line', 0)
  <2> SUFFICES ASSUME NEW k \in 0 .. Len(line')
               PROVE  args'[k] = IF k = Len(line') \/ (k < 0 /\ line'[k + 1].op # "")
                                 THEN Null ELSE line'[k + 1]
    BY DEF Shows
  <2>1. k \in 0 .. n
    BY <1>1
  <2> QED
    BY ONLY <1>1, <1>2, <2>1
<1>4. pc' = "run" /\ fd' = fd /\ before' = fd
  BY DEF ReadLine
<1> QED
  BY <1>3, <1>4 DEF LineInv, Fresh, ScanSound, Scanning, StartedSound, DescriptorsLost,
    RunsWhatWasTyped

\* The saved descriptors are new ones.
LEMMA SavedNew ==
  ASSUME IInv, SaveDescriptors
  PROVE  /\ SavedInUse'
         /\ Free(fd) <= Free(fd') + Cardinality(SavedSet(saved'))
<1> PICK o \in FdOrFailed, d \in FdOrFailed :
      LET dup == Install(fd, o, fd[1]) IN
      /\ Returns(fd, o) /\ Returns(dup, d)
      /\ saved' = [out |-> o, in |-> d]
      /\ fd' = Install(dup, d, fd[0])
  BY DEF SaveDescriptors
<1> DEFINE dup == Install(fd, o, fd[1])
<1>1. /\ Returns(fd, o) /\ Returns(dup, d) /\ saved' = [out |-> o, in |-> d]
      /\ fd' = Install(dup, d, fd[0])
  OBVIOUS
<1>2. /\ fd \in [Fd -> Descriptions] /\ fd[1] = Terminal /\ fd[0] = Terminal
      /\ Terminal # Closed /\ Terminal \in Descriptions
  <2>1. fd \in [Fd -> Descriptions] /\ StartedOnTerminal /\ NothingElseClosed
    BY DEF IInv, TypeOK
  <2>2. 0 \in Fd /\ 1 \in Fd /\ 0 \in 0 .. 2 /\ 1 \in 0 .. 2
    BY MaxFdAssumption DEF Fd
  <2> QED
    BY <2>1, <2>2, Kinds DEF StartedOnTerminal, NothingElseClosed
<1>3. dup \in [Fd -> Descriptions]
  BY <1>2, InstallType
<1>4. /\ o = Failed => dup = fd
      /\ o # Failed => /\ o \in Fd /\ FreeFds(dup) = FreeFds(fd) \ {o}
                       /\ Free(fd) = Free(dup) + 1
  BY <1>1, <1>2, Taken
<1> HIDE DEF dup
<1>5. /\ d = Failed => fd' = dup
      /\ d # Failed => /\ d \in Fd /\ d \in FreeFds(dup) /\ FreeFds(fd') = FreeFds(dup) \ {d}
                       /\ Free(dup) = Free(fd') + 1
  <2>1. /\ d = Failed => fd' = dup
        /\ d # Failed => /\ d \in Fd /\ dup[d] = Closed /\ FreeFds(fd') = FreeFds(dup) \ {d}
                         /\ Free(dup) = Free(fd') + 1
    <3>1. fd[0] # Closed
      BY <1>2
    <3> QED
      BY <1>1, <1>3, <3>1, Taken
  <2> QED
    BY <2>1 DEF FreeFds
<1>6. saved'.out = o /\ saved'.in = d /\ SavedSet(saved') = {o, d} \ {Failed}
  BY <1>1 DEF SavedSet
<1>7. o = d => o = Failed
  BY <1>4, <1>5
<1>8. ({o, d} \ {Failed}) \cap FreeFds(fd') = {}
  BY <1>4, <1>5
<1>9. SavedInUse'
  BY <1>6, <1>7, <1>8 DEF SavedInUse
<1>10. Free(fd) \in Nat /\ Free(dup) \in Nat /\ Free(fd') \in Nat
       /\ Cardinality(SavedSet(saved')) \in Nat
  BY FreeFinite, SavedFew
<1>11. CASE o = Failed /\ d = Failed
  <2>1. Free(fd') = Free(fd)
    BY <1>4, <1>5, <1>11
  <2> QED
    BY <1>9, <1>10, <2>1
<1>12. CASE o # Failed /\ d = Failed
  <2>1. SavedSet(saved') = {o}
    BY <1>6, <1>12
  <2>2. Cardinality(SavedSet(saved')) = 1
    BY <2>1, FS_Singleton
  <2> QED
    BY <1>4, <1>5, <1>9, <1>10, <1>12, <2>2
<1>13. CASE o = Failed /\ d # Failed
  <2>1. SavedSet(saved') = {d}
    BY <1>6, <1>13
  <2>2. Cardinality(SavedSet(saved')) = 1
    BY <2>1, FS_Singleton
  <2> QED
    BY <1>4, <1>5, <1>9, <1>10, <1>13, <2>2
<1>14. CASE o # Failed /\ d # Failed
  <2>1. SavedSet(saved') = {o} \union {d} /\ d \notin {o}
    BY <1>6, <1>7, <1>14
  <2>2. IsFiniteSet({o}) /\ Cardinality({o}) = 1
    BY FS_Singleton
  <2>3. Cardinality({o} \union {d}) = Cardinality({o}) + 1
    BY <2>1, <2>2, FS_AddElement
  <2>4. Cardinality(SavedSet(saved')) = 2
    BY <2>1, <2>2, <2>3
  <2> QED
    BY <1>4, <1>5, <1>9, <1>10, <1>14, <2>4
<1> QED
  BY <1>9, <1>11, <1>12, <1>13, <1>14

\* The two dup() calls of run() take at most the two descriptors they return.
LEMMA SaveSpaced ==
  ASSUME IInv, LineInv, SaveDescriptors
  PROVE  LineInv'
<1>1. /\ pc = "run" /\ pc' = "scan" /\ i' = 0 /\ target' = [out |-> 1, in |-> 0]
      /\ UNCHANGED <<args, line, before>>
  BY DEF SaveDescriptors
<1>2. /\ fd = before /\ Shows(args, line, 0) /\ line \in Seq(Token)
  BY <1>1 DEF LineInv, Fresh, IInv, TypeOK
<1>3. SavedInUse' /\ Free(fd) <= Free(fd') + Cardinality(SavedSet(saved'))
  BY SavedNew
<1>4. Scanned'
  <2>1. 0 \in 0 .. Len(line) /\ ~(0 > 0)
    BY <1>2, LineFacts
  <2> QED
    BY <1>1, <1>2, <2>1 DEF Scanned
<1>5. Counted'
  <2>1. Cost(line, 0) = 0
    BY <1>2, CostWhole
  <2>2. Free(fd) \in Nat /\ Free(fd') \in Nat /\ Cardinality(SavedSet(saved')) \in Nat
    BY FreeFinite, SavedFew
  <2>3. Free(before') <= Free(fd') + Cardinality(SavedSet(saved')) + Cost(line', i')
    BY <1>1, <1>2, <1>3, <2>1, <2>2
  <2> QED
    BY <2>3 DEF Counted
<1>6. /\ InTracked(line', i', target'.in, fd') /\ OutTracked(line', i', target'.out, fd')
  <2>1. Upto(Ins(line), 0) = {} /\ Upto(Outs(line), 0) = {}
    BY <1>2, LineFacts, UptoFinite
  <2> QED
    BY <1>1, <2>1 DEF InTracked, OutTracked
<1>7. ScanSound'
  BY <1>3, <1>4, <1>5, <1>6 DEF ScanSound
<1> QED
  BY <1>1, <1>7, WithinScan DEF Scanning

\* run()'s loop leaves a word where it is.
LEMMA ScanWordSpaced ==
  ASSUME IInv, LineInv, ScanWord
  PROVE  LineInv'
<1>1. /\ pc = "scan" /\ Scanning /\ i' = i + 1
      /\ UNCHANGED <<pc, args, fd, saved, target, line, before>>
  BY DEF ScanWord, Scanning
<1>2. SavedInUse'
  BY <1>1 DEF LineInv, ScanSound, SavedInUse
<1>3. ASSUME Spaced(line)
      PROVE  /\ Scanned' /\ Counted' /\ InTracked(line', i', target'.in, fd')
             /\ Room(line) => OutTracked(line', i', target'.out, fd')
  <2>1. /\ Scanned /\ Counted /\ InTracked(line, i, target.in, fd)
        /\ Room(line) => OutTracked(line, i, target.out, fd)
    BY <1>1, <1>3 DEF LineInv, ScanSound
  <2>2. /\ line \in Seq(Token) /\ Len(line) \in Nat /\ i \in Nat /\ i + 1 \in Nat
        /\ i + 1 <= Len(line) /\ line[i + 1].op = ""
    <3>1. Text(i).op = ""
      BY DEF ScanWord
    <3>2. Text(i) = args[i] /\ i <= Len(line) /\ i \in Nat /\ Len(line) \in Nat
      BY <1>3, <2>1, <3>1, AtIndex
    <3>3. i # Len(line)
      <4>1. Null.op = "null"
        BY DEF Null
      <4> QED
        BY <1>3, <2>1, <3>1, <3>2, <4>1, AtIndex
    <3>4. i < Len(line)
      BY <3>2, <3>3
    <3>5. line \in Seq(Token) /\ args[i] = line[i + 1]
      BY <1>3, <2>1, <3>4, AtIndex
    <3>6. i + 1 \in Nat /\ i + 1 <= Len(line)
      BY <3>2, <3>4, Positions
    <3> QED
      BY <3>1, <3>2, <3>5, <3>6
  <2>3. /\ Cost(line, i + 1) = Cost(line, i)
        /\ Upto(Outs(line), i + 1) = Upto(Outs(line), i)
        /\ Upto(Ins(line), i + 1) = Upto(Ins(line), i)
    BY <2>2, CostFacts
  <2>4. Shows(args, line, i + 1)
    <3> SUFFICES ASSUME NEW k \in 0 .. Len(line)
                 PROVE  args[k] = IF k = Len(line) \/ (k < i + 1 /\ line[k + 1].op # "")
                                  THEN Null ELSE line[k + 1]
      BY DEF Shows
    <3>1. args[k] = IF k = Len(line) \/ (k < i /\ line[k + 1].op # "")
                    THEN Null ELSE line[k + 1]
      BY <2>1 DEF Scanned, Shows
    <3>2. (k < i + 1) <=> (k < i \/ k = i)
      BY <2>2, Positions
    <3> QED
      BY <2>2, <3>1, <3>2
  <2>5. Scanned'
    <3>1. i + 1 \in 0 .. Len(line)
      BY <2>2, Positions
    <3> QED
      BY <1>1, <2>2, <2>4, <3>1 DEF Scanned
  <2>6. Counted'
    BY <1>1, <2>1, <2>3 DEF Counted
  <2> QED
    BY <1>1, <2>1, <2>3, <2>5, <2>6 DEF InTracked, OutTracked, LastOf
<1>4. Room(line)' = Room(line) /\ Spaced(line)' = Spaced(line)
  BY <1>1 DEF Room, Spaced
<1>5. ScanSound'
  BY <1>2, <1>3, <1>4 DEF ScanSound
<1> QED
  BY <1>1, <1>5, WithinScan DEF Scanning

\* Cutting an operator out and skipping its operand.
LEMMA SkipSpaced ==
  ASSUME IInv, Scanned, Spaced(line), i < Len(line), line[i + 1].op # "",
         pc = "scan", Skip, UNCHANGED line
  PROVE  Scanned'
<1>1. /\ args' = [args EXCEPT ![i] = Null] /\ i' = i + 2 /\ UNCHANGED <<pc, line>>
      /\ args \in [Slot -> Strings \union {Null}]
  BY DEF Skip, IInv, TypeOK
<1>2. /\ Len(line) \in Nat /\ Len(line) <= MaxTokens /\ i \in Nat
      /\ i + 2 \in 1 .. Len(line) /\ line[i + 2].op = ""
  BY AtIndex
<1>3. /\ i + 2 \in 0 .. Len(line) /\ i + 1 # Len(line) /\ i # Len(line)
      /\ (i + 1) + 1 = i + 2
  BY <1>2, Positions
<1>4. ASSUME NEW k \in 0 .. Len(line)
      PROVE  args'[k] = IF k = Len(line) \/ (k < i + 2 /\ line[k + 1].op # "")
                        THEN Null ELSE line[k + 1]
  <2>1. args[k] = IF k = Len(line) \/ (k < i /\ line[k + 1].op # "")
                  THEN Null ELSE line[k + 1]
    BY DEF Scanned, Shows
  <2>2. k \in Slot
    <3>1. MaxTokens \in Nat
      BY TokensAssumption
    <3> QED
      BY <1>2, <3>1, Positions DEF Slot
  <2>3. args'[k] = IF k = i THEN Null ELSE args[k]
    BY <1>1, <2>2
  <2>4. (k < i + 2) <=> (k < i \/ k = i \/ k = i + 1)
    BY <1>2, Positions
  <2>5. CASE k = i
    BY <2>3, <2>4, <2>5
  <2>6. CASE k = i + 1
    <3>1. line[k + 1].op = "" /\ k # i /\ k # Len(line) /\ ~(k < i)
      BY <1>2, <1>3, <2>6, Positions
    <3> QED
      BY <2>1, <2>3, <3>1
  <2>7. CASE k # i /\ k # i + 1
    BY <2>1, <2>3, <2>4, <2>7
  <2> QED
    BY <2>5, <2>6, <2>7
<1>5. Shows(args', line', i')
  BY <1>1, <1>4 DEF Shows
<1> QED
  BY <1>1, <1>2, <1>3, <1>5 DEF Scanned

\* An operator is at the index if a redirection is made.
LEMMA OperatorAt ==
  ASSUME IInv, Scanned, Spaced(line), Text(i).op \in {">", "<"}
  PROVE  i < Len(line) /\ Text(i) = line[i + 1] /\ line[i + 1].op # ""
<1>1. Text(i) = args[i] /\ i \in Nat /\ i <= Len(line) /\ Len(line) \in Nat
  BY AtIndex
<1>2. i # Len(line)
  <2>1. Null.op = "null"
    BY DEF Null
  <2> QED
    BY <1>1, <2>1, AtIndex
<1>3. i < Len(line)
  BY <1>1, <1>2
<1> QED
  BY <1>1, <1>3, AtIndex

\* What `out` or `in` refers to is not replaced by what is opened after it.
LEMMA TrackedKept ==
  ASSUME NEW t \in [Fd -> Descriptions], NEW u,
         \A e \in Fd : t[e] # Closed => u[e] = t[e],
         NEW f \in Strings, NEW d
  PROVE  /\ OutIs(d, t, f) => OutIs(d, u, f)
         /\ InIs(d, t, f) => InIs(d, u, f)
<1>1. Opened("w", f) # Closed /\ Opened("r", f) # Closed
  BY Kinds
<1> QED
  BY <1>1 DEF OutIs, InIs

\* The operand of the last operator so far is one of the line's strings.
LEMMA OperandString ==
  ASSUME NEW l \in Seq(Token), Spaced(l), NEW k \in Outs(l) \union Ins(l)
  PROVE  k \in 1 .. Len(l) /\ k + 1 \in 1 .. Len(l) /\ l[k + 1] \in Strings
<1>1. k \in 1 .. Len(l) /\ l[k].op # ""
  BY LineFacts
<1>2. k + 1 \in 1 .. Len(l)
  BY <1>1, SpacedFacts
<1> QED
  BY <1>1, <1>2, LineFacts, TokensAssumption

\* A descriptor that stays as it is keeps standing for the last file named.
LEMMA OutsKept ==
  ASSUME NEW l \in Seq(Token), Spaced(l), NEW n, NEW d,
         NEW t \in [Fd -> Descriptions], NEW u,
         \A e \in Fd : t[e] # Closed => u[e] = t[e], OutTracked(l, n, d, t)
  PROVE  OutTracked(l, n, d, u)
<1>1. ASSUME NEW k \in Outs(l), OutIs(d, t, l[k + 1]) PROVE OutIs(d, u, l[k + 1])
  BY <1>1, OperandString, TrackedKept
<1> QED
  BY <1>1 DEF OutTracked

\* The same of the input.
LEMMA InsKept ==
  ASSUME NEW l \in Seq(Token), Spaced(l), NEW n, NEW d,
         NEW t \in [Fd -> Descriptions], NEW u,
         \A e \in Fd : t[e] # Closed => u[e] = t[e], InTracked(l, n, d, t)
  PROVE  InTracked(l, n, d, u)
<1>1. ASSUME NEW k \in Ins(l), InIs(d, t, l[k + 1]) PROVE InIs(d, u, l[k + 1])
  BY <1>1, OperandString, TrackedKept
<1> QED
  BY <1>1 DEF InTracked

\* What is counted up to an operator is what is counted up to its operand.
LEMMA UptoOperand ==
  ASSUME NEW l \in Seq(Token), NEW m \in Nat, m + 2 \in 1 .. Len(l), l[m + 2].op = ""
  PROVE  /\ Cost(l, m) \in Nat
         /\ l[m + 1].op = ">" => /\ Cost(l, m + 2) = Cost(l, m) + 2
                                 /\ LastOf(Outs(l), m + 2, m + 1)
                                 /\ Upto(Ins(l), m + 2) = Upto(Ins(l), m)
         /\ l[m + 1].op = "<" => /\ Cost(l, m + 2) = Cost(l, m) + 1
                                 /\ LastOf(Ins(l), m + 2, m + 1)
                                 /\ Upto(Outs(l), m + 2) = Upto(Outs(l), m)
<1>1. /\ m + 1 \in Nat /\ m + 1 <= Len(l) /\ (m + 1) + 1 = m + 2 /\ (m + 1) + 1 <= Len(l)
  <2>1. Len(l) \in Nat
    BY LineFacts
  <2> QED
    BY <2>1, Positions
<1>2. /\ Cost(l, m + 2) = Cost(l, m + 1)
      /\ Upto(Outs(l), m + 2) = Upto(Outs(l), m + 1)
      /\ Upto(Ins(l), m + 2) = Upto(Ins(l), m + 1)
  <2>1. /\ Cost(l, (m + 1) + 1) = Cost(l, m + 1)
        /\ Upto(Outs(l), (m + 1) + 1) = Upto(Outs(l), m + 1)
        /\ Upto(Ins(l), (m + 1) + 1) = Upto(Ins(l), m + 1)
    BY <1>1, CostFacts
  <2> QED
    BY <1>1, <2>1
<1>3. \A S : m + 1 \in Upto(S, m + 1) => LastOf(S, m + 1, m + 1)
  BY DEF LastOf, Upto
<1>4. /\ Upto(Outs(l), m + 2) = Upto(Outs(l), m + 1) =>
           (LastOf(Outs(l), m + 1, m + 1) => LastOf(Outs(l), m + 2, m + 1))
      /\ Upto(Ins(l), m + 2) = Upto(Ins(l), m + 1) =>
           (LastOf(Ins(l), m + 1, m + 1) => LastOf(Ins(l), m + 2, m + 1))
  BY DEF LastOf
<1>5. Cost(l, m) \in Nat
  BY <1>1, CostFacts
<1>6. CASE l[m + 1].op = ">"
  <2>1. /\ Cost(l, m + 1) = Cost(l, m) + 2
        /\ Upto(Outs(l), m + 1) = Upto(Outs(l), m) \union {m + 1}
        /\ Upto(Ins(l), m + 1) = Upto(Ins(l), m)
    BY <1>1, <1>6, CostFacts
  <2>2. LastOf(Outs(l), m + 2, m + 1)
    BY <1>2, <1>3, <1>4, <2>1
  <2> QED
    BY <1>2, <1>5, <1>6, <2>1, <2>2
<1>7. CASE l[m + 1].op = "<"
  <2>1. /\ Cost(l, m + 1) = Cost(l, m) + 1
        /\ Upto(Outs(l), m + 1) = Upto(Outs(l), m)
        /\ Upto(Ins(l), m + 1) = Upto(Ins(l), m) \union {m + 1}
    BY <1>1, <1>7, CostFacts
  <2>2. LastOf(Ins(l), m + 2, m + 1)
    BY <1>2, <1>3, <1>4, <2>1
  <2> QED
    BY <1>2, <1>5, <1>7, <2>1, <2>2
<1> QED
  BY <1>5, <1>6, <1>7

\* With room for the line there are two free descriptors left when a `>` is met.
LEMMA RoomForTwo ==
  ASSUME IInv, Scanned, Spaced(line), Counted, Room(line),
         i < Len(line), line[i + 1].op = ">"
  PROVE  Free(fd) >= 2
<1>1. /\ line \in Seq(Token) /\ i \in Nat /\ i + 2 \in 1 .. Len(line)
      /\ line[i + 2].op = ""
  BY AtIndex
<1>2. Cost(line, i + 2) = Cost(line, i) + 2 /\ Cost(line, i) \in Nat
  BY <1>1, UptoOperand
<1>3. i + 2 \in Nat
  BY <1>1, Positions
<1>4. Cost(line, i + 2) <= 2 * Cardinality(Outs(line)) + Cardinality(Ins(line))
  BY <1>1, <1>3, CostWhole
<1>5. Free(before) >= 2 + 2 * Cardinality(Outs(line)) + Cardinality(Ins(line))
  BY DEF Room, Free
<1>6. Free(before) <= Free(fd) + Cardinality(SavedSet(saved)) + Cost(line, i)
  BY DEF Counted
<1>7. /\ Free(before) \in Nat /\ Free(fd) \in Nat
      /\ Cardinality(SavedSet(saved)) \in 0 .. 2
  BY FreeFinite, SavedFew
<1>8. 2 * Cardinality(Outs(line)) + Cardinality(Ins(line)) \in Nat
      /\ Cardinality(Outs(line)) \in Nat /\ Cardinality(Ins(line)) \in Nat
  <2>1. Cardinality(Outs(line)) \in Nat /\ Cardinality(Ins(line)) \in Nat
    BY <1>1, LineFacts, UptoFinite
  <2> QED
    BY <2>1
<1> QED
  BY <1>2, <1>4, <1>5, <1>6, <1>7, <1>8

\* Opening files for the line keeps the saved descriptors in use.
LEMMA SavedStillInUse ==
  ASSUME SavedInUse, UNCHANGED saved, FreeFds(fd') \subseteq FreeFds(fd)
  PROVE  SavedInUse'
BY DEF SavedInUse

\* The command of such a line is not cut off.
LEMMA FirstKept ==
  ASSUME IInv, Scanned, Spaced(line)
  PROVE  args[0] = line[1]
<1>1. line \in Seq(Token) /\ Len(line) \in Nat
  BY AtIndex
<1>2. Len(line) >= 1 /\ line[1].op = ""
  BY <1>1, SpacedFacts
<1>3. 0 \in 0 .. Len(line) /\ 0 # Len(line) /\ 0 + 1 = 1
  BY <1>1, <1>2, Positions
<1>4. args[0] = IF 0 = Len(line) \/ (0 < i /\ line[0 + 1].op # "") THEN Null
                ELSE line[0 + 1]
  BY <1>3 DEF Scanned, Shows
<1> QED
  BY <1>2, <1>3, <1>4

\* `>` costs at most two descriptors: one it opens, one for the `out` it forgets.
LEMMA RedirectOutSpaced ==
  ASSUME IInv, LineInv, RedirectOut
  PROVE  LineInv'
<1>1. /\ pc = "scan" /\ Scanning /\ Skip /\ i' = i + 2
      /\ UNCHANGED <<pc, saved, line, before>>
  BY DEF RedirectOut, Skip, Scanning
<1>2. fd \in [Fd -> Descriptions]
  BY DEF IInv, TypeOK
<1>0. Text(i).op = ">" /\ Operand # Null
  BY DEF RedirectOut
<1> PICK f : f = Operand /\
      \/ /\ f \in Unwritable
         /\ target' = [target EXCEPT !.out = Failed]
         /\ UNCHANGED <<fd, written>>
      \/ /\ f \notin Unwritable
         /\ \E c, o \in FdOrFailed :
              LET created == Install(fd, c, Opened("w", f)) IN
              /\ Returns(fd, c) /\ Returns(created, o)
              /\ target' = [target EXCEPT !.out = o]
              /\ fd' = Install(created, o, Opened("w", f))
              /\ written' = IF c = Failed THEN written ELSE written \union {f}
  BY DEF RedirectOut
<1>3. f \in Strings
  BY <1>0, OperandType DEF IInv
<1>4. target' = [target EXCEPT !.out = target'.out] /\ target'.in = target.in
  <2>1. target \in [out : FdOrFailed, in : FdOrFailed]
    BY DEF IInv, TypeOK
  <2>2. \E d \in FdOrFailed \union {Failed} : target' = [target EXCEPT !.out = d]
    OBVIOUS
  <2> QED
    BY <2>1, <2>2
\* What the open leaves in the table and in `out`.
<1>5. /\ Free(fd) <= Free(fd') + 2
      /\ FreeFds(fd') \subseteq FreeFds(fd)
      /\ \A e \in Fd : fd[e] # Closed => fd'[e] = fd[e]
      /\ Free(fd) >= 2 => OutIs(target'.out, fd', f)
  <2>1. target \in [out : FdOrFailed, in : FdOrFailed]
    BY DEF IInv, TypeOK
  <2>2. CASE f \in Unwritable
    <3>1. target'.out = Failed /\ fd' = fd
      BY <2>1, <2>2
    <3>2. Free(fd) \in Nat
      BY FreeFinite
    <3> QED
      BY <2>2, <3>1, <3>2 DEF OutIs
  <2>3. CASE f \notin Unwritable
    <3> PICK c \in FdOrFailed, o \in FdOrFailed :
          LET created == Install(fd, c, Opened("w", f)) IN
          /\ Returns(fd, c) /\ Returns(created, o)
          /\ target' = [target EXCEPT !.out = o]
          /\ fd' = Install(created, o, Opened("w", f))
      BY <2>3
    <3> DEFINE x == Opened("w", f)
               created == Install(fd, c, x)
    <3>1. /\ Returns(fd, c) /\ Returns(created, o) /\ fd' = Install(created, o, x)
          /\ target'.out = o
      BY <2>1
    <3>2. x \in Descriptions /\ x # Closed
      BY <1>3, Kinds
    <3> HIDE DEF x
    <3>3. created \in [Fd -> Descriptions]
      BY <1>2, <3>2, InstallType
    <3>4. \A e \in Fd : fd[e] # Closed => created[e] = fd[e]
      BY <1>2, <3>1, InstallKeeps
    <3>5. /\ Free(fd) <= Free(created) + 1
          /\ c = Failed => created = fd
          /\ c # Failed => FreeFds(created) = FreeFds(fd) \ {c}
      BY <1>2, <3>1, <3>2, Taken
    <3> HIDE DEF created
    <3>6. \A e \in Fd : created[e] # Closed => fd'[e] = created[e]
      BY <3>1, <3>3, InstallKeeps
    <3>7. /\ Free(created) <= Free(fd') + 1
          /\ o = Failed => fd' = created
          /\ o # Failed => o \in Fd /\ FreeFds(fd') = FreeFds(created) \ {o}
          /\ Free(created) >= 1 => o # Failed
      BY <3>1, <3>2, <3>3, Taken
    <3>8. Free(fd) \in Nat /\ Free(created) \in Nat /\ Free(fd') \in Nat
      BY FreeFinite
    <3>9. ASSUME Free(fd) >= 2 PROVE OutIs(target'.out, fd', f)
      <4>1. o # Failed
        BY <3>5, <3>7, <3>8, <3>9
      <4>2. o \in Fd /\ fd'[o] = x
        BY <3>1, <3>3, <3>7, <4>1, InstallValue
      <4> QED
        BY <2>3, <3>1, <4>2 DEF x, OutIs
    <3>10. Free(fd) <= Free(fd') + 2
      BY <3>5, <3>7, <3>8
    <3>11. FreeFds(fd') \subseteq FreeFds(fd)
      BY <3>5, <3>7
    <3>12. \A e \in Fd : fd[e] # Closed => fd'[e] = fd[e]
      BY <3>4, <3>6
    <3> QED
      BY <3>9, <3>10, <3>11, <3>12
  <2> QED
    BY <2>2, <2>3
<1>6. SavedInUse'
  BY <1>1, <1>5, SavedStillInUse DEF LineInv, ScanSound
<1>7. ASSUME Spaced(line)
      PROVE  /\ Scanned' /\ Counted' /\ InTracked(line', i', target'.in, fd')
             /\ Room(line) => OutTracked(line', i', target'.out, fd')
  <2>1. /\ Scanned /\ Counted /\ InTracked(line, i, target.in, fd)
    BY <1>1, <1>7 DEF LineInv, ScanSound
  <2>2. i < Len(line) /\ line[i + 1].op = ">" /\ line[i + 1].op # ""
    <3>1. Text(i).op \in {">", "<"}
      BY <1>0
    <3>2. i < Len(line) /\ Text(i) = line[i + 1] /\ line[i + 1].op # ""
      BY <1>7, <2>1, <3>1, OperatorAt
    <3>3. line[i + 1].op = Text(i).op
      BY ONLY <3>2, Zenon
    <3> QED
      BY <1>0, <3>2, <3>3
  <2>3. /\ line \in Seq(Token) /\ i \in Nat /\ i + 2 \in 1 .. Len(line)
        /\ line[i + 2].op = "" /\ f = line[i + 2] /\ i + 1 \in 1 .. Len(line)
    BY <1>7, <2>1, <2>2, AtIndex
  <2>4. Scanned'
    BY <1>1, <1>7, <2>1, <2>2, SkipSpaced
  <2>5. /\ Cost(line, i + 2) = Cost(line, i) + 2 /\ Cost(line, i) \in Nat
        /\ LastOf(Outs(line), i + 2, i + 1)
        /\ Upto(Ins(line), i + 2) = Upto(Ins(line), i)
    BY <2>2, <2>3, UptoOperand
  <2>6. Counted'
    <3>1. /\ Free(before) \in Nat /\ Free(fd) \in Nat /\ Free(fd') \in Nat
          /\ Cardinality(SavedSet(saved)) \in Nat
      BY FreeFinite, SavedFew
    <3>2. Free(before) <= Free(fd) + Cardinality(SavedSet(saved)) + Cost(line, i)
      BY <2>1 DEF Counted
    <3>3. Free(before) <= Free(fd') + Cardinality(SavedSet(saved)) + Cost(line, i + 2)
      BY <1>5, <2>5, <3>1, <3>2
    <3> QED
      BY <1>1, <3>3 DEF Counted
  <2>7. InTracked(line', i', target'.in, fd')
    <3>1. InTracked(line, i, target.in, fd')
      BY <1>2, <1>5, <1>7, <2>1, <2>3, InsKept
    <3> QED
      BY <1>1, <1>4, <2>5, <3>1 DEF InTracked, LastOf
  <2>8. ASSUME Room(line) PROVE OutTracked(line', i', target'.out, fd')
    <3>1. OutIs(target'.out, fd', line[i + 2])
      BY <1>5, <1>7, <2>1, <2>2, <2>3, <2>8, RoomForTwo
    <3>2. i + 1 \in Outs(line) /\ (i + 1) + 1 = i + 2
      BY <2>2, <2>3, LineFacts, Positions
    <3>3. \E k \in Outs(line) : /\ LastOf(Outs(line), i + 2, k)
                                /\ OutIs(target'.out, fd', line[k + 1])
      BY <2>5, <3>1, <3>2
    <3> QED
      BY <1>1, <3>3 DEF OutTracked
  <2> QED
    BY <2>4, <2>6, <2>7, <2>8
<1>8. Room(line)' = Room(line) /\ Spaced(line)' = Spaced(line)
  BY <1>1 DEF Room, Spaced
<1>9. ScanSound'
  BY <1>6, <1>7, <1>8 DEF ScanSound
<1> QED
  BY <1>1, <1>9, WithinScan DEF Scanning

\* `<` costs at most the one it opens.
LEMMA RedirectInSpaced ==
  ASSUME IInv, LineInv, RedirectIn
  PROVE  LineInv'
<1>1. /\ pc = "scan" /\ Scanning /\ Skip /\ i' = i + 2
      /\ UNCHANGED <<pc, saved, line, before>>
  BY DEF RedirectIn, Skip, Scanning
<1>2. fd \in [Fd -> Descriptions] /\ target \in [out : FdOrFailed, in : FdOrFailed]
  BY DEF IInv, TypeOK
<1>0. Text(i).op = "<" /\ Operand # Null
  BY DEF RedirectIn
<1> PICK f : f = Operand
  OBVIOUS
<1> PICK d \in FdOrFailed :
      /\ Returns(fd, d) \/ d = Failed
      /\ target' = [target EXCEPT !.in = d]
      /\ fd' = Install(fd, d, Opened("r", f))
  BY DEF RedirectIn
<1>3. f \in Strings
  BY <1>0, OperandType DEF IInv
<1>4. target'.in = d /\ target'.out = target.out
  BY <1>2
<1>5. /\ Free(fd) <= Free(fd') + 1
      /\ FreeFds(fd') \subseteq FreeFds(fd)
      /\ \A e \in Fd : fd[e] # Closed => fd'[e] = fd[e]
      /\ InIs(d, fd', f)
  <2> DEFINE x == Opened("r", f)
  <2>1. x \in Descriptions /\ x # Closed /\ fd' = Install(fd, d, x)
    BY <1>3, Kinds
  <2>2. Free(fd) \in Nat
    BY FreeFinite
  <2>3. CASE d = Failed
    <3>1. fd' = fd
      BY <2>3 DEF Install
    <3> QED
      BY <2>2, <2>3, <3>1 DEF InIs
  <2> HIDE DEF x
  <2>4. CASE d # Failed
    <3>1. Returns(fd, d)
      BY <2>4
    <3>2. /\ Free(fd) <= Free(fd') + 1
          /\ d \in Fd /\ FreeFds(fd') = FreeFds(fd) \ {d}
      BY <1>2, <2>1, <2>4, <3>1, Taken
    <3>3. \A e \in Fd : fd[e] # Closed => fd'[e] = fd[e]
      BY <1>2, <2>1, <3>1, InstallKeeps
    <3>4. fd'[d] = x
      BY <1>2, <2>1, <3>2, InstallValue
    <3> QED
      BY <3>2, <3>3, <3>4 DEF x, InIs
  <2> QED
    BY <2>3, <2>4
<1>6. SavedInUse'
  BY <1>1, <1>5, SavedStillInUse DEF LineInv, ScanSound
<1>7. ASSUME Spaced(line)
      PROVE  /\ Scanned' /\ Counted' /\ InTracked(line', i', target'.in, fd')
             /\ Room(line) => OutTracked(line', i', target'.out, fd')
  <2>1. /\ Scanned /\ Counted
        /\ Room(line) => OutTracked(line, i, target.out, fd)
    BY <1>1, <1>7 DEF LineInv, ScanSound
  <2>2. i < Len(line) /\ line[i + 1].op = "<" /\ line[i + 1].op # ""
    <3>1. Text(i).op \in {">", "<"}
      BY <1>0
    <3>2. i < Len(line) /\ Text(i) = line[i + 1] /\ line[i + 1].op # ""
      BY <1>7, <2>1, <3>1, OperatorAt
    <3>3. line[i + 1].op = Text(i).op
      BY ONLY <3>2, Zenon
    <3> QED
      BY <1>0, <3>2, <3>3
  <2>3. /\ line \in Seq(Token) /\ i \in Nat /\ i + 2 \in 1 .. Len(line)
        /\ line[i + 2].op = "" /\ f = line[i + 2] /\ i + 1 \in 1 .. Len(line)
    BY <1>7, <2>1, <2>2, AtIndex
  <2>4. Scanned'
    BY <1>1, <1>7, <2>1, <2>2, SkipSpaced
  <2>5. /\ Cost(line, i + 2) = Cost(line, i) + 1 /\ Cost(line, i) \in Nat
        /\ LastOf(Ins(line), i + 2, i + 1)
        /\ Upto(Outs(line), i + 2) = Upto(Outs(line), i)
    BY <2>2, <2>3, UptoOperand
  <2>6. Counted'
    <3>1. /\ Free(before) \in Nat /\ Free(fd) \in Nat /\ Free(fd') \in Nat
          /\ Cardinality(SavedSet(saved)) \in Nat
      BY FreeFinite, SavedFew
    <3>2. Free(before) <= Free(fd) + Cardinality(SavedSet(saved)) + Cost(line, i)
      BY <2>1 DEF Counted
    <3>3. Free(before) <= Free(fd') + Cardinality(SavedSet(saved)) + Cost(line, i + 2)
      BY <1>5, <2>5, <3>1, <3>2
    <3> QED
      BY <1>1, <3>3 DEF Counted
  <2>7. InTracked(line', i', target'.in, fd')
    <3>1. i + 1 \in Ins(line) /\ (i + 1) + 1 = i + 2
      BY <2>2, <2>3, LineFacts, Positions
    <3>2. \E k \in Ins(line) : LastOf(Ins(line), i + 2, k) /\ InIs(d, fd', line[k + 1])
      BY <1>5, <2>3, <2>5, <3>1
    <3> QED
      BY <1>1, <1>4, <3>2 DEF InTracked
  <2>8. ASSUME Room(line) PROVE OutTracked(line', i', target'.out, fd')
    <3>1. OutTracked(line, i, target.out, fd')
      BY <1>2, <1>5, <1>7, <2>1, <2>3, <2>8, OutsKept
    <3> QED
      BY <1>1, <1>4, <2>5, <3>1 DEF OutTracked, LastOf
  <2> QED
    BY <2>4, <2>6, <2>7, <2>8
<1>8. Room(line)' = Room(line) /\ Spaced(line)' = Spaced(line)
  BY <1>1 DEF Room, Spaced
<1>9. ScanSound'
  BY <1>6, <1>7, <1>8 DEF ScanSound
<1> QED
  BY <1>1, <1>9, WithinScan DEF Scanning

\* The scan ends at the end of the line, never at a slot that an operator has left.
LEMMA ScanEndSpaced ==
  ASSUME IInv, LineInv, ScanEnd
  PROVE  LineInv'
<1>1. /\ pc = "scan" /\ Scanning /\ pc' = "lookup" /\ Text(i) = Null
      /\ UNCHANGED <<args, i, fd, saved, target, line, before>>
  BY DEF ScanEnd, Scanning
<1>2. SavedInUse'
  BY <1>1 DEF LineInv, ScanSound, SavedInUse
<1>3. ASSUME Spaced(line)
      PROVE  /\ Scanned' /\ Counted' /\ InTracked(line', i', target'.in, fd')
             /\ Room(line) => OutTracked(line', i', target'.out, fd')
  <2>1. /\ Scanned /\ Counted /\ InTracked(line, i, target.in, fd)
        /\ Room(line) => OutTracked(line, i, target.out, fd)
    BY <1>1, <1>3 DEF LineInv, ScanSound
  <2>2. i = Len(line)
    <3>1. /\ args[i] = Null /\ i \in Nat /\ Len(line) \in Nat /\ i <= Len(line)
      BY <1>1, <1>3, <2>1, AtIndex
    <3>2. ~(i < Len(line))
      BY <1>3, <2>1, <3>1, AtIndex
    <3> QED
      BY <3>1, <3>2
  <2>3. Scanned'
    BY <1>1, <2>1, <2>2 DEF Scanned
  <2>4. Counted'
    BY <1>1, <2>1 DEF Counted
  <2> QED
    BY <1>1, <2>1, <2>3, <2>4
<1>4. Room(line)' = Room(line) /\ Spaced(line)' = Spaced(line)
  BY <1>1 DEF Room, Spaced
<1>5. ScanSound'
  BY <1>2, <1>3, <1>4 DEF ScanSound
<1> QED
  BY <1>1, <1>5, WithinScan DEF Scanning

\* A lone operator has its operand: such a line is never refused.
LEMMA SyntaxErrorSpaced ==
  ASSUME IInv, LineInv, SyntaxError
  PROVE  LineInv'
<1>1. /\ pc = "scan" /\ pc' = "prompt" /\ UNCHANGED line
  BY DEF SyntaxError
<1>2. ASSUME Spaced(line) PROVE FALSE
  <2>1. Scanned
    BY <1>1, <1>2 DEF LineInv, ScanSound, Scanning
  <2>2. Text(i).op \in {">", "<"} /\ Operand = Null
    BY DEF SyntaxError
  <2>3. i < Len(line) /\ line[i + 1].op # ""
    BY <1>2, <2>1, <2>2, OperatorAt
  <2> QED
    BY <1>2, <2>1, <2>2, <2>3, AtIndex
<1>3. ~Spaced(line)'
  BY <1>1, <1>2 DEF Spaced
<1> QED
  BY <1>1, <1>3 DEF LineInv, Fresh, ScanSound, Scanning, StartedSound, DescriptorsLost,
    RunsWhatWasTyped

\* What the line costs the shell when its command has not been found.
LEMMA NotFoundSpaced ==
  ASSUME IInv, LineInv, NotFound
  PROVE  LineInv'
<1>1. /\ pc = "lookup" /\ Scanning /\ pc' = "prompt" /\ UNCHANGED <<fd, line, before>>
      /\ ~(args[0].op = "" /\ args[0].word \in Program)
  BY DEF NotFound, Scanning
<1>2. ASSUME Spaced(line)
      PROVE  Free(before) - Free(fd) <= 2 * Cardinality(Outs(line)) + Cardinality(Ins(line))
               + (IF Found(line) THEN 0 ELSE 2)
  <2>1. Scanned /\ Counted
    BY <1>1, <1>2 DEF LineInv, ScanSound
  <2>2. line \in Seq(Token) /\ i = Len(line) /\ Len(line) \in Nat
    BY <1>1, <1>2, <2>1, AtIndex DEF Scanned
  <2>3. args[0] = line[1]
    BY <1>2, <2>1, FirstKept
  <2>4. ~Found(line)
    BY <1>1, <2>3 DEF Found
  <2>5. /\ Cost(line, i) = 2 * Cardinality(Outs(line)) + Cardinality(Ins(line))
        /\ Cost(line, i) \in Nat
    BY <2>2, CostWhole
  <2>6. /\ Free(before) \in Nat /\ Free(fd) \in Nat
        /\ Cardinality(SavedSet(saved)) \in 0 .. 2
    BY FreeFinite, SavedFew
  <2>7. Free(before) - Free(fd) <= Cost(line, i) + 2
    BY <2>1, <2>5, <2>6 DEF Counted
  <2> QED
    BY <2>4, <2>5, <2>7
<1>3. DescriptorsLost'
  <2>1. Spaced(line)' = Spaced(line) /\ Found(line)' = Found(line)
    BY <1>1 DEF Spaced, Found
  <2> QED
    BY <1>1, <1>2, <2>1 DEF DescriptorsLost, Free
<1> QED
  BY <1>1, <1>3 DEF LineInv, Fresh, ScanSound, Scanning, StartedSound, RunsWhatWasTyped

\* The first and the last of a set of positions.
LEMMA EarliestIs ==
  ASSUME NEW S \in SUBSET Int, NEW k \in S, \A j \in S : k <= j
  PROVE  Earliest(S) = k
<1>1. \A m \in S : (\A j \in S : m <= j) => m = k
  OBVIOUS
<1> QED
  BY <1>1 DEF Earliest

\* Latest is the greatest member.
LEMMA LatestIs ==
  ASSUME NEW S \in SUBSET Int, NEW k \in S, \A j \in S : j <= k
  PROVE  Latest(S) = k
<1>1. \A m \in S : (\A j \in S : j <= m) => m = k
  OBVIOUS
<1> QED
  BY <1>1 DEF Latest

\* execve() finds the end of the arguments where the first operator was.
LEMMA ArgcMeant ==
  ASSUME IInv, Scanned, Spaced(line), i = Len(line), NEW n \in Nat, IsArgc(n)
  PROVE  n = MeantArgc(line)
<1> DEFINE S == Outs(line) \union Ins(line)
           e == Len(line)
<1>1. line \in Seq(Token) /\ e \in Nat
  BY AtIndex
<1>2. /\ S \in SUBSET (1 .. e) /\ \A k \in 1 .. e : k \in S <=> line[k].op # ""
  <2>1. \A k \in 1 .. e : line[k].op \in {"", ">", "<"}
    BY <1>1, LineFacts, TokenKinds
  <2> QED
    BY <1>1, <2>1, LineFacts
<1>3. \A k \in 0 .. e :
        args[k] = IF k = e \/ (k < e /\ line[k + 1].op # "") THEN Null ELSE line[k + 1]
  BY DEF Scanned, Shows
<1>4. \A k \in 1 .. e : line[k] # Null
  BY <1>1, LineFacts, TokenKinds
<1>5. MeantArgc(line) = IF S = {} THEN e ELSE Earliest(S) - 1
  BY DEF MeantArgc
<1> HIDE DEF S, e
<1>6. \A k \in Nat : k < e => (k \in 0 .. e /\ k + 1 \in 1 .. e /\ k # e)
  BY <1>1, Positions
<1>7. \A k \in Nat : k < e => (args[k] = Null <=> k + 1 \in S)
  BY <1>2, <1>3, <1>4, <1>6
<1>8. args[e] = Null
  <2>1. e \in 0 .. e
    BY <1>1
  <2> QED
    BY <1>3, <2>1
<1>9. args[n] = Null /\ \A k \in Nat : k < n => args[k] # Null
  BY DEF IsArgc
<1>10. n <= e
  BY <1>1, <1>8, <1>9
<1>11. CASE S = {}
  <2>1. ~(n < e)
    BY <1>7, <1>9, <1>11
  <2> QED
    BY <1>1, <1>5, <1>10, <1>11, <2>1
<1>12. CASE S # {}
  <2>1. ASSUME NEW j \in S PROVE n + 1 <= j /\ n < e
    <3>1. PICK k \in Nat : j = k + 1 /\ k < e
      <4>1. j \in 1 .. e
        BY <1>2
      <4> QED
        BY <1>1, <4>1, Predecessors
    <3>2. args[k] = Null
      BY <1>7, <3>1
    <3>3. ~(k < n)
      BY <1>9, <3>2
    <3> QED
      BY <1>1, <3>1, <3>3
  <2>2. n < e
    BY <1>12, <2>1
  <2>3. n + 1 \in S
    BY <1>7, <1>9, <2>2
  <2>4. S \in SUBSET Int
    <3>1. S \subseteq 1 .. e /\ 1 .. e \subseteq Int
      BY <1>1, <1>2, Predecessors
    <3> QED
      BY <3>1
  <2>5. Earliest(S) = n + 1
    BY <2>1, <2>3, <2>4, EarliestIs
  <2>6. (n + 1) - 1 = n
    OBVIOUS
  <2> QED
    BY <1>5, <1>12, <2>5, <2>6
<1> QED
  BY <1>11, <1>12

\* The terminal is what the child gets without a redirection, or when it has failed.
LEMMA DupFacts ==
  ASSUME IInv, NEW d \in FdOrFailed
  PROVE  /\ Dup2(1, 1) = Terminal /\ Dup2(0, 0) = Terminal
         /\ Dup2(Failed, 1) = Terminal /\ Dup2(Failed, 0) = Terminal
         /\ d \in Fd => Dup2(d, 1) = fd[d] /\ Dup2(d, 0) = fd[d]
<1>1. 0 \in Fd /\ 1 \in Fd /\ 0 \in 0 .. 2 /\ 1 \in 0 .. 2
  BY MaxFdAssumption DEF Fd
<1>2. fd[0] = Terminal /\ fd[1] = Terminal
  <2>1. StartedOnTerminal /\ NothingElseClosed
    BY DEF IInv
  <2> QED
    BY <1>1, <2>1, Kinds DEF StartedOnTerminal, NothingElseClosed
<1>3. \A e \in Fd : e # Failed
  BY MaxFdAssumption DEF Fd, Failed
<1> QED
  BY <1>1, <1>2, <1>3 DEF Dup2

\* The child's standard output is the last file named for it.
LEMMA StdoutMeant ==
  ASSUME IInv, line \in Seq(Token), OutTracked(line, Len(line), target.out, fd)
  PROVE  Dup2(target.out, 1) = MeantOut(line)
<1> DEFINE O == Outs(line)
<1>1. /\ Len(line) \in Nat /\ O \in SUBSET (1 .. Len(line)) /\ O \in SUBSET Int
      /\ Upto(O, Len(line)) = O
  <2>1. Len(line) \in Nat /\ O \in SUBSET (1 .. Len(line))
    BY LineFacts
  <2> QED
    BY <2>1, UptoFinite
<1>2. target.out \in FdOrFailed
  BY DEF IInv, TypeOK
<1>3. CASE O = {} /\ target.out = 1
  BY <1>2, <1>3, DupFacts DEF MeantOut
<1>4. CASE \E k \in O : LastOf(O, Len(line), k) /\ OutIs(target.out, fd, line[k + 1])
  <2>1. PICK k \in O : LastOf(O, Len(line), k) /\ OutIs(target.out, fd, line[k + 1])
    BY <1>4
  <2>2. Latest(O) = k
    BY <1>1, <2>1, LatestIs DEF LastOf
  <2>3. MeantOut(line) = IF line[k + 1] \in Unwritable THEN Terminal
                         ELSE Opened("w", line[k + 1])
    BY <2>2 DEF MeantOut
  <2> QED
    BY <1>2, <2>1, <2>3, DupFacts DEF OutIs
<1> QED
  BY <1>1, <1>3, <1>4 DEF OutTracked

\* Its standard input is the last file named for it, if that could be opened.
LEMMA StdinMeant ==
  ASSUME IInv, line \in Seq(Token), InTracked(line, Len(line), target.in, fd)
  PROVE  Dup2(target.in, 0) \in {MeantIn(line), Terminal}
<1> DEFINE I == Ins(line)
<1>1. /\ Len(line) \in Nat /\ I \in SUBSET (1 .. Len(line)) /\ I \in SUBSET Int
      /\ Upto(I, Len(line)) = I
  <2>1. Len(line) \in Nat /\ I \in SUBSET (1 .. Len(line))
    BY LineFacts
  <2> QED
    BY <2>1, UptoFinite
<1>2. target.in \in FdOrFailed
  BY DEF IInv, TypeOK
<1>3. CASE I = {} /\ target.in = 0
  BY <1>2, <1>3, DupFacts DEF MeantIn
<1>4. CASE \E k \in I : LastOf(I, Len(line), k) /\ InIs(target.in, fd, line[k + 1])
  <2>1. PICK k \in I : LastOf(I, Len(line), k) /\ InIs(target.in, fd, line[k + 1])
    BY <1>4
  <2>2. Latest(I) = k
    BY <1>1, <2>1, LatestIs DEF LastOf
  <2>3. MeantIn(line) = Opened("r", line[k + 1])
    BY <2>2 DEF MeantIn
  <2> QED
    BY <1>2, <2>1, <2>3, DupFacts DEF InIs
<1> QED
  BY <1>1, <1>3, <1>4 DEF InTracked

\* The child gets what the line asks for, and the shell closes what it saved.
LEMMA StartSpaced ==
  ASSUME IInv, LineInv, Start
  PROVE  LineInv'
<1>1. /\ pc = "lookup" /\ Scanning /\ pc' = "wait" /\ UNCHANGED <<line, before>>
      /\ args[0].op = "" /\ args[0].word \in Program /\ fd' = CloseSaved(fd)
  BY DEF Start, Scanning
<1> PICK n \in Slot : /\ IsArgc(n)
                      /\ child' = [argc |-> n, stdin |-> Dup2(target.in, 0),
                                   stdout |-> Dup2(target.out, 1)]
  BY DEF Start
<1>2. /\ n \in Nat /\ child'.argc = n /\ child'.stdin = Dup2(target.in, 0)
      /\ child'.stdout = Dup2(target.out, 1)
  BY DEF Slot
<1>3. Spaced(line)' = Spaced(line) /\ Room(line)' = Room(line)
  BY <1>1 DEF Spaced, Room
<1>4. ASSUME Spaced(line)
      PROVE  /\ Scanned /\ Counted /\ InTracked(line, i, target.in, fd) /\ SavedInUse
             /\ Room(line) => OutTracked(line, i, target.out, fd)
             /\ line \in Seq(Token) /\ i = Len(line)
  <2>1. /\ Scanned /\ Counted /\ InTracked(line, i, target.in, fd) /\ SavedInUse
        /\ Room(line) => OutTracked(line, i, target.out, fd)
    BY <1>1, <1>4 DEF LineInv, ScanSound
  <2> QED
    BY <1>1, <1>4, <2>1, AtIndex DEF Scanned
<1>5. ASSUME Spaced(line)
      PROVE  Found(line) /\ Free(before) <= Free(fd') + Cost(line, Len(line))
  <2>1. Found(line)
    BY <1>1, <1>4, <1>5, FirstKept DEF Found
  <2>2. Free(fd') = Free(fd) + Cardinality(SavedSet(saved))
    BY <1>1, <1>4, <1>5, GivenBack DEF IInv
  <2> QED
    BY <1>4, <1>5, <2>1, <2>2 DEF Counted
<1>6. StartedSound'
  <2>1. ASSUME Spaced(line)'
        PROVE  Found(line)' /\ Free(before') <= Free(fd') + Cost(line', Len(line'))
    BY <1>1, <1>3, <1>5, <2>1 DEF Found
  <2> QED
    BY <2>1 DEF StartedSound
<1>7. ASSUME Spaced(line), Room(line)
      PROVE  /\ child'.argc = MeantArgc(line) /\ child'.stdout = MeantOut(line)
             /\ child'.stdin \in {MeantIn(line), Terminal}
  <2>1. child'.argc = MeantArgc(line)
    BY <1>2, <1>4, <1>7, ArgcMeant
  <2>2. child'.stdout = MeantOut(line)
    BY <1>2, <1>4, <1>7, StdoutMeant
  <2>3. child'.stdin \in {MeantIn(line), Terminal}
    BY <1>2, <1>4, <1>7, StdinMeant
  <2> QED
    BY <2>1, <2>2, <2>3
<1>8. RunsWhatWasTyped'
  <2>1. /\ MeantArgc(line)' = MeantArgc(line) /\ MeantOut(line)' = MeantOut(line)
        /\ MeantIn(line)' = MeantIn(line)
    BY <1>1 DEF MeantArgc, MeantOut, MeantIn
  <2> QED
    BY <1>3, <1>7, <2>1 DEF RunsWhatWasTyped
<1> QED
  BY <1>1, <1>6, <1>8 DEF LineInv, Fresh, ScanSound, Scanning, DescriptorsLost

\* A command that cannot be forked costs the shell what it would have cost.
LEMMA ForkFailsSpaced ==
  ASSUME IInv, LineInv, ForkFails
  PROVE  LineInv'
<1>1. /\ pc = "lookup" /\ Scanning /\ pc' = "prompt" /\ UNCHANGED <<line, before>>
      /\ args[0].op = "" /\ args[0].word \in Program /\ fd' = CloseSaved(fd)
  BY DEF ForkFails, Scanning
<1>2. ASSUME Spaced(line)
      PROVE  Free(before) - Free(fd')
               <= 2 * Cardinality(Outs(line)) + Cardinality(Ins(line))
                    + (IF Found(line) THEN 0 ELSE 2)
  <2>1. Scanned /\ Counted /\ SavedInUse
    BY <1>1, <1>2 DEF LineInv, ScanSound
  <2>2. line \in Seq(Token) /\ i = Len(line)
    BY <1>1, <1>2, <2>1, AtIndex DEF Scanned
  <2>3. Found(line)
    BY <1>1, <1>2, <2>1, FirstKept DEF Found
  <2>4. Free(fd') = Free(fd) + Cardinality(SavedSet(saved))
    BY <1>1, <2>1, GivenBack DEF IInv
  <2>5. Free(before) <= Free(fd') + Cost(line, Len(line))
    BY <2>1, <2>2, <2>4 DEF Counted
  <2>6. Len(line) \in Nat
    BY <2>2, LineFacts
  <2>7. /\ Cost(line, Len(line)) = 2 * Cardinality(Outs(line)) + Cardinality(Ins(line))
        /\ Cost(line, Len(line)) \in Nat
    BY <2>2, <2>6, CostWhole
  <2>8. Free(before) \in Nat /\ Free(fd') \in Nat
    BY FreeFinite
  <2>9. Free(before) - Free(fd') <= Cost(line, Len(line)) + 0
    BY <2>5, <2>7, <2>8
  <2> QED
    BY <2>3, <2>7, <2>9
<1>3. DescriptorsLost'
  <2>1. Spaced(line)' = Spaced(line) /\ Found(line)' = Found(line)
    BY <1>1 DEF Spaced, Found
  <2> QED
    BY <1>1, <1>2, <2>1 DEF DescriptorsLost, Free
<1> QED
  BY <1>1, <1>3 DEF LineInv, Fresh, ScanSound, Scanning, StartedSound, RunsWhatWasTyped

\* When the program has ended the cost of the line is known.
LEMMA WaitSpaced ==
  ASSUME IInv, LineInv, Wait
  PROVE  LineInv'
<1>1. pc = "wait" /\ pc' = "prompt" /\ UNCHANGED <<fd, line, before>>
  BY DEF Wait
<1>2. ASSUME Spaced(line)
      PROVE  Free(before) - Free(fd) <= 2 * Cardinality(Outs(line)) + Cardinality(Ins(line))
               + (IF Found(line) THEN 0 ELSE 2)
  <2>1. Found(line) /\ Free(before) <= Free(fd) + Cost(line, Len(line))
    BY <1>1, <1>2 DEF LineInv, StartedSound
  <2>2. line \in Seq(Token)
    BY DEF IInv, TypeOK
  <2>3. Len(line) \in Nat
    BY <2>2, LineFacts
  <2>4. /\ Cost(line, Len(line)) = 2 * Cardinality(Outs(line)) + Cardinality(Ins(line))
        /\ Cost(line, Len(line)) \in Nat
    BY <2>2, <2>3, CostWhole
  <2>5. Free(before) \in Nat /\ Free(fd) \in Nat
    BY FreeFinite
  <2>6. Free(before) - Free(fd) <= Cost(line, Len(line)) + 0
    BY <2>1, <2>4, <2>5
  <2> QED
    BY <2>1, <2>4, <2>6
<1>3. DescriptorsLost'
  <2>1. Spaced(line)' = Spaced(line) /\ Found(line)' = Found(line)
    BY <1>1 DEF Spaced, Found
  <2> QED
    BY <1>1, <1>2, <2>1 DEF DescriptorsLost, Free
<1> QED
  BY <1>1, <1>3 DEF LineInv, Fresh, ScanSound, Scanning, StartedSound, RunsWhatWasTyped

\* A builtin costs nothing: it runs before any descriptor is opened.
LEMMA BuiltinSpaced ==
  ASSUME IInv, LineInv, Builtin
  PROVE  LineInv'
<1>1. /\ pc = "run" /\ pc' \in {"dead", "prompt"} /\ UNCHANGED <<fd, line, before>>
  BY DEF Builtin
<1>2. fd = before
  BY <1>1 DEF LineInv, Fresh
<1>3. DescriptorsLost'
  <2>1. /\ Cardinality(Outs(line)) \in Nat /\ Cardinality(Ins(line)) \in Nat
        /\ Free(fd) \in Nat
    <3>1. line \in Seq(Token)
      BY DEF IInv, TypeOK
    <3> QED
      BY <3>1, LineFacts, UptoFinite, FreeFinite
  <2>2. Free(fd) - Free(fd) <= 2 * Cardinality(Outs(line)) + Cardinality(Ins(line))
          + (IF Found(line) THEN 0 ELSE 2)
    BY <2>1
  <2>3. Spaced(line)' = Spaced(line) /\ Found(line)' = Found(line)
    BY <1>1 DEF Spaced, Found
  <2> QED
    BY <1>1, <1>2, <2>2, <2>3 DEF DescriptorsLost, Free
<1> QED
  BY <1>1, <1>3 DEF LineInv, Fresh, ScanSound, Scanning, StartedSound, RunsWhatWasTyped

\* The shell starts without a line.
LEMMA LineInvInit == Init => LineInv
<1> SUFFICES ASSUME Init PROVE LineInv
  OBVIOUS
<1>1. pc = "prompt" /\ ~Spaced(line)
  BY DEF Init, Spaced
<1> QED
  BY <1>1 DEF LineInv, Fresh, ScanSound, Scanning, StartedSound, DescriptorsLost,
    RunsWhatWasTyped

\* Each step of main() and run() preserves the invariant of the lines.
LEMMA LineInvNext == IInv /\ LineInv /\ [Next]_vars => LineInv'
<1> SUFFICES ASSUME IInv, LineInv, [Next]_vars PROVE LineInv'
  OBVIOUS
<1>1. CASE NoCommand
  BY <1>1 DEF NoCommand, LineInv, Fresh, ScanSound, Scanning, StartedSound, DescriptorsLost,
    RunsWhatWasTyped
<1>2. CASE UNCHANGED vars
  <2>1. /\ UNCHANGED <<pc, args, i, fd, saved, target, line, before, child>>
    BY <1>2 DEF vars
  <2> QED
    BY <2>1 DEF LineInv, Fresh, ScanSound, Scanning, StartedSound, DescriptorsLost,
      RunsWhatWasTyped, SavedInUse, Spaced, Scanned, Counted, InTracked, Room, OutTracked,
      Found, MeantArgc, MeantOut, MeantIn
<1> QED
  BY <1>1, <1>2, ReadLineSpaced, BuiltinSpaced, SaveSpaced, ScanWordSpaced,
    SyntaxErrorSpaced, RedirectOutSpaced, RedirectInSpaced, ScanEndSpaced, NotFoundSpaced,
    StartSpaced, ForkFailsSpaced, WaitSpaced DEF Next, Dead

\* Both invariants together are inductive.
LEMMA LineInvariance == Spec => [](IInv /\ LineInv)
<1>1. Init => IInv /\ LineInv
  BY IInvInit, LineInvInit
<1>2. (IInv /\ LineInv) /\ [Next]_vars => (IInv /\ LineInv)'
  BY IInvNext, LineInvNext
<1> QED
  BY <1>1, <1>2, PTL DEF Spec

\* run() in sh.c understands a line whose operators stand alone: the program gets
\* the arguments before the first of them and the last file named for each
\* direction, whatever was typed before, however many redirections there are.
THEOREM LinesMeanWhatTheySay == Spec => []RunsWhatWasTyped
<1>1. IInv /\ LineInv => RunsWhatWasTyped
  BY DEF LineInv
<1> QED
  BY <1>1, LineInvariance, PTL

\* What such a line costs the shell for good is bounded by its operators, also
\* when the descriptor table is full and whichever system calls fail.
THEOREM LossIsBounded == Spec => []DescriptorsLost
<1>1. IInv /\ LineInv => DescriptorsLost
  BY DEF LineInv
<1> QED
  BY <1>1, LineInvariance, PTL
=============================================================================
