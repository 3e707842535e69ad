------------------------------- MODULE Shell --------------------------------
(***************************************************************************)
(* One shell, src/bin/sh.c: its prompt, the argument array split_args()    *)
(* hands to run(), run()'s scan for redirections, and the descriptor table *)
(* of the shell's process.                                                 *)
(*                                                                         *)
(* split_args() uses one buffer for every line. The array of a new line    *)
(* overwrites the front of the array of the lines before, so the slots     *)
(* behind its terminating NULL still point into the text, where the new    *)
(* line's characters may have come to stand. What is left of a word whose  *)
(* front is missing counts as the same word.                               *)
(*                                                                         *)
(* A string is an operator character it begins with, if any, and the rest, *)
(* in which there is none. Any string can be the name of a file. The files *)
(* and the started programs are external; what a failed execve leads to is *)
(* the business of Session. An empty line is a stuttering step.            *)
(***************************************************************************)
EXTENDS Integers, Sequences, FiniteSets

CONSTANTS
  Word,        \* what stands in a string besides a leading operator
  NoWord,      \* nothing does
  Program,     \* the words that find_file() finds
  Token,       \* the strings that users type
  Unwritable,  \* those that name a file the user may not write
  MaxTokens,   \* how many there are at most in a line
  MaxFd,       \* the kernel's limit on open descriptors
  Inherited    \* the descriptors that login has left open (see Login)

Plain(w) == [op |-> "", word |-> w]
Strings == [op : {"", ">", "<"}, word : Word \union {NoWord}]

ASSUME TokensAssumption ==
  /\ {"exit", "cd"} \subseteq Word /\ NoWord \notin Word
  /\ Program \subseteq Word \ {"exit", "cd"}
  /\ Token \subseteq Strings
  /\ MaxTokens \in Nat

\* The shell starts with the three descriptors of its session, and others.
ASSUME MaxFdAssumption ==
  MaxFd \in Nat /\ MaxFd >= 3 /\ Inherited \subseteq 3 .. MaxFd - 1

VARIABLES
  pc,       \* where the shell is in main() and run()
  args,     \* the argument array, all of it
  i,        \* run()'s index into it
  fd,       \* the shell's descriptor table
  saved,    \* run()'s save_out and save_in
  target,   \* run()'s out and in
  line,     \* history: the line as it was typed
  before,   \* history: the descriptor table when it was typed
  written,  \* history: the files run() has created or truncated for it
  child     \* history: what the program it started was given

vars == <<pc, args, i, fd, saved, target, line, before, written, child>>

Null == [op |-> "null", word |-> NoWord]
Slot == 0 .. MaxTokens

Fd == 0 .. MaxFd - 1
Failed == -1    \* any negative result of a system call
FdOrFailed == Fd \union {Failed}
Terminal == [mode |-> "rw", file |-> Null]
Closed == [mode |-> "none", file |-> Null]
Opened(m, f) == [mode |-> m, file |-> f]
PasswordFile == Opened("r", Null)
Descriptions == [mode : {"none", "r", "w", "rw"}, file : Strings \union {Null}]

\* Before the first command, and after a line that started none.
NoChild == [argc |-> 0, stdin |-> Terminal, stdout |-> Terminal]

TypeOK ==
  /\ pc \in {"prompt", "run", "scan", "lookup", "wait", "dead"}
  /\ args \in [Slot -> Strings \union {Null}]
  /\ i \in 0 .. MaxTokens + 1
  /\ fd \in [Fd -> Descriptions]
  /\ saved \in [out : FdOrFailed, in : FdOrFailed]
  /\ target \in [out : FdOrFailed, in : FdOrFailed]
  /\ line \in Seq(Token) /\ Len(line) <= MaxTokens
  /\ before \in [Fd -> Descriptions]
  /\ written \subseteq Strings
  /\ child \in [argc : 0 .. MaxTokens, stdin : Descriptions, stdout : Descriptions]

Init ==
  /\ pc = "prompt"
  /\ args = [k \in Slot |-> Null]
  /\ i = 0
  /\ fd = [d \in Fd |-> IF d < 3 THEN Terminal
                       ELSE IF d \in Inherited THEN PasswordFile ELSE Closed]
  /\ saved = [out |-> Failed, in |-> Failed]
  /\ target = [out |-> 1, in |-> 0]
  /\ line = << >>
  /\ before = fd
  /\ written = {}
  /\ child = NoChild

-----------------------------------------------------------------------------
(* The system calls on a descriptor table t *)

FreeFds(t) == {d \in Fd : t[d] = Closed}

\* A call for a new descriptor returns d: the lowest free one, or -EMFILE.
Returns(t, d) ==
  IF FreeFds(t) = {} THEN d = Failed
  ELSE d \in FreeFds(t) /\ \A e \in FreeFds(t) : d <= e

Install(t, d, description) ==
  IF d = Failed THEN t ELSE [t EXCEPT ![d] = description]

Close(t, d) == Install(t, d, Closed)

\* Mutant: nothing is closed.
CloseNone(t) == t

\* Mutant: the redirections' descriptors are closed as well.
CloseAll(t) ==
  Close(Close(Close(Close(t, saved.out), saved.in), target.out), target.in)

CloseSaved(t) == Close(Close(t, saved.out), saved.in)

-----------------------------------------------------------------------------
(* main() up to run() *)

\* What a pointer into the text of the line `new` may find there: one of its
\* strings, or the tail of one.
Tails(new) ==
  {new[j] : j \in DOMAIN new} \union {Plain(new[j].word) : j \in DOMAIN new}
    \union {Plain(NoWord)}

\* readline() and split_args(): the strings of the new line and a NULL, in
\* front of whatever the array held before. The slots behind it are stale: the
\* text they point to is the old one, or has been overwritten.
ReadLine ==
  /\ pc = "prompt"
  /\ \E n \in 0 .. MaxTokens : \E new \in [1 .. n -> Token] :
       \E over \in SUBSET {k \in Slot : k > n /\ args[k] # Null} :
       \E text \in [over -> Tails(new)] :
         /\ line' = new
         /\ args' = [k \in Slot |-> IF k < n THEN new[k + 1]
                                    ELSE IF k = n THEN Null
                                    ELSE IF k \in over THEN text[k] ELSE args[k]]
  /\ pc' = "run"
  /\ before' = fd
  /\ written' = {}
  /\ child' = NoChild
  /\ UNCHANGED <<i, fd, saved, target>>

\* args[k], also behind the array, where the buffer holds no argument.
Text(k) == IF k <= MaxTokens THEN args[k] ELSE Null

-----------------------------------------------------------------------------
(* run() *)

\* The command is a blank line or (after the scan) missing: strcmp() or
\* strcpy() gets a null pointer.
NoCommand ==
  /\ pc \in {"run", "lookup"} /\ args[0] = Null
  /\ pc' = "dead"
  /\ UNCHANGED <<args, i, fd, saved, target, line, before, written, child>>

\* The builtins come before any redirection is looked at.
Builtin ==
  /\ pc = "run" /\ args[0] \in {Plain("exit"), Plain("cd")}
  /\ pc' = IF args[0] = Plain("exit") THEN "dead" ELSE "prompt"
  /\ UNCHANGED <<args, i, fd, saved, target, line, before, written, child>>

\* Mutant: out and in keep the values of the line before.
SaveWithoutReset ==
  /\ pc = "run" /\ args[0] \notin {Null, Plain("exit"), Plain("cd")}
  /\ \E o, d \in FdOrFailed :
       LET dup == Install(fd, o, fd[1]) IN
       /\ Returns(fd, o) /\ Returns(dup, d)
       /\ saved' = [out |-> o, in |-> d]
       /\ fd' = Install(dup, d, fd[0])
  /\ i' = 0
  /\ pc' = "scan"
  /\ UNCHANGED <<args, target, line, before, written, child>>

SaveDescriptors ==
  /\ pc = "run" /\ args[0] \notin {Null, Plain("exit"), Plain("cd")}
  /\ \E o, d \in FdOrFailed :
       LET dup == Install(fd, o, fd[1]) IN
       /\ Returns(fd, o) /\ Returns(dup, d)
       /\ saved' = [out |-> o, in |-> d]
       /\ fd' = Install(dup, d, fd[0])
  /\ target' = [out |-> 1, in |-> 0]
  /\ i' = 0
  /\ pc' = "scan"
  /\ UNCHANGED <<args, line, before, written, child>>

ScanWord ==
  /\ pc = "scan"
  /\ Text(i).op = ""
  /\ i' = i + 1
  /\ UNCHANGED <<pc, args, fd, saved, target, line, before, written, child>>

\* The file an operator at the index is applied to, `>file` or `> file`.
Operand == IF Text(i).word # NoWord THEN Plain(Text(i).word) ELSE Text(i + 1)

\* A bare operator with nothing behind it. The loop's own opens stay open.
SyntaxError ==
  /\ pc = "scan"
  /\ Text(i).op \in {">", "<"} /\ Operand = Null
  /\ fd' = CloseSaved(fd)
  /\ pc' = "prompt"
  /\ UNCHANGED <<args, i, saved, target, line, before, written, child>>

\* Mutant: one slot too many.
SkipTooFar ==
  /\ args' = [args EXCEPT ![i] = Null]
  /\ i' = i + 3
  /\ UNCHANGED <<pc, saved, line, before, child>>

\* Both forms cut the arguments off at the operator and skip the next slot,
\* also when it does not hold the file's name.
Skip ==
  /\ args' = [args EXCEPT ![i] = Null]
  /\ i' = i + 2
  /\ UNCHANGED <<pc, saved, line, before, child>>

\* creat() opens the file too, and the descriptor it returns is dropped.
RedirectOut ==
  /\ pc = "scan"
  /\ Text(i).op = ">" /\ Operand # Null
  /\ LET f == Operand IN
       \/ /\ f \in Unwritable
          /\ target' = [target EXCEPT !.out = Failed]
          /\ UNCHANGED <<fd, written>>
       \/ /\ f \notin Unwritable
          /\ \E c, o \in FdOrFailed :
               LET created == Install(fd, c, Opened("w", f)) IN
               /\ Returns(fd, c) /\ Returns(created, o)
               /\ target' = [target EXCEPT !.out = o]
               /\ fd' = Install(created, o, Opened("w", f))
               /\ written' = IF c = Failed THEN written ELSE written \union {f}
  /\ Skip

\* The file need not exist.
RedirectIn ==
  /\ pc = "scan"
  /\ Text(i).op = "<" /\ Operand # Null
  /\ \E d \in FdOrFailed :
       /\ Returns(fd, d) \/ d = Failed
       /\ target' = [target EXCEPT !.in = d]
       /\ fd' = Install(fd, d, Opened("r", Operand))
  /\ Skip
  /\ UNCHANGED written

ScanEnd ==
  /\ pc = "scan"
  /\ Text(i) = Null
  /\ pc' = "lookup"
  /\ UNCHANGED <<args, i, fd, saved, target, line, before, written, child>>

\* The early return leaves run()'s descriptors open, the saved ones included.
NotFound ==
  /\ pc = "lookup" /\ args[0] # Null
  /\ ~(args[0].op = "" /\ args[0].word \in Program)
  /\ pc' = "prompt"
  /\ UNCHANGED <<args, i, fd, saved, target, line, before, written, child>>

\* What dup2(d, std) leaves at std: a failed open is not noticed.
Dup2(d, std) == IF d = Failed THEN fd[std] ELSE fd[d]

\* Where execve() finds the end of the arguments.
IsArgc(n) == args[n] = Null /\ \A k \in 0 .. n - 1 : args[k] # Null

\* fork() and, in the child, dup2() and execve(); the parent closes the saved
\* descriptors and waits. (dup2() to descriptor 1 comes first, and descriptor
\* 0 is no redirection's source but its own.)
Start ==
  /\ pc = "lookup" /\ args[0] # Null
  /\ args[0].op = "" /\ args[0].word \in Program
  /\ \E n \in Slot :
       /\ IsArgc(n)
       /\ child' = [argc |-> n, stdin |-> Dup2(target.in, 0),
                    stdout |-> Dup2(target.out, 1)]
  /\ fd' = CloseSaved(fd)
  /\ pc' = "wait"
  /\ UNCHANGED <<args, i, saved, target, line, before, written>>

\* fork() fails: p < 0 takes the parent's branch, where wait() finds no child.
ForkFails ==
  /\ pc = "lookup" /\ args[0] # Null
  /\ args[0].op = "" /\ args[0].word \in Program
  /\ fd' = CloseSaved(fd)
  /\ pc' = "prompt"
  /\ UNCHANGED <<args, i, saved, target, line, before, written, child>>

\* wait() returns, run() returns.
Wait ==
  /\ pc = "wait"
  /\ pc' = "prompt"
  /\ UNCHANGED <<args, i, fd, saved, target, line, before, written, child>>

Dead == pc = "dead" /\ UNCHANGED vars

Next ==
  \/ ReadLine \/ NoCommand \/ Builtin \/ SaveDescriptors
  \/ ScanWord \/ SyntaxError \/ RedirectOut \/ RedirectIn \/ ScanEnd
  \/ NotFound \/ Start \/ ForkFails \/ Wait \/ Dead

Spec == Init /\ [][Next]_vars

-----------------------------------------------------------------------------
(* Properties *)

\* The shell's own descriptors 0, 1 and 2 stay the terminal through any series
\* of redirections, also when opens fail: run() redirects the child only.
TerminalKept == \A d \in 0 .. 2 : fd[d] = Terminal

\* No line closes or replaces a descriptor that was open when it was typed:
\* run() closes what it has opened itself, never a number it no longer owns.
NothingElseClosed == \A d \in Fd : before[d] # Closed => fd[d] = before[d]

\* A program's standard output is the terminal or a file run() has created or
\* truncated for this very line; its standard input is never a file open for
\* writing. The numbers in `out` and `in` are never stale, the table full or
\* not.
StdioSound ==
  pc = "wait" =>
    /\ child.stdout = Terminal \/ \E f \in written : child.stdout = Opened("w", f)
    /\ child.stdin = Terminal \/ child.stdin.mode = "r"

\* What a line means whose operators are all written `> file`, `< file`.
Spaced(l) ==
  /\ l # << >> /\ l[1].op = ""
  /\ \A k \in DOMAIN l : l[k].op # "" =>
       l[k].word = NoWord /\ k + 1 \in DOMAIN l /\ l[k + 1].op = ""

Outs(l) == {k \in DOMAIN l : l[k].op = ">"}
Ins(l) == {k \in DOMAIN l : l[k].op = "<"}
Latest(S) == CHOOSE k \in S : \A j \in S : j <= k
Earliest(S) == CHOOSE k \in S : \A j \in S : k <= j

MeantOut(l) ==
  IF Outs(l) = {} \/ l[Latest(Outs(l)) + 1] \in Unwritable THEN Terminal
  ELSE Opened("w", l[Latest(Outs(l)) + 1])

MeantIn(l) == IF Ins(l) = {} THEN Terminal ELSE Opened("r", l[Latest(Ins(l)) + 1])

MeantArgc(l) == IF Outs(l) \union Ins(l) = {} THEN Len(l)
                ELSE Earliest(Outs(l) \union Ins(l)) - 1

Room(l) == Cardinality(FreeFds(before))
             >= 2 + 2 * Cardinality(Outs(l)) + Cardinality(Ins(l))

\* A line whose operators stand alone runs with the arguments before the first
\* of them and the last file named for each direction, whatever lines came
\* before it, as long as there are descriptors for it. (A file that cannot be
\* opened leaves the terminal in place.)
RunsWhatWasTyped ==
  pc = "wait" /\ Spaced(line) /\ Room(line) =>
    /\ child.argc = MeantArgc(line)
    /\ child.stdout = MeantOut(line)
    /\ child.stdin \in {MeantIn(line), Terminal}

Found(l) == l[1].op = "" /\ l[1].word \in Program

\* What a line costs the shell for good: two descriptors for each `>`, one for
\* each `<`, two for a command that does not exist - and nothing without
\* those, however full the table is.
DescriptorsLost ==
  pc = "prompt" /\ Spaced(line) =>
    Cardinality(FreeFds(before)) - Cardinality(FreeFds(fd))
      <= 2 * Cardinality(Outs(line)) + Cardinality(Ins(line))
         + (IF Found(line) THEN 0 ELSE 2)

\* sh.c:130 and 132: run() takes redirections written `cmd >out` and
\* `cmd > out`. The only files a line may then create or truncate are those
\* that stand behind a `>` in it.
NamedBehind(l) ==
  {Plain(l[k].word) : k \in {j \in Outs(l) : l[j].word # NoWord}}
    \union {l[k + 1] : k \in {j \in Outs(l) : j + 1 \in DOMAIN l}}

OnlyNamedFilesWritten == pc = "wait" => written \subseteq NamedBehind(line)

=============================================================================
