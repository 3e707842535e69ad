# Verification of pansy

pansy is the userland of a small Linux system: a libc of its own
(`src/libc/`), an init, a login, a shell, the editors vi and ed, a Forth, a
web server and some utilities (`src/bin/`). There is no thread in it. What is
concurrent are its processes, and what is hard to test is what lasts: the
process tree under init, a shell that handles line after line with one
argument array and one descriptor table, a heap that every program shares with
itself, an editor's state after an arbitrary series of keys.

Paths in this file and in the modules' comments are relative to the root of
the repository (`src/bin/init.c`); `PROJECT.json` names the same files with
one more `src/` in front of them.

## 1. Inventory

| component | state it keeps | operations | hard behaviour | what makes it correct |
|---|---|---|---|---|
| **init** `bin/init.c` | pid of the login session; the process table below it | mount, load the network module, `launch()` ethup, httpd and login, wait loop | children end in any order; fork, execve, open fail; pids are reused | exactly one session; relaunched when and only when it has ended; no zombie stays |
| **login** `bin/login.c`, `libc/user.c` | buffers, descriptors and identity, kept from pass to pass | read name and password, compare, setuid, execve the shell | loops that do not end at end of file; a failed execve goes round again | nobody becomes a user without the password; it gives up or asks again |
| **shell** `bin/sh.c`, `libc/tty.c` | argument array and line buffer reused by every line; descriptor table | `split_args()`, `run()`: builtins, redirections, lookup, fork/dup2/execve, wait | stale slots behind a line's NULL; descriptors leaked on early returns; a full table; a failed execve returns into the prompt's loop | a line does what it says, whatever came before; the shell keeps its terminal |
| **heap** `libc/memory.c`, `libc/string.c` | break, blocks with headers in memory | sbrk, malloc, free, memset, memcpy, memmove | size arithmetic in size_t, headers between the data, exhaustion | a program sees independent blocks that are zero when new |
| **vi** `bin/vi.c` | array of lines with an end mark, text and length of each line kept apart, cursor row/column/scroll | every key, load, save | two counters for one fact; indices by screen row or by line; a null pointer at the end mark | what is seen is what is saved; nothing typed destroys text; the array keeps its end |
| **printf** `libc/printf.c` | a static position for sprintf | format | state left over between calls | each sprintf starts at its buffer's start |
| **httpd** `bin/httpd.c`, `libc/net.c` | listening and connection descriptors | accept, recv, send a file, close | one client at a time, clients that leave at any point, error paths that close twice, no result looked at | each connection is answered and closed once, and the next one is served |
| **forth** `bin/forth.c` | data stack, dictionary, activations of `eval()` | words, definitions, files and lines, `eval()` | words that go on after an under- or overflow, a check and an execution that read a line differently, redefinition | a word does to the stack what it says; what was checked is there when it is run; evaluation ends |
| **ed** `bin/ed.c` | array of line pointers and their number | load, append, print, write, addresses | memmove on the array, no bound, numbers that overflow, memory that runs out | what is saved is what was loaded and inserted, in its order |
| **file utilities** `cat p ls rm rmdir whoami` | a buffer | read, print, unlink | -errno taken for data | they end |
| **trivial utilities** `args clear echo false true sysinfo` | none | print, return | - | - |
| **rest of libc** | none | numbers, characters, termios, time, mathematics, start-up | - | - |

How they interact. init forks and executes everything; login turns into the
shell by execve, in the same process, so that init's remembered pid is the
shell's. The shell forks each command and waits for it. Programs share nothing
but descriptors inherited over fork (the terminal, and files a redirection put
at 0 and 1), the file system, and the parent links that decide who reaps whom.
In every program the libc's heap is below everything: the shell and vi count on
what malloc returns being zero, which is a property of the heap's never being
reused.

`hazards` in `PROJECT.json` lists, line by line, where this can go wrong and
which property would show it.

## 2. Modules

| module | models | relation |
|---|---|---|
| `Supervisor` | abstract: what init promises about sessions, without processes | |
| `Session` | `init.c`, the life of login, shells, commands and daemons | refines `Supervisor` |
| `SessionProofs` | theorems about `Session` | |
| `Shell` | `sh.c`: argument array, `run()`, descriptor table | |
| `ShellProofs` | theorems about `Shell` | |
| `Store` | abstract: what a program expects of its heap, without addresses | |
| `Memory` | `memory.c` and the writing functions of `string.c` | refines `Store` |
| `MemoryProofs` | theorems about `Memory` | |
| `Vi` | `vi.c` | |
| `ViProofs` | theorems about `Vi` | |
| `Login` | `login.c` with sprintf's position and the calls of `user.c` | |
| `LoginProofs` | theorems about `Login` | |
| `Document` | abstract: what an editor of inserted lines promises about its file | |
| `Ed` | `ed.c` | refines `Document` |
| `EdProofs` | theorems about `Ed` | |
| `StackMachine` | abstract: what a Forth promises about its stack, word by word | |
| `Forth` | `forth.c` | refines `StackMachine` |
| `ForthProofs` | theorems about `Forth` | |
| `Httpd` | `httpd.c` with its clients, `net.c` | |
| `HttpdProofs` | theorems about `Httpd` | |
| `MC*` | instances of these for TLC | |

`Session` and `Shell` are two views of the shell: in `Session` it is one
process among others and its descriptors are reduced to "is descriptor 1 the
terminal"; in `Shell` it is alone with its descriptors, and what a started
program does is left out. The seam is fork: `Shell.Start` is
`Session.ShellCommand`. `Vi` uses of the heap only what `Memory` establishes
(`BlocksApart`, `HeapIntact`): a line's block is private and starts as zeros.
`Ed` has the two ways in which `Memory` can refuse: a malloc() that returns
NULL, and a memmove() that moves nothing because the heap is full. `Login` is
the inside of what `Session` calls login: its step to `shell` is
`Session.LoginExec`, and its `lost` is `LoginCrash`. `Httpd` is the inside of
the daemon that `Session` starts and reaps, with the descriptors that `launch()`
leaves to it; its `dead` is `Session.ProgramExit`, after which nothing starts it
again. `Forth` is a command like any other.

### Session

State: for every pid the kernel can hand out what it stands for (`free`,
forked `child`, `run`, `wait`, `spin`, `zombie`), its program, its parent,
whether descriptor 1 is the terminal; init's program counter `pc` and its
variable `login`. `LoadModule` … `RelaunchLogin` are the statements of
`main()`; `LaunchedChild` is `launch()` after fork in the child; `InitWait` the
loop at the end. `Fork`, `Die` and `Reap` are the kernel's, modelled from how
the code uses them: a pid may be reused as soon as it has been waited for, and
a dead process's children go to init. `Faults` selects what may go wrong:
`finit_module` with EPERM, fork, execve, /dev/null, a fault in login. Two
consequences of the code that are easily missed are in the model: a command
whose execve fails becomes a second shell (`ShellChild`), and a shell whose
descriptor 1 is a file "reads" the current directory as a command, for ever
(`ShellRunsCwd`). mknod, mkdir and mount are calls whose result nobody looks
at; they have no action. Under the mapping to `Supervisor` a session is `lost` not
only when fork() was refused, but also when login's execve failed: its child is
kept in `launch()`'s loop and never ends (`init.c:54`).

### Shell

State: the whole argument array `args`, run()'s index `i`, the descriptor
table `fd`, what run() saved, and the targets of the redirections. A string is
an operator character (or none) and the rest; a line is a sequence of strings,
so quoting and the bytes of the buffer are abstracted. Because the text behind
a stale slot may have been overwritten by any line since, `ReadLine` leaves some of
these slots as they are and gives others a string of the new line, its tail, or
nothing (`Tails`); a line whose strings read alike later therefore starts from
what the lines in between have left. fork() may be refused (`ForkFails`): wait()
then has nobody to wait for, and the command is dropped in silence. The shell is started by login, which leaves the descriptors of
password files open (`Inherited`). `line`, `before`, `written` and `child` are history variables;
no guard of an action reads `before`, `written` or `child`, and `line` only
serves to tell stale slots from fresh ones.

### Memory

State: the break, memory as an array of cells, the list of blocks handed out,
and whether the program has been killed. Of a header only the flag `free` is
kept, in each of its cells, so that damage to any cell of it shows. The
program's calls are those of a correct program (within live blocks; memset
from a block's start; memcpy without overlap). memset is modelled by the
range it fills, in a `size_t` that wraps: `Offset(d) + (n - Offset(d)) % Wrap`.
A range that leaves memory kills the program; under the mapping to `Store` that is
`Crash`, which `Store` allows only to fills that may be too short to align a pointer
(`Short`).

### Vi

State: `struct editor_state` without its file name, the file on the disk,
whether vi is reading keys, has quit, or has left its memory. Operators named
like the source's functions (`insert_line`, `shiftright`, `goto_eol`, …) take
and return an editor; the actions are the keys. The text of a line (its block
up to `Width` cells) and its `length` are separate, as in the code. A key that
follows the null pointer of the end mark leads to `lost`, as does a malloc() that
fails, in a key that inserts a line or while a file is loaded (`NoMemory`). `careful` is a
history variable that says when two of the properties are claimed, see below.

### Login

State: where login is in its loop, the name and password last typed, and what
outlives a pass: `free`, the descriptors it can still open (the password file
is opened twice and closed once); `pos` and `path`, sprintf()'s static
position and the array that it writes to, a path reduced to the user whose uid
file it names; `uid` and `gid`. `given`, the users whose password has been given so
far, is a history variable. A path of the empty name breaks sprintf()'s position,
since an empty piece begins with its end (`printf.c:138`). The actions are
the statements of `main()` between two inputs or calls. `read_id` says which
results read_id() may have, as a predicate, since its variable `c` is not
initialized: a complete line, 0 for an empty line found at the end of the
file, or no end at all. What files there are and what they contain are
constants; what a process that is not root may read is left open (`Readable`).

### Ed

State: the array `lines`, its count `amt`, whether ed takes commands or lines
(`mode`), the line to append behind, and the file with what one needs to know
of its permissions. `Insert` is one round of buffer_append(), with its memmove
of one pointer more than there are lines; `buffer_append`, `buffer_open` and
`Written` are compositions of it over a file's lines. Files are sequences of
bytes, as cutting a file at its newlines, and at its first zero byte, is what
could be wrong; `disk` is overlaid and never cut, as open() is called without
O_TRUNC. A file that open() creates gets the mode 0 (libc's open() passes no
mode, `libc/fs.c:33`), so that a user who is not root cannot open it a second
time. malloc() and memmove() may fail in any command, and malloc() while a file is
loaded (`LaunchShort`). Under the mapping to `Document`, the text is the first `amt` lines;
`sound`, a history variable, says when ed still promises something.

### Forth

State: the data stack, the dictionary as a list of names with their code, and
the activations of `eval()` (`frames`), each with its tokens, how far it has come,
and what it is doing: the three states of words_exist() (`words`, `comment`,
`string`) or running. Each round of the loops in words_exist() and eval() is a
step. What is inside a token is abstracted: which tokens are numbers and of
which value, which end in a quotation mark. `Compute` is the words that only pop
and push; `Results` gives what they push as a function of what their pops
returned, in the order of the calls. The actions keep the code's habits: a full
stack drops what is pushed, an empty one gives 0, the result of a nested `eval()`
is ignored, `."` takes one token, a colon takes its first body token unseen. Ways
to end: `quit`, `gone` (exit(1): a definition without `;`, a file that cannot be
opened) and `lost` (a division that traps, strcpy() from NULL, no memory, no room
on the C stack, a file that cannot be read). The last line of a file has its last
character doubled if no newline follows (`ReadLastLine`). Under the mapping to
`StackMachine`, the word or number that is due next is part of the abstract
state, so that each step has to have the effect of that very word. `word` of a
frame and `clean` are history variables.

### Httpd

State: where the server is, its descriptor table and its variables, and for
each connection what the client has done: connected (and queued), asked, begun to
read, left. Each call of the server is a step, so that the client may leave
between any two. A request is what the first recv() returns, with a path that
can be opened, one that cannot, or none (`malformed`; also a request whose first
piece ends too early). Each malloc() may fail (`short` remembers it), with the
consequences the code has for each: recv() fails, strcpy() faults, a body is not
sent. A send() to a client that has left may succeed or kill the server. The two
calls of `close(fd2)` are two steps (`Load`, `CloseAgain`). That `free(buf)` is given
a pointer that has moved has no effect in `Memory.Free`'s terms but on a byte
nobody reads.

## 3. What the runs check

Twelve runs. "Distinct states" and times are those of two workers on a small
machine.

| run | instance | result |
|---|---|---|
| `Session` | 5 pids, all five faults, `FairSpec` | 28,746 states, half a minute |
| `Shell` | lines of up to 4 strings out of {`cmd`, `exit`, `<`, `>f`}, table of 8, fork() may fail | 306,608 states |
| `ShellSpaced` | up to 5 strings out of {`cmd`, `f`, `>`}, `f` not writable, table of 10, fork() may fail | 449,720 states |
| `ShellNamed` | up to 4 strings out of {`cmd`, `<f`, `>f`}, table of 10 | `OnlyNamedFilesWritten` is violated |
| `Memory` | register of 2, blocks of 2 and 3, lengths of 0 and 2, room for three blocks or four | 16,313 states, a minute and a half: `Store` implemented |
| `MemorySmall` | register of 4, blocks and lengths of 1 and 2 | `FillsAreHarmless` is violated |
| `Vi` | six keys on three initial files, screen of 3 rows, memory may fail | 68,760 states |
| `Login` | six users, room for four descriptors and three paths | 14,023 states |
| `LoginIds` | the same users, none with a group of his own | `ShellHasUsersIds` is violated |
| `Ed` | array of 5, lines of up to 1 character, five initial files | 516,905 states, half a minute |
| `Forth` | three lines out of 53, ints of two bits, a stack of 6, four activations | 397,950 states, one minute |
| `Httpd` | three connections, a queue of 2, a table of 6 | 339,744 states, one minute |

**Session.** `OneReader`: of login, shells and commands at most one is not
blocked in wait(), so no two read the terminal. `NoOrphans`: besides daemons
init has no child but its session. `CleanSlate`: when init starts the next
login, no process of the previous session is left. `LoginNamesSession`: the pid
init remembers is its session's while it waits, and has not been reaped and
handed out again. `ImplementsSupervisor`, `SessionRestarts`, `ZombiesReaped`: with the
fairness below, each ended session is followed by a new one, but for two cases,
and nothing stays a zombie. All of this holds with daemons that fail in every
way, with accidental second shells and with shells that lost their terminal.
The two cases are final, and the property names them: if fork fails at that point,
`launch()` returns -errno, which no wait() ever returns (`init.c:83`); if
`execve("/bin/login")` fails, the child stays in `launch()`'s loop and never ends
(`init.c:48-54`). The machine has no login from then on: `Supervisor`'s state `lost`.
Five pids are enough for init, both daemons, a session and one nested process,
or, once the daemons that end are gone, for a chain of three below login; a
chain one deeper adds no new kind of link, and `SessionProofs` has the safety
part for any number.

**Shell.** `NothingElseClosed`, `StdioSound` under any series
of lines, with stale slots and a table that fills up: what run() closes is what
it opened, the shell stays on its terminal, a child's output never goes to a
file of an earlier line. Four strings are what it takes for a line that leaves
stale slots which a shorter line with an attached operator then runs into; 8
descriptors, of which login has left one open, are exhausted by two such lines. `RunsWhatWasTyped`: with
operators that stand alone a line means what it reads, whatever came before.
`DescriptorsLost` states what a line costs the table for good: two descriptors
per `>`, one per `<`, two for an unknown command - an upper bound, which the
code reaches. `ShellSpaced` has output redirections only, so that lines with
two of them fit; `<` and `>` together are in the run `Shell`. `cd` is
in the model and in the proofs but in no run, `exit` is in `Shell`.

**Memory.** The heap, with its headers and its memset in registers, refines
`Store`: each call does what it is asked to do and changes nothing else, and no
call kills the program but a fill of fewer bytes than a register has, less one.
`HeapIntact`: as long as the program lives, its headers are sound and what is handed
out next is zero. Fills shorter than the alignment of their block are in both runs;
that such a fill is harmless, as a test has it, is what `MemorySmall` refutes. A
register of 2 keeps all three parts of memset (alignment, whole registers, rest);
with blocks of 3 the next block is unaligned, so that a fill of 0 bytes wraps there.
`Top` = 28 has room for three blocks, a fourth is refused.

**Vi.** `ArraySound`, `SavingIsStable` for any keys whatever:
the array keeps its end, no zero byte is written, and what was written reads
back as the same. `NothingTypedOver`: no key but x, d and DEL takes anything away
from what is saved. `CursorOnLine` and `SeenIsSaved` are claimed while
`careful` holds: vi was started on a file with lines (or a new one), the text
has not scrolled, w, dj and dk have not been pressed, and malloc() has not failed. Outside of that they
do not hold, see section 6. Six keys reach every action, with and without
scrolling on three rows, and saving and starting again; `Slots` and `Width`
leave room for one line and one column more per key, so neither bound is ever
met.

**Login.** Of the six users, one has no second line in the uid file, one no
newline behind it, one no uid file, one no password file; and the empty name, which
leads to `/Users/` itself, has one. `PasswordGiven`: no shell without the
password of the user named in the same pass. `IdentityEarned`: over any series of
wrong names, wrong passwords and failed execve() calls, the uid of a shell is
that of a user whose password was given to this process, as long as those users'
uid files are sound and none of them is the empty name. It need not be the user who has
just logged in: `ShellHasUsersIds`, which the comment at `login.c:50` leads one to
expect, is violated. As the group is root's for everybody, this property fails on
the first pass where users have groups; the run `LoginIds` has none, so that its
trace shows the uid going wrong: root's pass, a failed execve(), then another user's. `DescriptorLeft`: however many wrong passwords there were,
login can still open the file of the right one; the second open() is the first to
fail, and it is the one whose result is thrown away. This holds by so little that
noticing the failure would break it (mutant `CheckNoticed`). `ReadIdEnds`: a
complete uid file is read to its end. Three passes fill the path's array, four
descriptors outlast three leaks, and the bound on either is reached.

**Ed.** `ImplementsDocument`: over any series of commands and sessions, what is
in the file after `w` is exactly the lines that were loaded with those that were
inserted, each where its address said - although the file is never cut, because a
buffer never gets shorter. It is claimed while the file has no zero byte,
memory lasts and the array has room. `LostOnlyWhenFull`: with memory to spare,
the only ways out of the array are the line for which there is no slot -
the last one is kept for memmove - and a number that overflowed. An array of 5
holds the longest initial file with one more line, and is filled and overrun by typing;
more lines only repeat what an insertion in front of, between and behind others does.

**Forth.** `ImplementsStackMachine`: each of the 19 words that work on the stack has
the effect a Forth manual gives for it, in the width of an int; with too few values
or too little room it does not touch what lies below its values; nothing else changes
the stack but numbers. Division is left open where the language leaves it open.
`OneEntryPerName`: a redefinition overwrites the one entry there is.
`NothingSkipped`: eval() passes over a token that it does not find in silence;
it comes to such a token only behind a comment, a string or a colon, because
words are never removed. `NestingBounded`: a word can only use words that are
older, so that evaluation is nested no deeper than there are words, and ends; claimed
until a word is redefined, or defined in a line with a comment or string
(`clean`), after which it does not hold. Ints of two bits have overflow, both
signs and the one quotient that does not fit. A stack of 6 just holds what 2over
leaves on four values; it overflows one word later. Three lines make a word, a second one that uses
or redefines it, and a call; the line of four numbers and two more lines try every word on
every depth.

**Httpd.** `DescriptorsKept`: whenever the server comes back to accept() it has
exactly the descriptors it began with; so the second `close(fd2)` never hits
anything. `AnsweredOnce`: no connection is sent two answers, or parts of two, and
a client that stays gets the whole answer to its own request unless memory is short.
`EveryoneServed`: see the fairness below. Three connections are one
that is served and two that wait, the queue's limit; a table of 6 has just the
three descriptors that the server needs, so that one that is lost is missed at once.

**Mutants.** For every property of a passing run `PROJECT.json` names a change
of the code, such as a wait() for the wrong child, a missing reset of `out`, or
a memset one byte too long, with which that run fails. The mutated definitions
stand in front of the ones they stand in for, marked `Mutant`.

### Fairness

`Session` and `Httpd` have liveness properties. In `Session`, `WF(InitStep)` and
`WF(Automatic(p))` for each process: the kernel's scheduler runs every process that can
run, and these steps wait for nobody outside of the machine. `SF(InitWait(p))`:
of several dead children wait4() takes the oldest, so that none is passed over
for ever, although another one may be taken in between. No fairness is assumed
of users and programs: a session need never end, a command need never exit,
httpd normally does not. In `Httpd`, `WF(Server)`: the kernel runs a process that is
not blocked in a call. No fairness is assumed of clients; instead
`EveryoneServed` has as a premise that the server is not kept waiting for ever by one
client (`[]<>~Blocked`), without which it does not hold (`httpd.c:109`).

### Deadlock

Checked in all but `Memory`, `Vi` and `Httpd`. A machine that has stopped, and the code's
loops that change nothing, are stuttering actions of their own (`Halted`,
`Busy`, `Dead`, `Over`, `Ended`), so that a state in which nobody can do anything for another
reason would be reported. Not checked in `Memory` (a program may end with every
block freed and the heap full), in `Vi` (the user stops after `MaxPresses`
keys) and in `Httpd` (nobody connects any more).

## 4. What is proved

TLAPS, for every value of the constants that meets their assumptions:

| theorem | states |
|---|---|
| `SessionProofs.TypeCorrect` | `Spec => []TypeOK` |
| `SessionProofs.Invariant` | the inductive invariant below |
| `SessionProofs.SingleReader`, `OrphanFree`, `SlateIsClean`, `LoginIsCurrent` | `OneReader`, `NoOrphans`, `CleanSlate`, `LoginNamesSession` |
| `SessionProofs.RefinesSupervisor` | `Spec` implies the safety part of `Supervisor` under `SessionStatus` |
| `ShellProofs.Invariant`, `TypeCorrect` | the inductive invariant below, `TypeOK` |
| `ShellProofs.ClosesOnlyItsOwn`, `KeepsTerminal`, `StdioIsSound` | `NothingElseClosed`; that 0, 1 and 2 stay the terminal (which follows, and is in no run); `StdioSound` |
| `ShellProofs.LinesMeanWhatTheySay`, `LossIsBounded` | `RunsWhatWasTyped`, `DescriptorsLost` |
| `MemoryProofs.Invariant`, `TypeCorrect` | blocks follow each other in order below the break; `TypeOK` |
| `MemoryProofs.NeverHandedOutTwice` | `BlocksApart` |
| `MemoryProofs.HeapStaysIntact`, `Implements` | `HeapIntact`, `ImplementsStore`, for any lengths |
| `ViProofs.Invariant`, `TypeCorrect` | the inductive invariant below, `TypeOK` |
| `ViProofs.ArrayStaysSound`, `SavingStaysStable` | `ArraySound`, `SavingIsStable` |
| `ViProofs.CursorStaysOnLine`, `ScreenIsSaved` | `CursorOnLine`, `SeenIsSaved` |
| `ViProofs.TypingKeepsAll` | `NothingTypedOver` |
| `LoginProofs.Invariant`, `TypeCorrect` | the inductive invariant below, `TypeOK` |
| `LoginProofs.NeverOutOfDescriptors`, `ShellNeedsPassword` | `DescriptorLeft`, `PasswordGiven` |
| `LoginProofs.IdentityNeedsPassword`, `SoundFilesAreRead` | `IdentityEarned`, `ReadIdEnds` |
| `HttpdProofs.Invariant`, `TypeCorrect` | the inductive invariant below, `TypeOK` |
| `HttpdProofs.KeepsDescriptors`, `AnswersOnce` | `DescriptorsKept`, `AnsweredOnce` |
| `ForthProofs.Invariance`, `TypeCorrect` | the inductive invariant below, `TypeOK` |
| `ForthProofs.OneEntry`, `NoneSkipped`, `Nesting` | `OneEntryPerName`, `NothingSkipped`, `NestingBounded` |
| `ForthProofs.Implements` | `ImplementsStackMachine` |
| `EdProofs.Invariant`, `TypeCorrect`, `LosesOnlyWhenFull` | the inductive invariant below, `TypeOK`, `LostOnlyWhenFull` |
| `EdProofs.Implements` | `ImplementsDocument` |

Assumptions. `Session`: init's pid is a pid, and the failed fork's value is
none. `Shell`: `exit` and `cd` are words, programs are other words, the strings
typed are strings, and the table holds at least the three descriptors the shell
starts with. `Memory`: sizes are naturals that do not wrap, and a header's flag
is not a byte. `Vi`: the array has
two entries more than a file has lines, three for a new file, and one more per key; a block has
two cells more than a line of a file, and one more per key (3000 and 256 in the code, which
does not check that they are enough); a zero byte, a newline, a space, the null pointer and
the missing file are told apart. `Login`: only names that are known have files, root has an id,
no password is the mark for "no file", and there is room for one path and for
the password file's first descriptor. (`Shell`'s table also holds what login left.)
`Httpd`: the connections are finitely many and nothing else in a table, it inherits
at least 0, 1 and 2, and three more descriptors are left for it.
`Forth`: a line's tokens are tokens, numerals have values, and the words written in
C have different names, none of them a numeral. `Ed`: lines are made of letters, the
null pointer is not a line and the file that is not there no file, and there are
more ints than slots.

**Session.** None of the four safety properties is inductive. That a dead
session left nothing behind depends on the shape of the tree: the processes of
a session form a chain from login's pid downwards in which everything but the
last is blocked in wait(). The invariant says so with a depth for each process
(`Chain`): depths are distinct, whoever is not in wait() is deepest, the root is
`login` at depth 0 and a child is one deeper than its parent, which waits. fork
adds to the deep end, and only the deepest can die or be reaped, so the chain
shrinks from there; when init reaps depth 0 there is nothing else. A depth spares the
proof an induction along parent links. Besides: init is alive (`InitAlive`),
what free slots and parents look like (`Slots`), no session while none was
started (`NoSession`), and `LoginNamesSession`. `IInv` was checked by TLC
first.

**Shell.** What a line may do to the table is stated relative to the table when
the line was typed: what was open is as it was, the saved descriptors were free
then (`SavedIsOwn`), and the targets refer to the terminal or to a file of this
line (`TargetsSound`). That the scan never leaves the array needs its last
slot to be NULL (`ArgsEnd`). For the two properties of lines with operators that
stand alone, `LineInv` says of the scan at index i what the part of the line before
i has led to: the arguments are those in front of the first operator, `out` and
`in` are what the last operator of their kind before i asked for (`OutTracked`,
`InTracked`), the saved descriptors are in use, and the free ones are at least as
many as before the line, less two for each `>` so far, one for each `<`, and those
saved (`Counted`). That `out` is tracked needs a table with room for the line's
operators: else creat() fails in the middle, which `RunsWhatWasTyped` excludes as
well. It also needs that what is left in slots of earlier lines never is reached
(`Fresh`).

**Memory.** Each block begins at or behind the end of all blocks before it
(`InOrder`), since free gives nothing back. That makes `HeapIntact` inductive: a
fill writes beyond its block only if its length is shorter than the distance to the
next aligned address, when the count of the rest wraps and the program dies of it.
No lower bound on lengths is assumed, as nothing in the code imposes one. Which
fills may be fatal depends on their block's address, which `Store` does not have;
`Store` therefore allows a crash for every length below the register's less one, and
`FatalIsShort` shows that no other length can be fatal. While the program lives
each step is one of `Store`'s (`WorkingSteps`): a header is written once, by the
malloc() that moves the break over it, and nothing but a block's own bytes is
read or changed later. A fatal fill is `Store.Crash`, after which `Store` says
nothing of the bytes any more (`FatalSteps`).

**Vi.** That nothing leaves the array or a block is no invariant of the code, which
checks neither; what is one is the room left for the keys to come. So the invariant
(`EditorFits`, `FileFits`) bounds lines, columns, cursor and file by what `presses` has
allowed so far, and each key needs at most one more of each. A newline typed as ^J makes
two lines out of one when the file is read again; the number of lines is therefore that of
the breaks (`Breaks`), not of the slots in use. Of a line the invariant says that its string
lies in its block and that no byte before `length` is zero, which is less than that they
agree (`LineFits`): a key may go to another line than the cursor's, and leave zeros behind a
string that is longer than its length. For the two properties under `careful` they do agree,
as behind `length` the block is zero (`Clean`), and the row on the screen is the line
(`Caring`). TLC has checked this invariant on the run's instance first. `SavingIsStable` needs what `load_file()` does to a file that `write_lines()`
has written: as no zero byte is in it and it ends with a newline, reading it loses nothing
(`ReadBack`), for which the positions of the newlines are numbered (`Ranks`). For
`NothingTypedOver` the proof carries a map from the bytes of the one string to those of the
other that keeps their order (`Within`); it grows with the lines, one with a byte more or one
line more (`LinesMore`, `LinesInsert`), and finding a string from the front finds all of it
where there is such a map (`KeptFacts`). Three definitions of `Vi` had to be stated without
SelectSeq and with their parts named, so that they can be reasoned about.

**Login.** `IdentityEarned` is not inductive, as the uid comes from a path that
may be an older pass's. The invariant ties both to `given`: the path, once one was
built, is that of a user whose password was given, unless the empty name broke it
(`PathIsGiven`); the uid is root's until it is set, and one of these users' from then
on (`IdentityFixed`), as a process that is not root keeps what it has. `Accepted`
carries the password check to the exec, and `ReadIdEnds` is inductive with them.

**Httpd.** `DescriptorsKept` speaks of one point of the loop, so the invariant says of
every point what each descriptor is: at rest, the connection's, or the file's
(`TableSound`). fd2 keeps its number after the first close, which is why the second
close is harmless: no descriptor is handed out in between, and the number is
neither the socket's nor the connection's. That lookups do not fail for want of a
descriptor is `RoomForFile`. `AnsweredOnce` needs that a connection is never accepted
twice (`OnceEach`), that the step the server is at tells what was asked
(`Asked`), and how much of the answer each step has behind it (`SentSoFar`).
TLC has checked `IInv` first.

**Forth.** What words_exist() has seen of a line still holds when eval() comes to it
because names are never removed (`Scanned`): the invariant carries, for each
activation and each token before the point it has come to, that the token is a number,
a name in the dictionary, the token behind a colon, or behind a comment or a string
begins. `NothingSkipped` is what remains of it at the moment of the lookup.
`NestingBounded` needs two layers more: in a clean dictionary each entry uses entries
in front of it only (`Stratified`), so that the words being evaluated are one
older than the other (`Descending`), and their number is limited by that of the
definitions. A definition cannot begin inside of another because the code stored is
cut at its first `;` (`SemicolonFirst`), so the dictionary does not change in between.
The words written in C stay in front (`CWordsFirst`). The refinement compares each
word's pops and pushes, with what an empty or full stack does to them, with the word's
stack effect in `StackMachine`, for an int of any even number of values.

**Ed.** `LostOnlyWhenFull` is not inductive by itself: it also needs that the buffer's
pointers are not null while nothing has been lost (`Complete`), since printing or
saving follows them, and one slot free (`InBounds`). `Complete` further says that the
file is no longer than what the buffer would save: that is why overwriting without
cutting leaves nothing behind. The refinement needs what the recursive functions of
`Ed` and `Document` compute: cutting a string at its newlines and joining the pieces
gives the string (`JoinOfPieces`), one more line inserted in the array is one more
line in the text, and makes the joined text longer. A recursive function is a CHOOSE
among the functions that satisfy its equation; the proofs show, for each, that there
is one and that two of them agree, by induction in the form of `Upwards`: a set of
numbers with 0 in it that is closed under adding 1 contains them all, because its
complement would have a smallest element (`WFMin`, which takes sets and no
operators).

## 5. Only model-checked

- Everything about liveness, and the fairness half of `ImplementsSupervisor`:
  beyond the prover.
- The three properties that the code violates: the runs that find it.

## 6. Where the code and what is said of it differ

The three violated properties are `findings` in `PROJECT.json`, with the lines
they quote:

- an attached redirection at the end of a line steps over the line's NULL into slots
  that earlier lines have left, and obeys what it finds there: after
  `cat x <f >f`, whose `<f` steps over `>f`, the line `cat <f` truncates f
  (`ShellNamed`; `sh.c:130` assumes "it's written `cmd >out`");
- memset of fewer bytes than the alignment wraps (`MemorySmall`; `bin/tests/malloc.c:23`
  fills such blocks and expects them intact);
- after a failed execve() a user who logs in gets the uid of the pass before, root's
  included (`LoginIds`; `login.c:50` says that the name typed is "used later for uid
  checking").

Part of the models, and shown by their behaviours, without a run of their own:

- readline() reads descriptor 1 (`libc/tty.c:9`; docs/readline.3:7 says standard input).
  A shell whose descriptor 1 is not the terminal - a redirected command whose execve
  failed - prompts again and again (`Session.ShellRunsCwd`).
- DEL in the first column deletes a line of vi with its text
  (`Vi.BackspaceAtStart`; docs/vi.1:47 says a character).
- A key typed in vi after dj has emptied the file follows a null pointer
  (`Vi.Type`; docs/vi.1:43).
- login sets the group after the user, when only root still can, so that every other
  session keeps root's (`Login.SetIds`). With users that have groups
  `ShellHasUsersIds` fails of this alone.
- What stands in a Forth comment is run: for a running activation `(` and `)` are
  words that do nothing (`Forth.Nothing`; `forth.c:3-5` promises comments on one line). `( 1 )` leaves 1 on the stack, and a definition whose comment names its
  own word calls itself without end.
- `bye` in a file, or inside a definition, ends nothing (`Forth.Leave`;
  docs/forth.1:10 says that it exits).
- Forth prints one word of a string and runs the rest of it (`Forth.PrintString`).
  The definition of a word inside of a definition ends the interpreter, as does one
  without `;`. A file without a final newline has its last character doubled.
- Clients that leave before their file is sent may end httpd, and nothing starts it
  again (`Httpd.Send`). A directory is answered with as many zeros as it has bytes.

- An attached redirection (`>f`) swallows the argument behind it. Everything
  behind the first redirection is dropped from the arguments.
- Each `>` leaves the descriptor of creat() open in the shell, and a line with
  a syntax error or an unknown command leaves what it had opened.
- In vi, text typed after scrolling goes to the line counted from the top of the
  screen, not to the one under the cursor, and so does DEL's deletion.
- In vi, dk in the first line deletes that line and the one below it. w, then x, behind a
  trailing space makes length and string differ: what is seen is no longer what
  is saved. `o` and return in the last row move the cursor below it without scrolling.
- `:wq` quits when the file could not be written.
- login's first test of the password file throws away a descriptor each time, for the
  process and for the shell it becomes. A uid file that ends in text without a newline is read
  for ever, and past the end of an array.
- ed creates files without any permission: for who is not root the second `w` of a
  new file does nothing, and says nothing. A zero byte in a file is where its text
  ends; the rest of the file stays behind what is saved. The 256th line, and addresses
  beyond an int, lead out of the array.

## 7. Not modelled

- Characters: `split_args()`' quoting and escapes, the layout of its buffer and the
  overflow of its 64 pointers; paths; the shell's current directory.
- Drawing, in vi and anywhere else.
- Programs' own work: what a command does with its descriptors, ethup's ioctls,
  the network.
- Files that exist and cannot be read (vi), the 3000 lines and 256 columns of
  vi, which the code does not check.
- Names of more than 127 characters, lines of ed of more than 255, lines of a uid
  file of more than nine digits: the arrays they overflow. A full disk.
- Signals: pansy installs no handler; the one that matters is in `Httpd.Send`.
- printf's formatting: see the plan. The file utilities: sequential, and nothing
  lasts from one of their steps to the next but a stat buffer (`rm.c:14`).
- Forth's characters, names of more than 63 of them, lines of more than 63 tokens.
  Paths and requests that do not fit httpd's buffers.
- libc's mathematics, characters and system-call wrappers: pure functions.

## 8. Plan

In order of importance. The first block is done.

1. `Supervisor`, `Session`, `SessionProofs`; `Shell`, `ShellProofs`; `Store`,
   `Memory`, `MemoryProofs`; `Vi`; `Login`, `LoginProofs`; `Document`, `Ed`;
   `StackMachine`, `Forth`; `Httpd`, `HttpdProofs`;
   `ForthProofs`, `EdProofs`, `ViProofs`.
2. `SplitArgs`: `split_args()` on its own, as a function on short strings,
   against a reference definition of quoting; `Sprintf`: the formatter's numbers
   against their reference, in widths that wrap. Each in the place of a run that
   a proof has made superfluous.
