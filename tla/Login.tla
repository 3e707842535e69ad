-------------------------------- MODULE Login ---------------------------------
(***************************************************************************)
(* One login process, src/bin/login.c: the loop that asks for a name and a *)
(* password, changes identity and executes the shell - and goes round once *)
(* more, in the same process, when execve() has failed. What lasts from    *)
(* one pass to the next is here: the position that sprintf() keeps in a    *)
(* static variable (src/libc/printf.c), the array its path is built in,    *)
(* the open descriptors, and the identity of the process.                  *)
(*                                                                         *)
(* The files under /Users and the kernel's checks are external. A path is  *)
(* reduced to the user whose file it names.                                *)
(***************************************************************************)
EXTENDS Integers, Sequences

CONSTANTS
  Name,      \* what may be typed as a name
  Known,     \* the names is_path_safe() lets pass and there is a directory for
  NoName,    \* the empty name
  Word,      \* what may be typed as a password
  NoFile,    \* what a user without a readable password file has for a password
  Password,  \* the first line of the password file of each user
  Id, Root,  \* user and group ids; Root is 0
  Lines,     \* the complete lines of each user's uid file; none if there is none
  Unended,   \* the users whose uid file ends in text without a newline
  MaxOpen,   \* how many descriptors the kernel lets login open
  PathRoom   \* how many paths fit in uid_path one behind the other

Results == Id \union {"lost", "busy"}

ASSUME UsersAssumption ==
  /\ Known \subseteq Name /\ Unended \subseteq Known
  /\ NoFile \notin Word /\ Password \in [Known -> Word \union {NoFile}]
  /\ Root \in Id /\ {"lost", "busy", "exec"} \cap Id = {}
  /\ Lines \in [Known -> Seq(Id)]

\* login opens the password file twice; there is room for that at first.
ASSUME BoundsAssumption == MaxOpen \in Nat /\ MaxOpen >= 1 /\ PathRoom \in Nat \ {0}

VARIABLES
  pc,     \* where login is in its loop: "lost" outside of its memory, "busy" in
          \* a loop without end
  name,   \* username
  typed,  \* passbuf
  path,   \* whose uid file uid_path names
  pos,    \* sprintf's position, in paths
  free,   \* how many descriptors login can still open
  uid, gid,
  given   \* history: the users whose password has been given to this process

vars == <<pc, name, typed, path, pos, free, uid, gid, given>>

Nobody == "nobody"
ASSUME NobodyAssumption == Nobody \notin Name

TypeOK ==
  /\ pc \in {"name", "password", "check", "path", "become", "exec", "shell", "lost", "busy"}
  /\ name \in Name \union {Nobody}
  /\ pc # "name" => name \in Known
  /\ typed \in Word \union {NoFile}
  /\ path \in Known \union {Nobody}
  /\ pos \in 0 .. PathRoom + 1
  /\ free \in 0 .. MaxOpen
  /\ uid \in Id /\ gid \in Id
  /\ given \subseteq Known

Init ==
  /\ pc = "name"
  /\ name = Nobody /\ typed = NoFile
  /\ path = Nobody /\ pos = 0
  /\ free = MaxOpen
  /\ uid = Root /\ gid = Root
  /\ given = {}

-----------------------------------------------------------------------------

\* Mutant: a name that is not known is not refused.
TypeAnyName ==
  /\ pc = "name"
  /\ name' \in Name
  /\ pc' = "password"
  /\ UNCHANGED <<typed, path, pos, free, uid, gid, given>>

\* Mutant: uid_path is built before the password is checked.
TypeNameBuilds ==
  /\ pc = "name"
  /\ name' \in Name
  /\ pc' = IF name' \in Known THEN "password" ELSE "name"
  /\ IF name' \in Known /\ pos = 0 THEN path' = name' /\ pos' = 1
     ELSE UNCHANGED <<path, pos>>
  /\ UNCHANGED <<typed, free, uid, gid, given>>

\* A name is read; stat() decides whether there is such a user. (The empty
\* name has a directory, /Users/ itself.)
TypeName ==
  /\ pc = "name"
  /\ name' \in Name
  /\ pc' = IF name' \in Known THEN "password" ELSE "name"
  /\ UNCHANGED <<typed, path, pos, free, uid, gid, given>>

TypePassword ==
  /\ pc = "password"
  /\ typed' \in Word
  /\ pc' = "check"
  /\ UNCHANGED <<name, path, pos, free, uid, gid, given>>

\* What login may find when it opens a file of u's: root can read every file
\* that is there, others depend on its owner and mode.
Readable(exists) == {can \in BOOLEAN : /\ can => exists
                                       /\ exists /\ uid = Root => can}

\* Mutant: a failed open() is noticed, but the way out does not close.
CheckNoticed ==
  /\ pc = "check"
  /\ \E can \in Readable(Password[name] # NoFile) :
       LET opened == can /\ free >= 1
           twice == can /\ free >= 2
       IN  /\ pc' = IF opened /\ twice /\ typed = Password[name] THEN "path" ELSE "name"
           /\ free' = IF opened THEN free - 1 ELSE free
  /\ UNCHANGED <<name, typed, path, pos, uid, gid, given>>

\* Mutant: who has no password file needs no password.
CheckUnread ==
  /\ pc = "check"
  /\ \E can \in Readable(Password[name] # NoFile) :
       /\ pc' = IF can /\ free >= 1 => typed = Password[name] THEN "path" ELSE "name"
       /\ free' = IF can /\ free >= 2 THEN free - 1 ELSE free
  /\ UNCHANGED <<name, typed, path, pos, uid, gid, given>>

\* The password file is opened twice. The first descriptor is read from and
\* closed, the second is forgotten; it is only compared with -1, EPERM, which
\* open() does not return here. An open that failed shows in read().
Check ==
  /\ pc = "check"
  /\ \E can \in Readable(Password[name] # NoFile) :
       LET opened == can /\ free >= 1
           twice == can /\ free >= 2
       IN  /\ pc' = IF opened /\ typed = Password[name] THEN "path" ELSE "name"
           /\ free' = IF twice THEN free - 1 ELSE free
  /\ UNCHANGED <<name, typed, path, pos, uid, gid, given>>

\* string_writer(), which sprintf() calls with piece after piece, goes on at its
\* static position, and only a piece that begins with NUL sets it back. The last
\* piece of the format "/Users/%s/uid" is "/uid": so the first call writes to the
\* beginning of uid_path, and each later one behind what the one before has left.
\* The empty name is a piece that begins with NUL: "/uid" is then written over
\* the front of the path, which names no file from then on.
string_writer(u) ==
  /\ pos' = IF u = NoName /\ pos < PathRoom THEN 1 ELSE pos + 1
  /\ path' = IF u = NoName THEN Nobody ELSE IF pos = 0 THEN u ELSE path

BuildPath ==
  /\ pc = "path"
  /\ string_writer(name)
  /\ given' = given \union {name}
  /\ pc' = IF pos' > PathRoom THEN "lost" ELSE "become"
  /\ UNCHANGED <<name, typed, free, uid, gid>>

\* The file has no such line, or cannot be read at all.
NoLine(u, line, can) == can => line > Len(Lines[u])

\* How the loop of read_id() goes on for ever when c is not a newline: while it
\* collects the line asked for, it runs past the end of buf.
Endless(u, line, can) ==
  IF line = 1 \/ (can /\ u \in Unended /\ line = Len(Lines[u]) + 1)
  THEN "lost" ELSE "busy"

\* Mutant: c is cleared before each read(), so that no newline remains in it.
ReadIdCleared(u, line, can, r) ==
  \/ can /\ line <= Len(Lines[u]) /\ r = Lines[u][line]
  \/ NoLine(u, line, can) /\ r = Endless(u, line, can)

\* read_id(): r is the given line of u's uid file, if it can be read. At the end
\* of the file read() leaves c as it is: a newline, which ends one empty line
\* after the other, and atoi("") is 0; or the last character of a text without
\* one. When nothing could be read, c is whatever the stack holds.
read_id(u, line, can, r) ==
  \/ can /\ line <= Len(Lines[u]) /\ r = Lines[u][line]
  \/ /\ NoLine(u, line, can)
     /\ can => u \notin Unended
     /\ r = Root
  \/ /\ NoLine(u, line, can)
     /\ can => u \in Unended \/ Lines[u] = << >>
     /\ r = Endless(u, line, can)

\* The kernel's setreuid() and setregid(): root may become anybody, others
\* only what they are.
setreuid(id) == uid' = IF uid = Root THEN id ELSE uid
setregid(id) == gid' = IF uid' = Root THEN id ELSE gid

SetIds(u, g) == setreuid(u) /\ setregid(g)

\* read_id() twice, then the change of identity; nobody looks at its result.
Become ==
  /\ pc = "become"
  /\ \E can \in Readable(path # Nobody), u, g \in Results :
       /\ read_id(path, 1, can /\ free >= 1, u)
       /\ read_id(path, 2, can /\ free >= 1, g)
       /\ \/ u \notin Id /\ pc' = u /\ UNCHANGED <<uid, gid>>
          \/ u \in Id /\ g \notin Id /\ pc' = g /\ UNCHANGED <<uid, gid>>
          \/ u \in Id /\ g \in Id /\ pc' = "exec" /\ SetIds(u, g)
  /\ UNCHANGED <<name, typed, path, pos, free, given>>

\* execve() of the shell; when it returns, the loop starts again.
Exec ==
  /\ pc = "exec"
  /\ pc' \in {"shell", "name"}
  /\ UNCHANGED <<name, typed, path, pos, free, uid, gid, given>>

\* The process is a shell now, or makes no more progress.
Over == pc \in {"shell", "lost", "busy"} /\ UNCHANGED vars

Next == TypeName \/ TypePassword \/ Check \/ BuildPath \/ Become \/ Exec \/ Over

Spec == Init /\ [][Next]_vars

-----------------------------------------------------------------------------
(* Properties *)

\* However many passwords were wrong before, login can still open a file, and so
\* still accept the right one, although each pass leaves a descriptor open: the
\* second open() fails before the first one does, and nobody notices.
DescriptorLeft == free >= 1

\* A shell is only ever started for a user whose password file could be read
\* and whose password is the one typed last, in this pass.
PasswordGiven == pc = "shell" => typed = Password[name]

\* The first line of u's uid file is complete.
OneLine(u) == Lines[u] # << >>

\* ... and the second one is complete, or not begun.
Sound(u) == OneLine(u) /\ (Len(Lines[u]) >= 2 \/ u \notin Unended)

Uid(u) == Lines[u][1]
Gid(u) == IF Len(Lines[u]) >= 2 THEN Lines[u][2] ELSE Root

\* Everybody whose password was given so far has a sound uid file (and nobody used
\* the empty name, whose path is no file).
SoundUsers == \A u \in given : u # NoName /\ Sound(u)

\* Nobody gets an identity for nothing: the uid of a shell is that of a user
\* whose password was given to this very process - over any series of wrong
\* names, wrong passwords and failed execve() calls, as long as the users' uid
\* files are sound. On the first pass that is the user who logs in; after a
\* failed execve() it need not be (ShellHasUsersIds).
IdentityEarned ==
  pc = "shell" /\ SoundUsers => \E u \in given : uid = Uid(u)

\* login.c:50: the name that was typed is "used later for uid checking". A shell
\* then has the uid and the group of the user who has just logged in. (After a failed
\* execve() uid_path still names the first user's file, login.c:108, and login has
\* lost the right to become somebody else. And it gives up root before it sets the
\* group, lines 113 and 114, which the kernel then refuses.)
ShellHasUsersIds ==
  pc = "shell" /\ SoundUsers => uid = Uid(name) /\ gid = Gid(name)

\* login never gets stuck in a uid file that ends in a newline, with one line or
\* more in it, unless its passes have filled the path's array. (Who is not root
\* any more may be kept from reading it, and the empty name has no such file.)
ReadIdEnds ==
  pc \in {"lost", "busy"} => \/ pos > PathRoom
                             \/ path = Nobody
                             \/ ~Sound(path)
                             \/ uid # Root

=============================================================================
