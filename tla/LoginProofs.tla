----------------------------- MODULE LoginProofs ------------------------------
(***************************************************************************)
(* Proofs about Login, for any users, files and limits. The identity that  *)
(* the shell gets need not be that of the user who logs in, but it is that *)
(* of somebody who has given a password: the invariant ties uid and        *)
(* uid_path to the users who did.                                          *)
(***************************************************************************)
EXTENDS Login, TLAPS

\* Past the password check, what was typed is the user's password.
Accepted == pc \in {"path", "become", "exec", "shell"} => typed = Password[name]

\* sprintf's position tells whether a path was ever built; the path is then that of
\* one of the users who got past the check, unless the empty name broke it. Who is
\* still in the loop has not overrun it.
PathIsGiven ==
  /\ pc # "lost" => pos <= PathRoom
  /\ pos = 0 <=> given = {}
  /\ pos # 0 /\ NoName \notin given => path \in given
  /\ pc \in {"become", "exec", "shell"} => given # {}

\* The uid is root's until the first pass has changed it, and one of the users'
\* from then on.
IdentityFixed ==
  pc \notin {"lost", "busy"} /\ SoundUsers =>
    \/ \E u \in given : uid = Uid(u)
    \/ uid = Root /\ (given = {} \/ pc = "become")

IInv ==
  /\ TypeOK /\ DescriptorLeft /\ Accepted /\ PathIsGiven /\ IdentityFixed /\ ReadIdEnds

USE UsersAssumption, BoundsAssumption, NobodyAssumption

-----------------------------------------------------------------------------

LEMMA LinesTypes ==
  ASSUME NEW u \in Known
  PROVE  /\ Len(Lines[u]) \in Nat
         /\ \A k \in 1 .. Len(Lines[u]) : Lines[u][k] \in Id
         /\ Lines[u] # << >> => Len(Lines[u]) >= 1
<1>1. Lines[u] \in Seq(Id)
  OBVIOUS
<1> QED
  BY <1>1

\* Whoever can read a sound file gets the ids it names.
LEMMA ReadIdSound ==
  ASSUME NEW u \in Known, Sound(u), NEW r, NEW s,
         read_id(u, 1, TRUE, r), read_id(u, 2, TRUE, s)
  PROVE  r = Uid(u) /\ s = Gid(u) /\ r \in Id /\ s \in Id
<1>1. Len(Lines[u]) \in Nat /\ Len(Lines[u]) >= 1 /\ Lines[u] # << >>
  BY LinesTypes DEF Sound, OneLine
<1>2. r = Lines[u][1] /\ Lines[u][1] \in Id
  <2>1. ~NoLine(u, 1, TRUE)
    BY <1>1 DEF NoLine
  <2>2. r = Lines[u][1]
    BY <2>1 DEF read_id
  <2>3. 1 \in 1 .. Len(Lines[u])
    BY <1>1
  <2> QED
    BY <2>2, <2>3, LinesTypes
<1>3. CASE Len(Lines[u]) >= 2
  <2>1. s = Lines[u][2] /\ Lines[u][2] \in Id
    <3>1. ~NoLine(u, 2, TRUE)
      BY <1>1, <1>3 DEF NoLine
    <3>2. s = Lines[u][2]
      BY <3>1 DEF read_id
    <3>3. 2 \in 1 .. Len(Lines[u])
      BY <1>1, <1>3
    <3> QED
      BY <3>2, <3>3, LinesTypes
  <2> QED
    BY <1>2, <1>3, <2>1 DEF Uid, Gid
<1>4. CASE ~(Len(Lines[u]) >= 2)
  <2>1. u \notin Unended /\ ~(2 <= Len(Lines[u]))
    BY <1>1, <1>4 DEF Sound
  <2>2. s = Root
    BY <1>1, <2>1 DEF read_id
  <2> QED
    BY <1>2, <1>4, <2>2 DEF Uid, Gid
<1> QED
  BY <1>3, <1>4

LEMMA IInvInit == Init => IInv
  BY DEF Init, IInv, TypeOK, DescriptorLeft, Accepted, PathIsGiven, IdentityFixed,
    ReadIdEnds

-----------------------------------------------------------------------------

LEMMA BecomeSafe ==
  ASSUME IInv, Become
  PROVE  IInv'
<1> USE DEF IInv
<1>1. PICK can \in Readable(path # Nobody), u \in Results, g \in Results :
        /\ read_id(path, 1, can /\ free >= 1, u)
        /\ read_id(path, 2, can /\ free >= 1, g)
        /\ \/ u \notin Id /\ pc' = u /\ UNCHANGED <<uid, gid>>
           \/ u \in Id /\ g \notin Id /\ pc' = g /\ UNCHANGED <<uid, gid>>
           \/ u \in Id /\ g \in Id /\ pc' = "exec" /\ SetIds(u, g)
  BY DEF Become
<1>2. can \in BOOLEAN /\ (uid = Root /\ path # Nobody => can) /\ free >= 1
  BY DEF Readable, DescriptorLeft
<1>3. read_id(path, 1, can, u) /\ read_id(path, 2, can, g)
  <2>1. (can /\ free >= 1) = can
    BY <1>2
  <2> QED
    BY <1>1, <2>1
<1>4. /\ pc = "become" /\ path \in Known \union {Nobody} /\ given \subseteq Known
      /\ given # {} /\ pos # 0
      /\ UNCHANGED <<name, typed, path, pos, free, given>>
  BY DEF Become, TypeOK, PathIsGiven
<1>5. /\ NoName \notin given => path \in given
      /\ Nobody \notin Known
  BY <1>4 DEF PathIsGiven
<1>6. uid = Root /\ path # Nobody /\ Sound(path) => u = Uid(path) /\ u \in Id /\ g \in Id
  <2> SUFFICES ASSUME uid = Root, path # Nobody, Sound(path)
               PROVE  u = Uid(path) /\ u \in Id /\ g \in Id
    OBVIOUS
  <2>1. can = TRUE /\ path \in Known
    BY <1>2, <1>4
  <2> QED
    BY <1>3, <2>1, ReadIdSound
<1>7. CASE u \in Id /\ g \in Id /\ pc' = "exec" /\ SetIds(u, g)
  <2>1. /\ uid' = IF uid = Root THEN u ELSE uid
        /\ gid' = IF uid' = Root THEN g ELSE gid
    BY <1>7 DEF SetIds, setreuid, setregid
  <2>2. TypeOK'
    BY <1>4, <1>7, <2>1 DEF TypeOK
  <2>3. IdentityFixed'
    <3> SUFFICES ASSUME SoundUsers PROVE \E v \in given : uid' = Uid(v)
      BY <1>4, <1>7 DEF IdentityFixed, SoundUsers, Sound, OneLine, Uid
    <3>1. CASE uid = Root
      <4>1. path \in given /\ path # Nobody /\ Sound(path)
        BY <1>4, <1>5 DEF SoundUsers
      <4>2. uid' = Uid(path)
        BY <1>6, <2>1, <3>1, <4>1
      <4> QED
        BY <4>1, <4>2
    <3>2. CASE uid # Root
      <4>1. \E v \in given : uid = Uid(v)
        BY <1>4, <3>2 DEF IdentityFixed
      <4> QED
        BY <2>1, <3>2, <4>1
    <3> QED
      BY <3>1, <3>2
  <2> QED
    BY <1>4, <1>7, <2>2, <2>3
      DEF DescriptorLeft, Accepted, PathIsGiven, ReadIdEnds
<1>8. CASE /\ UNCHANGED <<uid, gid>> /\ pc' \in {"lost", "busy"}
           /\ u \notin Id \/ g \notin Id
  <2>1. TypeOK'
    BY <1>4, <1>8 DEF TypeOK
  <2>2. ReadIdEnds'
    BY <1>4, <1>6, <1>8 DEF ReadIdEnds, Sound, OneLine
  <2>3. PathIsGiven'
    BY <1>4, <1>8 DEF PathIsGiven
  <2> QED
    BY <1>4, <1>8, <2>1, <2>2, <2>3 DEF DescriptorLeft, Accepted, IdentityFixed
<1> QED
  BY <1>1, <1>7, <1>8 DEF Results

LEMMA BuildPathSafe ==
  ASSUME IInv, BuildPath
  PROVE  IInv'
<1>1. /\ name \in Known /\ pc = "path" /\ name # Nobody
      /\ pos \in 0 .. PathRoom /\ PathRoom \in Nat
      /\ path \in Known \union {Nobody} /\ given \subseteq Known
  BY DEF BuildPath, IInv, TypeOK, PathIsGiven
<1>2. /\ pos' \in 1 .. PathRoom + 1
      /\ path' = IF name = NoName THEN Nobody ELSE IF pos = 0 THEN name ELSE path
  BY <1>1 DEF BuildPath, string_writer
<1>3. /\ given' = given \union {name}
      /\ UNCHANGED <<name, typed, free, uid, gid>>
  BY DEF BuildPath
<1>4. \/ pos' > PathRoom /\ pc' = "lost"
      \/ pos' <= PathRoom /\ pc' = "become"
  BY <1>1, <1>2 DEF BuildPath
<1>5. TypeOK'
  BY <1>1, <1>2, <1>3, <1>4 DEF IInv, TypeOK
<1>6. PathIsGiven'
  <2>1. pos' # 0 /\ given' # {} /\ (pc' # "lost" => pos' <= PathRoom)
    BY <1>2, <1>3, <1>4
  <2>2. NoName \notin given' => path' \in given'
    BY <1>2, <1>3 DEF IInv, PathIsGiven
  <2> QED
    BY <2>1, <2>2 DEF PathIsGiven
<1>7. IdentityFixed'
  <2> SUFFICES ASSUME pc' = "become", SoundUsers'
               PROVE  (\E u \in given' : uid' = Uid(u)) \/ uid' = Root
    BY <1>4 DEF IdentityFixed, Uid
  <2>1. SoundUsers
    BY <1>3 DEF SoundUsers, Sound, OneLine
  <2>2. (\E u \in given : uid = Uid(u)) \/ uid = Root
    BY <1>1, <2>1 DEF IInv, IdentityFixed
  <2> QED
    BY <1>3, <2>2
<1>8. DescriptorLeft' /\ Accepted' /\ ReadIdEnds'
  BY <1>1, <1>3, <1>4 DEF IInv, DescriptorLeft, Accepted, ReadIdEnds
<1> QED
  BY <1>5, <1>6, <1>7, <1>8 DEF IInv

LEMMA IInvNext == IInv /\ [Next]_vars => IInv'
<1> SUFFICES ASSUME IInv, [Next]_vars PROVE IInv'
  OBVIOUS
<1> USE DEF IInv, TypeOK, DescriptorLeft, Accepted, PathIsGiven, IdentityFixed, SoundUsers,
      Uid, Sound, OneLine, ReadIdEnds
<1>1. CASE TypeName
  BY <1>1 DEF TypeName
<1>2. CASE TypePassword
  BY <1>2 DEF TypePassword
<1>3. CASE Check
  BY <1>3 DEF Check, Readable
<1>4. CASE BuildPath
  BY <1>4, BuildPathSafe
<1>5. CASE Become
  BY <1>5, BecomeSafe
<1>6. CASE Exec
  BY <1>6 DEF Exec
<1>7. CASE Over \/ UNCHANGED vars
  BY <1>7 DEF Over, vars
<1> QED
  BY <1>1, <1>2, <1>3, <1>4, <1>5, <1>6, <1>7 DEF Next

\* The invariant that ties the process's identity and the path to the users who
\* got past the password check.
THEOREM Invariant == Spec => []IInv
<1>1. Init => IInv
  BY IInvInit
<1>2. IInv /\ [Next]_vars => IInv'
  BY IInvNext
<1> QED
  BY <1>1, <1>2, PTL DEF Spec

\* The variables only ever hold what they are meant to hold.
THEOREM TypeCorrect == Spec => []TypeOK
<1>1. IInv => TypeOK
  BY DEF IInv
<1> QED
  BY <1>1, Invariant, PTL

\* login can always open one more file: the descriptors it forgets never take the
\* last place in the table.
THEOREM NeverOutOfDescriptors == Spec => []DescriptorLeft
<1>1. IInv => DescriptorLeft
  BY DEF IInv
<1> QED
  BY <1>1, Invariant, PTL

\* No shell without the password of the user named in the same pass.
THEOREM ShellNeedsPassword == Spec => []PasswordGiven
<1>1. IInv => PasswordGiven
  BY DEF IInv, Accepted, PasswordGiven
<1> QED
  BY <1>1, Invariant, PTL

\* The uid of a shell is that of a user whose password was given to the process,
\* whatever went wrong in the passes before.
THEOREM IdentityNeedsPassword == Spec => []IdentityEarned
<1>1. IInv => IdentityEarned
  BY DEF IInv, IdentityFixed, PathIsGiven, IdentityEarned
<1> QED
  BY <1>1, Invariant, PTL

\* A sound uid file is read to its end.
THEOREM SoundFilesAreRead == Spec => []ReadIdEnds
<1>1. IInv => ReadIdEnds
  BY DEF IInv
<1> QED
  BY <1>1, Invariant, PTL

=============================================================================
