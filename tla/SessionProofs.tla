--------------------------- MODULE SessionProofs ----------------------------
(***************************************************************************)
(* Proofs about Session, for every set of pids and every set of faults.    *)
(*                                                                         *)
(* None of the invariants is inductive alone: that the dead session left   *)
(* no process behind when init starts the next one depends on the shape of *)
(* the process tree. It is a chain: login's process at its root, then each *)
(* shell's only child, and everything but the last process of the chain is *)
(* blocked in wait(). The chain is described by a depth for each process,  *)
(* which spares the proof an induction along parent links.                 *)
(***************************************************************************)
EXTENDS Session, TLAPS

\* A process of a login session, alive or not yet waited for.
InSession(p) == state[p] # "free" /\ prog[p] \notin NotSession

\* ... that is not blocked in wait().
Active(p) == InSession(p) /\ state[p] # "wait"

\* init is always there, and what it and the free slots of the process table
\* look like.
InitAlive ==
  /\ prog[InitPid] = "init" /\ parent[InitPid] = NoPid
  /\ state[InitPid] = IF pc = "panic" THEN "zombie" ELSE "run"

Slots ==
  \A p \in Pid :
    /\ state[p] = "free" => prog[p] = "none" /\ parent[p] = NoPid
    /\ prog[p] = "init" => p = InitPid
    /\ state[p] # "free" /\ p # InitPid => parent[p] \in Pid
    /\ prog[p] \in Daemons => parent[p] = InitPid
    /\ state[p] = "wait" => prog[p] = "sh"

\* d is the depth of each process in the chain.
Chain(d) ==
  /\ \A p, q \in Pid : InSession(p) /\ InSession(q) /\ d[p] = d[q] => p = q
  /\ \A p, q \in Pid : Active(p) /\ InSession(q) => d[q] <= d[p]
  /\ \A p \in Pid : InSession(p) =>
       IF parent[p] = InitPid
       THEN p = login /\ d[p] = 0
       ELSE state[parent[p]] = "wait" /\ d[p] = d[parent[p]] + 1

IsChain == \E d \in [Pid -> Nat] : Chain(d)

\* Between two sessions, and after one could not be started, there is no
\* process of a session.
NoSession ==
  pc # "wait" \/ login = NoPid => \A p \in Pid : ~InSession(p)

Roots == LoginNamesSession

IInv == TypeOK /\ InitAlive /\ Slots /\ IsChain /\ NoSession /\ Roots

USE PidAssumption DEF NotSession, Daemons

-----------------------------------------------------------------------------

LEMMA TypeInit == Init => TypeOK
  BY DEF Init, TypeOK, States, Programs, Steps

LEMMA TypeNext == TypeOK /\ [Next]_vars => TypeOK'
<1> SUFFICES ASSUME TypeOK, [Next]_vars PROVE TypeOK'
  OBVIOUS
<1> USE DEF TypeOK, States, Programs, Steps, procVars
<1>1. CASE LoadModule
  BY <1>1 DEF LoadModule
<1>2. ASSUME NEW from, NEW to \in Steps,
             NEW image \in Programs \ {"init"}, Launch(from, to, image)
      PROVE  TypeOK'
  <2>1. ASSUME NEW c \in Pid, Fork(InitPid, c, image, TRUE),
               login' = IF image = "login" THEN c ELSE login, pc' = to
        PROVE  TypeOK'
    BY <2>1 DEF Fork
  <2>2. ASSUME UNCHANGED procVars, pc' = to,
               login' = IF image = "login" THEN NoPid ELSE login
        PROVE  TypeOK'
    BY <2>2
  <2> QED
    BY <1>2, <2>1, <2>2 DEF Launch
<1>3. ASSUME NEW c \in Pid, InitWait(c) PROVE TypeOK'
  BY <1>3 DEF InitWait, Reap
<1>4. ASSUME NEW p \in Pid, Step(p) PROVE TypeOK'
  <2>1. CASE LaunchedChild(p)
    BY <2>1 DEF LaunchedChild, Die
  <2>2. CASE ProgramExit(p) \/ LoginCrash(p) \/ ShellExit(p)
    BY <2>2 DEF ProgramExit, LoginCrash, ShellExit, Die
  <2>3. CASE LoginExec(p)
    BY <2>3 DEF LoginExec
  <2>4. ASSUME NEW c \in Pid, NEW tty \in BOOLEAN, Fork(p, c, "sh", tty),
               UNCHANGED <<pc, login>>
        PROVE  TypeOK'
    BY <2>4 DEF Fork
  <2>5. CASE ShellChild(p)
    BY <2>5 DEF ShellChild
  <2>6. CASE ShellWait(p)
    BY <2>6 DEF ShellWait, Reap
  <2> QED
    BY <1>4, <2>1, <2>2, <2>3, <2>4, <2>5, <2>6
      DEF Step, ShellCommand, ShellRunsCwd
<1>5. CASE Halted \/ Busy \/ UNCHANGED vars
  BY <1>5 DEF Halted, Busy, vars
<1> QED
  BY <1>1, <1>2, <1>3, <1>4, <1>5 DEF Next, InitStep, LaunchEthup, LaunchHttpd,
    LaunchLogin, RelaunchLogin

\* The variables only ever hold what they are meant to hold.
THEOREM TypeCorrect == Spec => []TypeOK
<1>1. Init => TypeOK
  BY TypeInit
<1>2. TypeOK /\ [Next]_vars => TypeOK'
  BY TypeNext
<1> QED
  BY <1>1, <1>2, PTL DEF Spec

-----------------------------------------------------------------------------
(* The invariant holds at the start *)

LEMMA IInvInit == Init => IInv
<1> SUFFICES ASSUME Init PROVE IInv
  OBVIOUS
<1>1. TypeOK
  BY TypeInit
<1>2. \A p \in Pid : ~InSession(p)
  BY DEF Init, InSession
<1>3. IsChain
  <2> DEFINE d == [p \in Pid |-> 0]
  <2>1. d \in [Pid -> Nat]
    OBVIOUS
  <2>2. Chain(d)
    BY <1>2 DEF Chain, Active
  <2> QED
    BY <2>1, <2>2 DEF IsChain
<1> QED
  BY <1>1, <1>2, <1>3 DEF Init, IInv, InitAlive, Slots, NoSession, Roots,
    LoginNamesSession

-----------------------------------------------------------------------------
(* What the kernel's operations do to the chain *)

\* Only init and the shells have children, and the shells that have one wait
\* for it: a process that ends leaves no orphan.
LEMMA NoChildren ==
  ASSUME IInv, NEW p \in Pid, state[p] # "wait", p # InitPid
  PROVE  \A c \in Pid : parent[c] # p
<1> PICK d \in [Pid -> Nat] : Chain(d)
  BY DEF IInv, IsChain
<1> QED
  BY DEF IInv, TypeOK, InitAlive, Slots, Chain, InSession

LEMMA DieKeepsParents ==
  ASSUME IInv, NEW p \in Pid, state[p] # "wait", p # InitPid, Die(p)
  PROVE  parent' = parent
<1>1. \A c \in Pid : parent[c] # p
  BY NoChildren
<1>2. parent' = [c \in Pid |-> parent[c]]
  BY <1>1 DEF Die
<1> QED
  BY <1>2 DEF IInv, TypeOK

\* A process that ends, or changes its image without leaving the session,
\* leaves the chain as it is.
LEMMA ChainKept ==
  ASSUME IInv, UNCHANGED login,
         \A q \in Pid : InSession(q)' <=> InSession(q),
         \A q \in Pid : InSession(q) => parent'[q] = parent[q],
         \A q \in Pid : InSession(q) => (state'[q] = "wait" <=> state[q] = "wait")
  PROVE  IsChain'
<1> PICK d \in [Pid -> Nat] : Chain(d)
  BY DEF IInv, IsChain
<1>1. \A q \in Pid : InSession(q) /\ parent[q] # InitPid => parent[q] \in Pid
  BY DEF IInv, Slots, InitAlive, InSession
<1>2. \A q \in Pid : state[q] = "wait" => InSession(q)
  BY DEF IInv, Slots, InSession
<1>3. Chain(d)'
  <2>1. \A p, q \in Pid : InSession(p)' /\ InSession(q)' /\ d[p] = d[q] => p = q
    BY DEF Chain
  <2>2. \A p, q \in Pid : Active(p)' /\ InSession(q)' => d[q] <= d[p]
    BY DEF Chain, Active
  <2>3. ASSUME NEW p \in Pid, InSession(p)'
        PROVE  IF parent'[p] = InitPid
               THEN p = login' /\ d[p] = 0
               ELSE state'[parent'[p]] = "wait" /\ d[p] = d[parent'[p]] + 1
    BY <1>1, <1>2, <2>3 DEF Chain
  <2> QED
    BY <2>1, <2>2, <2>3 DEF Chain
<1> QED
  BY <1>3 DEF IsChain

\* A shell that forks gets a child one level deeper and is no longer active.
LEMMA ChainExtended ==
  ASSUME IInv, NEW p \in Pid, NEW c \in Pid, NEW tty,
         Running(p, {"sh"}), Fork(p, c, "sh", tty), UNCHANGED login
  PROVE  IsChain'
<1> PICK d \in [Pid -> Nat] : Chain(d)
  BY DEF IInv, IsChain
<1>1. p # c /\ p # InitPid /\ c # InitPid /\ Active(p)
  BY DEF Running, Fork, FreePids, IInv, InitAlive, Active, InSession
<1>2. \A q \in Pid : InSession(q)' <=> InSession(q) \/ q = c
  <2>1. prog'[c] = "sh" /\ \A q \in Pid \ {c} : prog'[q] = prog[q]
    BY DEF Fork, IInv, TypeOK
  <2>2. /\ state'[c] = "child" /\ state'[p] = "wait" /\ state[p] = "run"
        /\ \A q \in Pid \ {p, c} : state'[q] = state[q]
    BY <1>1 DEF Fork, IInv, TypeOK, Running
  <2> QED
    BY <2>1, <2>2 DEF InSession
<1>3. PICK e \in [Pid -> Nat] :
        e[c] = d[p] + 1 /\ \A q \in Pid : q # c => e[q] = d[q]
  <2>1. [d EXCEPT ![c] = d[p] + 1] \in [Pid -> Nat]
    OBVIOUS
  <2> QED
    BY <2>1
<1>4. /\ state'[p] = "wait" /\ state'[c] = "child" /\ parent'[c] = p
      /\ \A q \in Pid \ {p, c} : state'[q] = state[q]
      /\ \A q \in Pid : q # c => parent'[q] = parent[q]
  BY <1>1 DEF Fork, IInv, TypeOK
<1>5. \A q \in Pid : InSession(q) => q # c /\ d[q] <= d[p] /\ d[q] \in Nat
  BY <1>1 DEF Chain, Fork, FreePids, InSession
<1>6. \A q, r \in Pid : InSession(q)' /\ InSession(r)' /\ e[q] = e[r] => q = r
  BY <1>2, <1>3, <1>5 DEF Chain
<1>7. \A q \in Pid : Active(q)' => q = c
  <2> SUFFICES ASSUME NEW q \in Pid, Active(q)', q # c PROVE FALSE
    OBVIOUS
  <2>1. q # p /\ Active(q)
    BY <1>2, <1>4 DEF Active
  <2>2. d[q] = d[p]
    BY <2>1, <1>1, <1>5 DEF Chain, Active
  <2> QED
    BY <2>1, <2>2, <1>1 DEF Chain, Active
<1>8. \A q, r \in Pid : Active(q)' /\ InSession(r)' => e[r] <= e[q]
  BY <1>2, <1>3, <1>5, <1>7
<1>9. ASSUME NEW q \in Pid, InSession(q)'
      PROVE  IF parent'[q] = InitPid
             THEN q = login' /\ e[q] = 0
             ELSE state'[parent'[q]] = "wait" /\ e[q] = e[parent'[q]] + 1
  <2>1. CASE q = c
    BY <2>1, <1>1, <1>3, <1>4
  <2>2. CASE q # c
    <3>0. InSession(q)
      BY <2>2, <1>9, <1>2
    <3>1. parent'[q] = parent[q] /\ e[q] = d[q]
      BY <2>2, <1>3, <1>4
    <3>2. CASE parent[q] = InitPid
      BY <3>0, <3>1, <3>2 DEF Chain
    <3>3. CASE parent[q] # InitPid
      <4>1. parent[q] \in Pid /\ state[parent[q]] = "wait"
        BY <3>0, <3>1, <3>3, <1>1 DEF Chain, IInv, Slots, InitAlive, InSession
      <4>2. parent[q] # p /\ parent[q] # c
        BY <4>1 DEF Running, Fork, FreePids
      <4> QED
        BY <3>0, <3>1, <3>3, <4>1, <4>2, <1>3, <1>4 DEF Chain
    <3> QED
      BY <3>2, <3>3
  <2> QED
    BY <2>1, <2>2
<1>10. Chain(e)'
  BY <1>6, <1>8, <1>9 DEF Chain
<1> QED
  BY <1>3, <1>10 DEF IsChain

\* A waiting shell that learns of its child's end takes its place as the last
\* of the chain.
LEMMA ChainShortened ==
  ASSUME IInv, NEW p \in Pid, NEW c \in Pid,
         state[p] = "wait", Reap(p, c), UNCHANGED login
  PROVE  IsChain'
<1> PICK d \in [Pid -> Nat] : Chain(d)
  BY DEF IInv, IsChain
<1>1. p # c /\ p # InitPid /\ InSession(p) /\ InSession(c) /\ Active(c)
  BY DEF Reap, IInv, TypeOK, InitAlive, Slots, InSession, Active
<1>2. d[c] = d[p] + 1
  BY <1>1 DEF Chain, Reap
<1>3. /\ state'[c] = "free" /\ state'[p] = "run"
      /\ \A q \in Pid : q # p /\ q # c => state'[q] = state[q]
  BY <1>1 DEF Reap, IInv, TypeOK
<1>4. \A q \in Pid : q # c => prog'[q] = prog[q] /\ parent'[q] = parent[q]
  BY DEF Reap, IInv, TypeOK
<1>5. \A q \in Pid : InSession(q)' <=> InSession(q) /\ q # c
  <2>1. state[p] # "free"
    BY DEF Reap
  <2> QED
    BY <1>1, <1>3, <1>4, <2>1 DEF InSession
<1>6. \A q \in Pid : InSession(q) /\ q # c => d[q] <= d[p]
  <2> SUFFICES ASSUME NEW q \in Pid, InSession(q), q # c PROVE d[q] <= d[p]
    OBVIOUS
  <2>1. d[q] <= d[c]
    BY <1>1 DEF Chain
  <2>2. d[q] # d[c]
    BY <1>1 DEF Chain
  <2> QED
    BY <1>2, <2>1, <2>2
<1>7. \A q \in Pid : Active(q)' => q = p
  <2> SUFFICES ASSUME NEW q \in Pid, Active(q)', q # p PROVE FALSE
    OBVIOUS
  <2>1. InSession(q) /\ q # c
    BY <1>5 DEF Active
  <2>2. state[q] # "wait"
    BY <1>3, <2>1 DEF Active
  <2>3. d[c] <= d[q]
    BY <1>1, <2>1, <2>2 DEF Chain, Active
  <2>4. d[q] <= d[p]
    BY <1>6, <2>1
  <2> QED
    BY <1>2, <2>3, <2>4
<1>8. ASSUME NEW q \in Pid, InSession(q)'
      PROVE  IF parent'[q] = InitPid
             THEN q = login' /\ d[q] = 0
             ELSE state'[parent'[q]] = "wait" /\ d[q] = d[parent'[q]] + 1
  <2>1. InSession(q)
    BY <1>5, <1>8
  <2>2. q # c /\ parent'[q] = parent[q]
    BY <1>4, <1>5, <1>8
  <2>3. CASE parent[q] = InitPid
    BY <2>1, <2>2, <2>3 DEF Chain
  <2>4. CASE parent[q] # InitPid
    <3>1. /\ parent[q] \in Pid /\ state[parent[q]] = "wait"
          /\ d[q] = d[parent[q]] + 1
      BY <2>1, <2>4 DEF Chain, IInv, Slots, InitAlive, InSession
    <3>2. parent[q] # c
      BY <3>1 DEF Reap
    <3>3. parent[q] # p
      <4> SUFFICES ASSUME parent[q] = p PROVE FALSE
        OBVIOUS
      <4>1. d[q] = d[c]
        BY <3>1, <1>2
      <4> QED
        BY <4>1, <2>1, <2>2, <1>1 DEF Chain
    <3> QED
      BY <3>1, <3>2, <3>3, <2>2, <2>4, <1>3
  <2> QED
    BY <2>3, <2>4
<1>9. Chain(d)'
  <2>1. \A q, r \in Pid : InSession(q)' /\ InSession(r)' /\ d[q] = d[r] => q = r
    BY <1>5 DEF Chain
  <2>2. \A q, r \in Pid : Active(q)' /\ InSession(r)' => d[r] <= d[q]
    BY <1>5, <1>6, <1>7
  <2> QED
    BY <2>1, <2>2, <1>8 DEF Chain
<1> QED
  BY <1>9 DEF IsChain

\* A session whose first process is dead is over.
LEMMA RootIsAlone ==
  ASSUME IInv, NEW c \in Pid, state[c] = "zombie", parent[c] = InitPid,
         InSession(c)
  PROVE  \A q \in Pid : InSession(q) => q = c
<1> PICK d \in [Pid -> Nat] : Chain(d)
  BY DEF IInv, IsChain
<1>1. d[c] = 0
  BY DEF Chain
<1>2. \A q \in Pid : InSession(q) => d[q] = 0
  BY <1>1 DEF Chain, Active
<1> QED
  BY <1>1, <1>2 DEF Chain

-----------------------------------------------------------------------------
(* Every action preserves the invariant *)

LEMMA LaunchSafe ==
  ASSUME IInv, TypeOK', NEW from, NEW to, NEW image, Launch(from, to, image),
         \/ /\ from \in {"ethup", "httpd"} /\ image \in Daemons
            /\ to \notin {"wait", "panic"}
         \/ from \in {"login", "relaunch"} /\ image = "login" /\ to = "wait"
  PROVE  IInv'
<1>1. \A q \in Pid : ~InSession(q)
  BY DEF Launch, IInv, NoSession
<1>2. ASSUME NEW c \in Pid, Fork(InitPid, c, image, TRUE), pc' = to,
             login' = IF image = "login" THEN c ELSE login
      PROVE  IInv'
  <2>1. c # InitPid
    BY <1>2 DEF Fork, FreePids, IInv, InitAlive
  <2>2. /\ state' = [state EXCEPT ![c] = "child"]
        /\ prog' = [prog EXCEPT ![c] = image]
        /\ parent' = [parent EXCEPT ![c] = InitPid]
    BY <1>2, <2>1 DEF Fork, IInv, TypeOK
  <2>3. \A q \in Pid : InSession(q)' <=> q = c /\ image = "login"
    BY <1>1, <2>2 DEF InSession, IInv, TypeOK
  <2>4. InitAlive'
    BY <1>2, <2>1, <2>2 DEF InitAlive, IInv, TypeOK, Launch
  <2>5. Slots'
    BY <2>1, <2>2 DEF Slots, IInv, TypeOK
  <2>6. IsChain'
    <3> DEFINE d == [q \in Pid |-> 0]
    <3>1. d \in [Pid -> Nat]
      OBVIOUS
    <3>2. Chain(d)'
      BY <1>2, <2>2, <2>3 DEF Chain, Active, IInv, TypeOK
    <3> QED
      BY <3>1, <3>2 DEF IsChain
  <2>7. NoSession'
    BY <1>2, <2>3 DEF NoSession
  <2>8. Roots'
    BY <1>2, <2>2 DEF Roots, LoginNamesSession, IInv, TypeOK
  <2> QED
    BY <2>4, <2>5, <2>6, <2>7, <2>8 DEF IInv
<1>3. ASSUME UNCHANGED procVars, pc' = to,
             login' = IF image = "login" THEN NoPid ELSE login
      PROVE  IInv'
  <2>1. \A q \in Pid : ~InSession(q)'
    BY <1>1, <1>3 DEF InSession, procVars
  <2>2. InitAlive' /\ Slots'
    BY <1>3 DEF InitAlive, Slots, IInv, procVars, Launch
  <2>3. IsChain'
    <3> PICK d \in [Pid -> Nat] : Chain(d)
      BY DEF IInv, IsChain
    <3>1. Chain(d)'
      BY <2>1 DEF Chain, Active
    <3> QED
      BY <3>1 DEF IsChain
  <2>4. NoSession' /\ Roots'
    BY <1>3, <2>1 DEF NoSession, Roots, LoginNamesSession
  <2> QED
    BY <2>2, <2>3, <2>4 DEF IInv
<1> QED
  BY <1>2, <1>3 DEF Launch

LEMMA InitWaitSafe ==
  ASSUME IInv, TypeOK', NEW c \in Pid, InitWait(c)
  PROVE  IInv'
<1>1. /\ state[c] = "zombie" /\ parent[c] = InitPid /\ pc = "wait"
      /\ c # InitPid /\ login' = login
  BY DEF InitWait, Reap, IInv, InitAlive
<1>2. /\ state' = [state EXCEPT ![c] = "free"]
      /\ prog' = [prog EXCEPT ![c] = "none"]
      /\ parent' = [parent EXCEPT ![c] = NoPid]
  BY <1>1 DEF InitWait, Reap, IInv, TypeOK, InitAlive
<1>3. \A q \in Pid : InSession(q)' <=> InSession(q) /\ q # c
  BY <1>2 DEF InSession, IInv, TypeOK
<1>4. InitAlive'
  BY <1>1, <1>2 DEF InitWait, InitAlive, IInv, TypeOK
<1>5. Slots'
  BY <1>1, <1>2 DEF Slots, IInv, TypeOK
<1>6. CASE c = login
  <2>1. \A q \in Pid : ~InSession(q)'
    <3>1. InSession(c)
      BY <1>1, <1>6 DEF IInv, Roots, LoginNamesSession, InSession
    <3> QED
      BY <1>1, <1>3, <3>1, RootIsAlone
  <2>2. IsChain'
    <3> PICK d \in [Pid -> Nat] : Chain(d)
      BY DEF IInv, IsChain
    <3>1. Chain(d)'
      BY <2>1 DEF Chain, Active
    <3> QED
      BY <3>1 DEF IsChain
  <2>3. NoSession' /\ Roots'
    BY <1>6, <2>1 DEF InitWait, NoSession, Roots, LoginNamesSession
  <2> QED
    BY <1>4, <1>5, <2>2, <2>3 DEF IInv
<1>7. CASE c # login
  <2>1. ~InSession(c)
    <3> PICK d \in [Pid -> Nat] : Chain(d)
      BY DEF IInv, IsChain
    <3> QED
      BY <1>1, <1>7 DEF Chain
  <2>2. IsChain'
    <3>1. \A q \in Pid : InSession(q) => q # c
      BY <2>1
    <3>2. \A q \in Pid : q # c => state'[q] = state[q] /\ parent'[q] = parent[q]
      BY <1>2 DEF IInv, TypeOK
    <3>3. \A q \in Pid : InSession(q)' <=> InSession(q)
      BY <1>3, <3>1
    <3> QED
      BY <1>1, <3>1, <3>2, <3>3, ChainKept
  <2>3. pc' = "wait"
    BY <1>7 DEF InitWait
  <2>4. NoSession'
    BY <1>1, <1>3, <2>3 DEF IInv, NoSession
  <2>5. Roots'
    BY <1>1, <1>2, <1>7, <2>3 DEF Roots, LoginNamesSession, IInv, TypeOK
  <2> QED
    BY <1>4, <1>5, <2>2, <2>4, <2>5 DEF IInv
<1> QED
  BY <1>6, <1>7

LEMMA DieSafe ==
  ASSUME IInv, TypeOK', NEW p \in Pid, p # InitPid,
         state[p] \in {"child", "run"}, Die(p), UNCHANGED <<pc, login>>
  PROVE  IInv'
<1>1. parent' = parent /\ prog' = prog
  BY DieKeepsParents DEF Die
<1>2. state' = [state EXCEPT ![p] = "zombie"]
  BY DEF Die
<1>3. \A q \in Pid : InSession(q)' <=> InSession(q)
  BY <1>1, <1>2 DEF InSession, IInv, TypeOK
<1>4. IsChain'
  <2>1. \A q \in Pid : state'[q] = "wait" <=> state[q] = "wait"
    BY <1>2 DEF IInv, TypeOK
  <2> QED
    BY <1>1, <1>3, <2>1, ChainKept
<1>5. InitAlive' /\ Slots'
  BY <1>1, <1>2 DEF InitAlive, Slots, IInv, TypeOK
<1>6. NoSession' /\ Roots'
  BY <1>1, <1>2, <1>3 DEF NoSession, Roots, LoginNamesSession, IInv, TypeOK
<1> QED
  BY <1>4, <1>5, <1>6 DEF IInv

LEMMA StepSafe ==
  ASSUME IInv, TypeOK', NEW p \in Pid, pc # "panic", Step(p)
  PROVE  IInv'
<1>1. state[InitPid] = "run" /\ prog[InitPid] = "init"
  BY DEF IInv, InitAlive
<1>2. CASE LaunchedChild(p)
  <2>1. CASE Die(p)
    BY <1>1, <1>2, <2>1, DieSafe DEF LaunchedChild
  <2>2. CASE /\ UNCHANGED <<prog, parent, pc, login>>
             /\ \/ state' = [state EXCEPT ![p] = "run"]
                \/ state' = [state EXCEPT ![p] = "spin"]
    <3>1. state[p] = "child" /\ p # InitPid
      BY <1>1, <1>2 DEF LaunchedChild
    <3>2. \A q \in Pid : InSession(q)' <=> InSession(q)
      BY <2>2, <3>1 DEF InSession, IInv, TypeOK
    <3>3. \A q \in Pid : state'[q] = "wait" <=> state[q] = "wait"
      BY <2>2, <3>1 DEF IInv, TypeOK
    <3>4. IsChain'
      BY <2>2, <3>2, <3>3, ChainKept
    <3>5. InitAlive' /\ Slots'
      BY <2>2, <3>1 DEF InitAlive, Slots, IInv, TypeOK
    <3>6. NoSession' /\ Roots'
      BY <2>2, <3>1, <3>2 DEF NoSession, Roots, LoginNamesSession, IInv, TypeOK
    <3> QED
      BY <3>4, <3>5, <3>6 DEF IInv
  <2> QED
    BY <1>2, <2>1, <2>2 DEF LaunchedChild
<1>3. CASE ProgramExit(p) \/ LoginCrash(p) \/ ShellExit(p)
  BY <1>1, <1>3, DieSafe DEF ProgramExit, LoginCrash, ShellExit, Running
<1>4. CASE LoginExec(p) \/ ShellChild(p)
  <2>1. /\ state[p] \in {"child", "run"} /\ InSession(p) /\ p # InitPid
        /\ state' = [state EXCEPT ![p] = "run"]
        /\ UNCHANGED <<parent, pc, login>>
    BY <1>1, <1>4 DEF LoginExec, ShellChild, Running, IInv, TypeOK, Slots,
      InSession
  <2>2. /\ prog'[p] \notin NotSession
        /\ \A q \in Pid : q # p => prog'[q] = prog[q]
    BY <1>1, <1>4, <2>1 DEF LoginExec, ShellChild, InSession, IInv, TypeOK
  <2>3. \A q \in Pid : InSession(q)' <=> InSession(q)
    BY <2>1, <2>2 DEF InSession, IInv, TypeOK
  <2>4. \A q \in Pid : state'[q] = "wait" <=> state[q] = "wait"
    BY <2>1 DEF IInv, TypeOK
  <2>5. IsChain'
    BY <2>1, <2>3, <2>4, ChainKept
  <2>6. InitAlive' /\ Slots'
    BY <2>1, <2>2 DEF InitAlive, Slots, IInv, TypeOK
  <2>7. NoSession' /\ Roots'
    BY <2>1, <2>2, <2>3 DEF NoSession, Roots, LoginNamesSession, IInv, TypeOK
  <2> QED
    BY <2>5, <2>6, <2>7 DEF IInv
<1>5. ASSUME NEW c \in Pid, NEW tty, Running(p, {"sh"}), Fork(p, c, "sh", tty),
             UNCHANGED <<pc, login>>
      PROVE  IInv'
  <2>1. p # InitPid /\ c # InitPid /\ p # c /\ InSession(p) /\ ~InSession(c)
    BY <1>1, <1>5 DEF Running, Fork, FreePids, InSession
  <2>2. /\ state' = [state EXCEPT ![c] = "child", ![p] = "wait"]
        /\ prog' = [prog EXCEPT ![c] = "sh"]
        /\ parent' = [parent EXCEPT ![c] = p]
    BY <1>5, <2>1 DEF Fork
  <2>3. IsChain'
    BY <1>5, ChainExtended
  <2>4. InitAlive' /\ Slots'
    BY <1>5, <2>1, <2>2 DEF InitAlive, Slots, IInv, TypeOK, Running
  <2>5. NoSession'
    BY <1>5, <2>1 DEF NoSession, IInv
  <2>6. Roots'
    BY <1>5, <2>1, <2>2 DEF Roots, LoginNamesSession, IInv, TypeOK, InSession
  <2> QED
    BY <2>3, <2>4, <2>5, <2>6 DEF IInv
<1>6. CASE ShellWait(p)
  <2> PICK c \in Pid : Reap(p, c)
    BY <1>6 DEF ShellWait
  <2>1. /\ state[p] = "wait" /\ InSession(p) /\ p # InitPid /\ p # c
        /\ c # InitPid /\ UNCHANGED <<pc, login>>
    BY <1>1, <1>6 DEF ShellWait, Reap, IInv, Slots, InSession
  <2>2. /\ state' = [state EXCEPT ![c] = "free", ![p] = "run"]
        /\ prog' = [prog EXCEPT ![c] = "none"]
        /\ parent' = [parent EXCEPT ![c] = NoPid] /\ parent[c] = p
    BY DEF Reap
  <2>3. IsChain'
    BY <2>1, ChainShortened
  <2>4. InitAlive' /\ Slots'
    BY <2>1, <2>2 DEF InitAlive, Slots, IInv, TypeOK
  <2>5. NoSession'
    BY <2>1 DEF NoSession, IInv
  <2>6. Roots'
    BY <2>1, <2>2 DEF Roots, LoginNamesSession, IInv, TypeOK, InSession
  <2> QED
    BY <2>3, <2>4, <2>5, <2>6 DEF IInv
<1> QED
  BY <1>2, <1>3, <1>4, <1>5, <1>6 DEF Step, ShellCommand, ShellRunsCwd

LEMMA IInvNext == IInv /\ [Next]_vars => IInv'
<1> SUFFICES ASSUME IInv, [Next]_vars PROVE IInv'
  OBVIOUS
<1>1. TypeOK'
  BY TypeNext DEF IInv
<1>2. CASE LoadModule \/ Halted \/ Busy \/ UNCHANGED vars
  <2>1. CASE LoadModule
    <3>1. \A q \in Pid : ~InSession(q) /\ ~InSession(q)'
      BY <2>1 DEF LoadModule, IInv, NoSession, InitAlive, InSession, TypeOK
    <3>2. IsChain'
      <4> PICK d \in [Pid -> Nat] : Chain(d)
        BY DEF IInv, IsChain
      <4>1. Chain(d)'
        BY <3>1 DEF Chain, Active
      <4> QED
        BY <4>1 DEF IsChain
    <3>3. InitAlive' /\ Slots'
      BY <2>1 DEF LoadModule, IInv, InitAlive, Slots, TypeOK
    <3>4. NoSession' /\ Roots'
      BY <2>1, <3>1 DEF LoadModule, NoSession, Roots, LoginNamesSession
    <3> QED
      BY <1>1, <3>2, <3>3, <3>4 DEF IInv
  <2>2. CASE UNCHANGED vars
    BY <2>2 DEF vars, IInv, TypeOK, InitAlive, Slots, IsChain, Chain, Active,
      InSession, NoSession, Roots, LoginNamesSession
  <2> QED
    BY <1>2, <2>1, <2>2 DEF Halted, Busy
<1>3. CASE LaunchEthup \/ LaunchHttpd \/ LaunchLogin \/ RelaunchLogin
  BY <1>1, <1>3, LaunchSafe DEF LaunchEthup, LaunchHttpd, LaunchLogin, RelaunchLogin
<1>4. ASSUME NEW c \in Pid, InitWait(c) PROVE IInv'
  BY <1>1, <1>4, InitWaitSafe
<1>5. ASSUME NEW p \in Pid, pc # "panic", Step(p) PROVE IInv'
  BY <1>1, <1>5, StepSafe
<1> QED
  BY <1>2, <1>3, <1>4, <1>5 DEF Next, InitStep

THEOREM Invariant == Spec => []IInv
<1>1. Init => IInv
  BY IInvInit
<1>2. IInv /\ [Next]_vars => IInv'
  BY IInvNext
<1> QED
  BY <1>1, <1>2, PTL DEF Spec

-----------------------------------------------------------------------------
(* What follows *)

\* Of all the processes of a login session at most one, the last of the chain,
\* can read the terminal (sh.c's run() waits for what it forks, init.c starts
\* no session beside another).
THEOREM SingleReader == Spec => []OneReader
<1>1. IInv => OneReader
  <2> SUFFICES ASSUME IInv, NEW p \in Pid, NEW q \in Pid,
                      Foreground(p), Foreground(q)
               PROVE  p = q
    BY DEF OneReader
  <2> PICK d \in [Pid -> Nat] : Chain(d)
    BY DEF IInv, IsChain
  <2>1. InSession(p) /\ Active(p) /\ InSession(q) /\ Active(q)
    BY DEF Foreground, InSession, Active
  <2>2. d[p] <= d[q] /\ d[q] <= d[p]
    BY <2>1 DEF Chain
  <2>3. d[p] = d[q]
    BY <2>2
  <2> QED
    BY <2>1, <2>3 DEF Chain
<1> QED
  BY <1>1, Invariant, PTL

\* init inherits nothing: its only children are the daemons and the process in
\* `login`, so the pid wait() returns in init.c's loop is one it launched.
THEOREM OrphanFree == Spec => []NoOrphans
<1>1. IInv => NoOrphans
  <2> SUFFICES ASSUME IInv, NEW p \in Pid, state[p] # "free",
                      parent[p] = InitPid, prog[p] \notin Daemons
               PROVE  p = login
    BY DEF NoOrphans
  <2> PICK d \in [Pid -> Nat] : Chain(d)
    BY DEF IInv, IsChain
  <2>1. p # InitPid
    BY DEF IInv, InitAlive
  <2>2. InSession(p)
    BY <2>1 DEF IInv, Slots, InSession
  <2> QED
    BY <2>2 DEF Chain
<1> QED
  BY <1>1, Invariant, PTL

\* Nothing of the old session is left when init.c launches the next login.
THEOREM SlateIsClean == Spec => []CleanSlate
<1>1. IInv => CleanSlate
  BY DEF IInv, NoSession, CleanSlate, InSession
<1> QED
  BY <1>1, Invariant, PTL

\* The pid in init.c's variable login is not stale while init waits for it.
THEOREM LoginIsCurrent == Spec => []LoginNamesSession
<1>1. IInv => LoginNamesSession
  BY DEF IInv, Roots
<1> QED
  BY <1>1, Invariant, PTL

\* Every behaviour of the processes is one of the abstract supervisor: no
\* session is started beside another or before the last is cleared away, and
\* none ever again once launch() could not fork or its child could not execute
\* login. (That dead sessions are cleared away in the end is left to the model
\* checker.)
THEOREM RefinesSupervisor == Spec => Abstract!Safety
<1> USE DEF SessionStatus
<1>1. Init => Abstract!Init
  BY DEF Init, Abstract!Init
<1>2. IInv /\ [Next]_vars => [Abstract!Next]_SessionStatus
  <2> SUFFICES ASSUME IInv, [Next]_vars
               PROVE  Abstract!Next \/ SessionStatus' = SessionStatus
    OBVIOUS
  <2> USE DEF Abstract!Next, Abstract!Start, Abstract!StartFails, Abstract!End,
      Abstract!Clear
  <2>1. CASE LoadModule \/ LaunchEthup \/ LaunchHttpd
    BY <2>1 DEF LoadModule, LaunchEthup, LaunchHttpd, Launch
  <2>2. CASE LaunchLogin \/ RelaunchLogin
    <3>1. pc \in {"login", "relaunch"} /\ pc' = "wait"
      BY <2>2 DEF LaunchLogin, RelaunchLogin, Launch
    <3>2. \/ login' = NoPid
          \/ login' \in Pid /\ state'[login'] = "child"
      <4>1. ASSUME NEW c \in Pid, Fork(InitPid, c, "login", TRUE), login' = c
            PROVE  login' \in Pid /\ state'[login'] = "child"
        BY <4>1 DEF Fork, FreePids, IInv, TypeOK, InitAlive
      <4> QED
        BY <2>2, <4>1 DEF LaunchLogin, RelaunchLogin, Launch
    <3> QED
      BY <3>1, <3>2
  <2>3. ASSUME NEW c \in Pid, InitWait(c)
        PROVE  Abstract!Next \/ SessionStatus' = SessionStatus
    <3>1. pc = "wait" /\ state[c] = "zombie" /\ login' = login /\ c # InitPid
      BY <2>3 DEF InitWait, Reap, IInv, InitAlive
    <3>2. CASE c = login
      BY <2>3, <3>1, <3>2 DEF InitWait
    <3>3. CASE c # login
      <4>1. pc' = "wait"
        BY <2>3, <3>3 DEF InitWait
      <4>2. login # NoPid => login \in Pid /\ login # InitPid
        BY <3>1 DEF IInv, TypeOK, Roots, LoginNamesSession, InitAlive
      <4>3. login # NoPid => state'[login] = state[login]
        BY <2>3, <3>3, <4>2 DEF InitWait, Reap, IInv, TypeOK
      <4> QED
        BY <3>1, <4>1, <4>3
    <3> QED
      BY <3>2, <3>3
  <2>4. ASSUME NEW p \in Pid, pc # "panic", Step(p)
        PROVE  Abstract!Next \/ SessionStatus' = SessionStatus
    <3>1. UNCHANGED <<pc, login>>
      BY <2>4 DEF Step, LaunchedChild, ProgramExit, LoginExec, LoginCrash,
        ShellExit, ShellCommand, ShellRunsCwd, ShellChild, ShellWait
    <3>2. ASSUME pc = "wait", login # NoPid
          PROVE  \/ state'[login] = state[login]
                 \/ state[login] = "child" /\ state'[login] \in {"run", "spin"}
                 \/ state[login] = "run" /\ state'[login] \in {"wait", "zombie"}
                 \/ state[login] = "wait" /\ state'[login] = "run"
      <4>1. /\ login \in Pid /\ parent[login] = InitPid /\ state[login] # "free"
            /\ state[InitPid] = "run" /\ prog[login] \notin NotSession
            /\ login # InitPid
        BY <3>2 DEF IInv, TypeOK, Roots, LoginNamesSession, InitAlive
      <4>2. ASSUME NEW c \in Pid, Reap(p, c), state[p] = "wait"
            PROVE  \/ state'[login] = state[login]
                   \/ state[login] = "wait" /\ state'[login] = "run"
        <5>1. p # InitPid /\ c # login
          BY <4>1, <4>2 DEF Reap
        <5> QED
          BY <4>1, <4>2, <5>1 DEF Reap, IInv, TypeOK
      <4>3. ASSUME ProgramExit(p) \/ LoginCrash(p) \/ ShellExit(p)
            PROVE  \/ state'[login] = state[login]
                   \/ state[login] = "run" /\ state'[login] = "zombie"
        BY <4>1, <4>3 DEF ProgramExit, LoginCrash, ShellExit, Die, Running, IInv,
          TypeOK
      <4>4. ASSUME LaunchedChild(p)
            PROVE  \/ state'[login] = state[login]
                   \/ state[login] = "child" /\ state'[login] \in {"run", "spin"}
        <5>1. CASE prog[p] \in Daemons /\ Die(p)
          BY <4>1, <5>1 DEF Die, IInv, TypeOK
        <5>2. ASSUME NEW s \in {"run", "spin"}, state' = [state EXCEPT ![p] = s],
                     state[p] = "child"
              PROVE  \/ state'[login] = state[login]
                     \/ state[login] = "child" /\ state'[login] \in {"run", "spin"}
          BY <4>1, <5>2 DEF IInv, TypeOK
        <5> QED
          BY <4>4, <5>1, <5>2 DEF LaunchedChild
      <4>5. ASSUME LoginExec(p) \/ ShellChild(p)
            PROVE  state'[login] = state[login]
        BY <4>1, <4>5 DEF LoginExec, ShellChild, IInv, TypeOK
      <4>6. ASSUME NEW c \in Pid, NEW tty, Running(p, {"sh"}),
                   Fork(p, c, "sh", tty)
            PROVE  \/ state'[login] = state[login]
                   \/ state[login] = "run" /\ state'[login] = "wait"
        <5>1. c # login /\ p # InitPid
          BY <4>1, <4>6 DEF Running, Fork, FreePids, IInv, InitAlive
        <5> QED
          BY <4>1, <4>6, <5>1 DEF Running, Fork, IInv, TypeOK
      <4> QED
        BY <2>4, <4>2, <4>3, <4>4, <4>5, <4>6 DEF Step, ShellWait, ShellCommand,
          ShellRunsCwd
    <3> QED
      BY <2>4, <3>1, <3>2
  <2>5. CASE Halted \/ Busy \/ UNCHANGED vars
    BY <2>5 DEF Halted, Busy, vars
  <2> QED
    BY <2>1, <2>2, <2>3, <2>4, <2>5 DEF Next, InitStep
<1> QED
  BY <1>1, <1>2, Invariant, PTL DEF Spec, Abstract!Safety
=============================================================================
