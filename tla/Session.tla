------------------------------ MODULE Session -------------------------------
(***************************************************************************)
(* The processes of a running system: init (src/bin/init.c), the daemons   *)
(* it launches, the login session it supervises (src/bin/login.c becomes   *)
(* src/bin/sh.c by execve) and the commands the shell runs.                *)
(*                                                                         *)
(* fork, execve, wait and exit are the kernel's, reached through           *)
(* src/libc/syscalls.c; they are modelled from how the code uses them: a   *)
(* free pid is handed out (and may be reused), a process that ends stays a *)
(* zombie until its parent waits for it, and its children go to init.      *)
(* What programs do with their data is left out; descriptors are reduced   *)
(* to one question, whether a process's descriptor 1, the one readline     *)
(* reads, is the terminal (see Shell for the descriptor table).            *)
(***************************************************************************)
EXTENDS Naturals

CONSTANTS
  Pid,      \* the pids the kernel can hand out
  InitPid,  \* the pid of init
  NoPid,    \* what init's variable login holds when fork() has failed
  Faults    \* the failures that may happen, a subset of FaultKinds

\* "module": loading e1000.ko fails with EPERM, the one error init recognises;
\* "fork": fork fails although a pid is free;  "exec": execve fails;
\* "devnull": /dev/null cannot be opened or duplicated;
\* "crash": login dies of a fault.
FaultKinds == {"module", "fork", "exec", "devnull", "crash"}

ASSUME PidAssumption == InitPid \in Pid /\ NoPid \notin Pid
ASSUME FaultsAssumption == Faults \subseteq FaultKinds

VARIABLES
  state,    \* what each pid stands for at the moment
  prog,     \* the program image the process runs; of a forked child of init,
            \* the program it is about to execute
  parent,   \* the process that will be told when this one ends
  onTty,    \* is descriptor 1 the terminal?
  pc,       \* where init is in main()
  login     \* init's variable of that name

procVars == <<state, prog, parent, onTty>>
vars == <<state, prog, parent, onTty, pc, login>>

\* "child": forked, has not executed its program;  "run": running it;
\* "wait": a shell blocked in wait();  "spin": launch()'s endless loop after a
\* failed execve.
States == {"free", "child", "run", "wait", "spin", "zombie"}
Daemons == {"ethup", "httpd"}
Programs == Daemons \union {"none", "init", "login", "sh", "cmd"}
Steps == {"module", "ethup", "httpd", "login", "wait", "relaunch", "panic"}

\* Types, and that only pid 1 ever runs init: launch() is called from init's
\* main(), and its child must not come back there (init.c:48-56).
TypeOK ==
  /\ state \in [Pid -> States]
  /\ prog \in [Pid -> Programs]
  /\ \A p \in Pid : prog[p] = "init" => p = InitPid
  /\ parent \in [Pid -> Pid \union {NoPid}]
  /\ onTty \in [Pid -> BOOLEAN]
  /\ pc \in Steps
  /\ login \in Pid \union {NoPid}

Init ==
  /\ state = [p \in Pid |-> IF p = InitPid THEN "run" ELSE "free"]
  /\ prog = [p \in Pid |-> IF p = InitPid THEN "init" ELSE "none"]
  /\ parent = [p \in Pid |-> NoPid]
  /\ onTty = [p \in Pid |-> p = InitPid]
  /\ pc = "module"
  /\ login = NoPid

-----------------------------------------------------------------------------
(* The kernel's side: fork, exit, wait *)

FreePids == {p \in Pid : state[p] = "free"}

\* Mutant: the parent does not wait for its child.
ForkWithoutWait(p, c, image, tty) ==
  /\ c \in FreePids
  /\ state' = [state EXCEPT ![c] = "child"]
  /\ prog' = [prog EXCEPT ![c] = image]
  /\ parent' = [parent EXCEPT ![c] = p]
  /\ onTty' = [onTty EXCEPT ![c] = tty]

\* fork() in process p: child c is a copy of p; when p is a shell it blocks in
\* wait() from then on.
Fork(p, c, image, tty) ==
  /\ c \in FreePids
  /\ state' = [state EXCEPT ![c] = "child",
                            ![p] = IF p = InitPid THEN @ ELSE "wait"]
  /\ prog' = [prog EXCEPT ![c] = image]
  /\ parent' = [parent EXCEPT ![c] = p]
  /\ onTty' = [onTty EXCEPT ![c] = tty]

ForkCanFail == FreePids = {} \/ "fork" \in Faults

\* Process p ends: it is a zombie, and init inherits its children.
Die(p) ==
  /\ state' = [state EXCEPT ![p] = "zombie"]
  /\ parent' = [c \in Pid |-> IF parent[c] = p THEN InitPid ELSE parent[c]]
  /\ UNCHANGED <<prog, onTty>>

\* wait() in process p returns the pid of its dead child c, which is free for
\* another fork() from then on. A waiting shell goes back to its prompt.
Reap(p, c) ==
  /\ state[c] = "zombie" /\ parent[c] = p
  /\ state' = [state EXCEPT ![c] = "free", ![p] = "run"]
  /\ prog' = [prog EXCEPT ![c] = "none"]
  /\ parent' = [parent EXCEPT ![c] = NoPid]
  /\ onTty' = [onTty EXCEPT ![c] = FALSE]

Running(p, programs) == state[p] = "run" /\ prog[p] \in programs

-----------------------------------------------------------------------------
(* init *)

\* load_module(): open() and finit_module() return -errno, so the comparison
\* with -1 sees EPERM only; any other failure goes unnoticed. exit(1) in pid 1
\* stops the machine.
LoadModule ==
  /\ pc = "module"
  /\ \/ pc' = "ethup" /\ UNCHANGED state
     \/ /\ "module" \in Faults
        /\ pc' = "panic"
        /\ state' = [state EXCEPT ![InitPid] = "zombie"]
  /\ UNCHANGED <<prog, parent, onTty, login>>

\* launch() up to its fork(), called at step `from` of main().
Launch(from, to, image) ==
  /\ pc = from
  /\ pc' = to
  /\ \/ \E c \in Pid :
          /\ Fork(InitPid, c, image, TRUE)
          /\ login' = IF image = "login" THEN c ELSE login
     \/ /\ ForkCanFail
        /\ login' = IF image = "login" THEN NoPid ELSE login
        /\ UNCHANGED procVars

LaunchEthup == Launch("ethup", "httpd", "ethup")
LaunchHttpd == Launch("httpd", "login", "httpd")
LaunchLogin == Launch("login", "wait", "login")
RelaunchLogin == Launch("relaunch", "wait", "login")

\* Mutant: no loop behind the failed execve, the child returns to main().
LaunchedChildReturns(c) ==
  /\ state[c] = "child" /\ parent[c] = InitPid
  /\ state' = [state EXCEPT ![c] = "run"]
  /\ \/ UNCHANGED prog
     \/ "exec" \in Faults /\ prog' = [prog EXCEPT ![c] = "init"]
  /\ UNCHANGED <<parent, onTty, pc, login>>

\* launch() after fork(), in the child: the daemons' std* go to /dev/null, a
\* failed dup2 ends the child, a failed execve leaves it in the busy loop.
LaunchedChild(c) ==
  /\ state[c] = "child" /\ parent[c] = InitPid
  /\ UNCHANGED <<pc, login>>
  /\ \/ \E tty \in (IF prog[c] \in Daemons
                    THEN {FALSE} \union {t \in {TRUE} : "devnull" \in Faults}
                    ELSE {TRUE}) :
          /\ onTty' = [onTty EXCEPT ![c] = tty]
          /\ \/ state' = [state EXCEPT ![c] = "run"]
             \/ "exec" \in Faults /\ state' = [state EXCEPT ![c] = "spin"]
          /\ UNCHANGED <<prog, parent>>
     \/ /\ prog[c] \in Daemons /\ "devnull" \in Faults
        /\ Die(c)

\* Mutant: the pid wait() returns is not looked at.
InitWaitForgets(c) ==
  pc = "wait" /\ Reap(InitPid, c) /\ pc' = "wait" /\ UNCHANGED login

\* Mutant: waitpid(login) in place of wait().
InitWaitLogin(c) ==
  pc = "wait" /\ c = login /\ Reap(InitPid, c) /\ pc' = "relaunch" /\ UNCHANGED login

\* Mutant: any child that ends has login launched again.
InitWaitAny(c) ==
  pc = "wait" /\ Reap(InitPid, c) /\ pc' = "relaunch" /\ UNCHANGED login

\* The loop at the end of main(): wait() for any child, relaunch login if it
\* was the login process. Without a child to wait for the loop just spins.
InitWait(c) ==
  /\ pc = "wait"
  /\ Reap(InitPid, c)
  /\ pc' = IF c = login THEN "relaunch" ELSE "wait"
  /\ UNCHANGED login

-----------------------------------------------------------------------------
(* Daemons, login, and the programs a shell runs *)

\* ethup and commands end; httpd ends only if its socket cannot be set up.
ProgramExit(p) ==
  /\ Running(p, Daemons \union {"cmd"})
  /\ Die(p)
  /\ UNCHANGED <<pc, login>>

\* A user has logged in: execve("/bin/sh"). If it fails login asks again.
LoginExec(p) ==
  /\ Running(p, {"login"})
  /\ prog' = [prog EXCEPT ![p] = "sh"]
  /\ UNCHANGED <<state, parent, onTty, pc, login>>

LoginCrash(p) ==
  /\ "crash" \in Faults
  /\ Running(p, {"login"})
  /\ Die(p)
  /\ UNCHANGED <<pc, login>>

-----------------------------------------------------------------------------
(* The shell *)

\* The command line `exit`, or one that kills the shell (a blank line makes
\* run() read through a null args[0]). It takes a terminal to type either.
ShellExit(p) ==
  /\ Running(p, {"sh"}) /\ onTty[p]
  /\ Die(p)
  /\ UNCHANGED <<pc, login>>

\* run() on a command that find_file() knows: fork, and wait for the child.
\* The child's descriptor 1 is a file if the line redirects it (the dup2 calls
\* come before anything can observe the child). When fork fails, wait() finds
\* no child and the shell is back at its prompt: a stuttering step.
ShellCommand(p) ==
  /\ Running(p, {"sh"}) /\ onTty[p]
  /\ \E c \in Pid, tty \in BOOLEAN : Fork(p, c, "sh", tty)
  /\ UNCHANGED <<pc, login>>

\* readline() reads descriptor 1. In a shell whose descriptor 1 is a file open
\* for writing the read fails and buf keeps the path getcwd() put there, so the
\* "command" is the current directory, which find_file() accepts.
ShellRunsCwd(p) ==
  /\ Running(p, {"sh"}) /\ ~onTty[p]
  /\ \E c \in Pid : Fork(p, c, "sh", FALSE)
  /\ UNCHANGED <<pc, login>>

\* The child of run(). A failed execve returns to main()'s loop: the child is
\* now a second shell. Executing the current directory always fails.
ShellChild(c) ==
  /\ state[c] = "child" /\ parent[c] # InitPid
  /\ state' = [state EXCEPT ![c] = "run"]
  /\ \/ /\ onTty[parent[c]]
        /\ \E image \in {"cmd", "sh"} : prog' = [prog EXCEPT ![c] = image]
     \/ /\ "exec" \in Faults \/ ~onTty[parent[c]]
        /\ UNCHANGED prog
  /\ UNCHANGED <<parent, onTty, pc, login>>

\* wait(&status) in run() returns and the shell prompts again.
ShellWait(p) ==
  /\ state[p] = "wait"
  /\ \E c \in Pid : Reap(p, c)
  /\ UNCHANGED <<pc, login>>

-----------------------------------------------------------------------------

\* The machine has stopped.
Halted == pc = "panic" /\ UNCHANGED vars

\* Loops of the code that change nothing: launch()'s after a failed execve,
\* init's when it has no child, and a shell that can neither fork nor be told
\* anything.
Busy ==
  /\ \/ \E p \in Pid : state[p] = "spin"
     \/ pc = "wait" /\ \A p \in Pid : state[p] = "free" \/ parent[p] # InitPid
     \/ ForkCanFail /\ \E p \in Pid : Running(p, {"sh"}) /\ ~onTty[p]
  /\ UNCHANGED vars

InitStep ==
  \/ LoadModule \/ LaunchEthup \/ LaunchHttpd \/ LaunchLogin \/ RelaunchLogin
  \/ \E c \in Pid : InitWait(c)

Step(p) ==
  \/ LaunchedChild(p) \/ ProgramExit(p) \/ LoginExec(p) \/ LoginCrash(p)
  \/ ShellExit(p) \/ ShellCommand(p) \/ ShellRunsCwd(p) \/ ShellChild(p)
  \/ ShellWait(p)

Next ==
  \/ InitStep
  \/ \E p \in Pid : pc # "panic" /\ Step(p)
  \/ Halted
  \/ Busy

Spec == Init /\ [][Next]_vars

\* The kernel runs every process that can run, and what these steps need
\* nobody has to type; users and commands owe nothing. Linux's wait4() takes
\* the oldest of several dead children, so init passes none over for ever.
Automatic(p) ==
  /\ pc # "panic"
  /\ LaunchedChild(p) \/ ShellChild(p) \/ ShellWait(p) \/ ShellRunsCwd(p)

Fairness ==
  /\ WF_vars(InitStep)
  /\ \A p \in Pid : SF_vars(InitWait(p)) /\ WF_vars(Automatic(p))

FairSpec == Spec /\ Fairness

-----------------------------------------------------------------------------
(* Properties *)

NotSession == Daemons \union {"init"}

\* Processes that may read the terminal now or as soon as they are scheduled.
Foreground(p) == state[p] \in {"child", "run"} /\ prog[p] \notin NotSession

\* Login, the shells (also the accidental ones left by a failed execve) and
\* the commands never compete for the terminal: at most one of them is not
\* blocked in wait(). This rests on run() waiting for every child it forks and
\* on init starting no second session.
OneReader == \A p, q \in Pid : Foreground(p) /\ Foreground(q) => p = q

\* No process of a session is ever orphaned: besides the daemons, init has no
\* child but the session it recorded in `login`, so its wait() never returns
\* the pid of a process it did not start.
NoOrphans ==
  \A p \in Pid :
    state[p] # "free" /\ parent[p] = InitPid => prog[p] \in Daemons \/ p = login

\* When init starts the next login every process of the previous session is
\* gone, nested shells and commands included; the pids they held are free.
CleanSlate ==
  pc = "relaunch" => \A p \in Pid : state[p] # "free" => prog[p] \in NotSession

\* While init waits, the pid it remembers is still that of the session it
\* started: it has not been reaped and handed out again.
LoginNamesSession ==
  pc = "wait" /\ login # NoPid =>
    /\ state[login] # "free"
    /\ parent[login] = InitPid
    /\ prog[login] \notin NotSession

\* The abstract view: what has become of the session init is responsible for.
\* A forked child is none before its execve; if that fails launch() keeps the
\* child in its loop, so that it never ends and wait() never names it.
SessionStatus ==
  IF pc = "panic" THEN "lost"
  ELSE IF pc # "wait" THEN "none"
  ELSE IF login = NoPid THEN "lost"
  ELSE CASE state[login] = "child" -> "none"
         [] state[login] = "spin" -> "lost"
         [] state[login] \in {"zombie", "free"} -> "ended"
         [] OTHER -> "up"

Abstract == INSTANCE Supervisor WITH session <- SessionStatus

\* The processes implement init's promise about sessions.
ImplementsSupervisor == Abstract!Spec

\* A session that has ended is followed by a new one, except in two cases,
\* which are final: the kernel refuses the fork() (init.c:83 keeps -errno), or
\* execve("/bin/login") fails in the child (init.c:48-54, the endless loop).
SessionRestarts ==
  SessionStatus = "ended" ~>
    \/ SessionStatus = "up"
    \/ login = NoPid /\ ForkCanFail
    \/ login # NoPid /\ state[login] = "spin" /\ "exec" \in Faults

\* No process that ends stays a zombie for ever (init itself ends only with the
\* machine).
ZombiesReaped ==
  \A p \in Pid \ {InitPid} : state[p] = "zombie" ~> state[p] = "free"

=============================================================================
