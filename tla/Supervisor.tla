----------------------------- MODULE Supervisor -----------------------------
(***************************************************************************)
(* What init promises about the login session, with no processes in it: at *)
(* most one session exists, a new one is started only after the previous   *)
(* one has ended and has been cleared away, and every session that ends is *)
(* followed by another one - unless the attempt to start it fails, which   *)
(* takes one failed fork() or execve() and is never repeated.              *)
(***************************************************************************)

VARIABLE session

\* "none": the (next) session has still to start;  "up": the login program has
\* been executed, somebody may log in or is logged in;  "ended": the session is
\* over but init has not noticed;  "lost": the attempt to start one failed, or
\* init gave up before it.
SessionStates == {"none", "up", "ended", "lost"}

TypeOK == session \in SessionStates

Init == session = "none"

Start == session = "none" /\ session' = "up"
StartFails == session = "none" /\ session' = "lost"
End == session = "up" /\ session' = "ended"
Clear == session = "ended" /\ session' = "none"

Next == Start \/ StartFails \/ End \/ Clear

Safety == Init /\ [][Next]_session

\* init keeps looking after the session: one that has ended is cleared away and
\* the attempt to start the next is made. A session need never end.
Spec == Safety /\ WF_session(Clear) /\ WF_session(Start \/ StartFails)

=============================================================================
