------------------------------ MODULE MCShell -------------------------------
(* Small instances of Shell for TLC. *)
EXTENDS Shell

W == {"cmd", "f", "exit", "cd"}
Str(op, w) == [op |-> op, word |-> w]

\* Few strings, for long lines: a stale slot needs four in a line. One operator
\* stands alone, the other one is attached.
MixedTokens == {Str("", "cmd"), Str("", "exit"), Str("<", ""), Str(">", "f")}

\* One operator, for lines with two redirections to different files, one of
\* which the user may not write.
SpacedTokens == {Str("", "cmd"), Str("", "f"), Str(">", "")}
Protected == {Str("", "f")}

AttachedTokens == {Str("", "cmd"), Str("<", "f"), Str(">", "f")}
=============================================================================
