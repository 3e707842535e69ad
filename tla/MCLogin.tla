------------------------------- MODULE MCLogin --------------------------------
(* A small instance of Login for TLC. *)
EXTENDS Login

Users == {"root", "ann", "bob", "cy", "dan", ""}
Names == Users \union {"stranger"}

\* Root's uid file lacks its second line, bob's the newline behind it, cy's is
\* missing; the empty name leads to /Users/ itself, where this instance has a
\* password file. Dan has none.
UidFiles == [u \in Users |-> CASE u = "root" -> <<"0">>
                               [] u = "ann" -> <<"1", "2">>
                               [] u = "bob" -> <<"2">>
                               [] OTHER -> << >>]

\* Nobody has a group but root's, so that only the uid can be the wrong one: a shell's
\* group is wrong on the very first pass where users have groups of their own.
OneGroup == [u \in Users |-> CASE u = "root" -> <<"0">>
                               [] u = "ann" -> <<"1">>
                               [] u = "bob" -> <<"2">>
                               [] OTHER -> << >>]

Passwords == [u \in Users |-> IF u = "dan" THEN "no file" ELSE u]
=============================================================================
