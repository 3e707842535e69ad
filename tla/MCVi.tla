-------------------------------- MODULE MCVi --------------------------------
(* Small instances of Vi for TLC. *)
EXTENDS Vi

\* No file, an empty one, and one of three lines; with a zero byte in it and
\* without a newline at its end.
SomeFiles == {Absent, << >>, <<"a", "n", " ", "0", "n", "n", "a">>}

=============================================================================
