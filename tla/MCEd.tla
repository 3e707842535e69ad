--------------------------------- MODULE MCEd ---------------------------------
(* A small instance of Ed for TLC. *)
EXTENDS Ed

\* The negative number stands for one of so many digits that an int overflows.
Numbers == {-3, 0, 1}

Lines == {<< >>, <<"a">>, <<"b">>}

\* No file, an empty one, one without a newline at its end, one with an empty
\* line, and one with a zero byte.
SomeFiles == {Absent, << >>, <<"a", "n", "b">>, <<"a", "n", "n">>, <<"b", "0", "a">>}
=============================================================================
