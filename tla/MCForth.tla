------------------------------- MODULE MCForth -------------------------------
(* Small instances of Forth for TLC. *)
EXTENDS Forth

SomeNumerals == {"0", "1", "11", "2"}
Values4 == [t \in SomeNumerals |-> Wrap(CASE t = "0" -> 0 [] t = "1" -> 1 [] t = "11" -> 11
                                             [] t = "2" -> 2)]

Names == {"a", "b"}
Bodies == {<<"1">>, <<"2dup">>, <<"a">>, <<"a", "b">>, <<";">>, <<":", "a">>, <<"bye">>,
           <<"(", "a", ")">>}

SomeLines ==
  {<<CWords[i]>> : i \in DOMAIN CWords}
  \cup {<<n>> : n \in Names \cup {"0", "1"}}
  \cup {<<":", n>> \o b \o <<";">> : n \in Names, b \in Bodies}
  \cup {<<"0", "1", "11", "2">>, <<DotQuote, "a", "b\"", "1">>, <<"(", "1", ")">>, <<":", "a", "1">>,
        <<"1", "c">>, <<":", ":", "1", ";">>}

Typed == UNION {{l[i] : i \in DOMAIN l} : l \in SomeLines}
Twice == [t \in Typed |->
            CASE t = "1" -> "11" [] t = ";" -> ";;" [] t = "a" -> "aa" [] OTHER -> t]
SomeTokens == Typed \cup {Twice[t] : t \in Typed}
Closings == {DotQuote, "b\""}
=============================================================================
