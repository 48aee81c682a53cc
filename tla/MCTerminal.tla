----------------------------- MODULE MCTerminal -----------------------------
(* Terminal with values for TLC.                                           *)
EXTENDS Terminal, TLC

CONSTANTS w1, w2, w3

Writers == {w1, w2, w3}
Texts == w1 :> <<"x", "y">> @@ w2 :> <<"u", "v">> @@ w3 :> <<"p", "\t", "q">>
Manners == w1 :> "colored" @@ w2 :> "puts" @@ w3 :> "printf"
Colours == w1 :> "cyan"

K(plain, shifted) == [plain |-> plain, shifted |-> shifted]
Keys == {K("a", "A"), K("\t", "\t"), K("'", "\""), K(BS, BS), K("\n", "\n")}

\* The texts are such as StringsStayWhole is about.
ASSUME TextsReadable == TextsAreReadable
=============================================================================
