---------------------------- MODULE MCKKJServer -----------------------------
(* A client that says everything testcases.txt lists, and one that does not get  *)
(* the joke.                                                                     *)
EXTENDS KKJServer

CONSTANTS c1, c2

Who == "Who's there?"
Lengths ==
    [w \in {"REG", "ERR", "125", "1a2", "Meh"} |-> 3] @@
    [w \in {"EG", "12", "13"} |-> 2] @@ [w \in {"R", "9", "4", "3", "0"} |-> 1] @@
    [w \in {"M0LN", "M1CT", "M2CT", "M6CT", "Meh."} |-> 4] @@
    [w \in {"Who, who?", "Wha, who?"} |-> 9] @@
    [w \in {Who, "Who's thare?"} |-> 12] @@ [w \in {"Who's theree?"} |-> 13]
Numbers ==
    ("0" :> 0) @@ ("3" :> 3) @@ ("4" :> 4) @@ ("9" :> 9) @@ ("12" :> 12) @@
    ("13" :> 13) @@ ("125" :> 125)
Exclamations == {"Meh.", Who, "Who's thare?", "Who's theree?", "Who, who?", "Wha, who?"}

Reg(d, t) == <<"REG", PIPE, d, PIPE, t, PIPE>>
Err(e) == <<"ERR", PIPE, e, PIPE>>

First ==
    {Reg("12", Who), Reg("125", Who), Reg("13", "Who's theree?"), Reg("12", "Who's thare?"),
     Reg("1a2", Who), Append(Reg("12", Who), PIPE), Front(Reg("12", Who)),
     <<"REG", "12", PIPE, Who, PIPE>>, <<"REG", PIPE, "12", Who, PIPE>>,
     <<"REG", PIPE, PIPE, "12", PIPE, Who, PIPE>>,
     <<"R", PIPE, "EG", PIPE, "12", PIPE, Who, PIPE>>,
     <<"REG", PIPE, "12", PIPE, PIPE, Who, PIPE>>, <<PIPE, "12", PIPE, Who, PIPE>>,
     Err("M0LN"), Err("M1CT"), Err("M6CT")}
Second == {Reg("9", "Who, who?"), Reg("9", "Wha, who?"), Append(Reg("9", "Who, who?"), PIPE)}
Third ==
    {Reg("4", "Meh."), Reg("3", "Meh"), <<"REG", PIPE, "0", PIPE, PIPE>>,
     <<"REG", PIPE, "3", PIPE, PIPE>>}

\* Files of up to five lines that are odd, and three that are not: without any line,
\* with blank ones alone, and with four jokes.
LineKinds == {<<"a", "\n">>, <<"b", "\r", "\n">>, <<"\n">>, <<"\r", "\n">>}
FilesUpTo(n) == UNION {[1..k -> LineKinds] : k \in 0..n}
FourJokes ==
    <<<<"a", "\n">>, <<"b", "\r", "\n">>, <<"\r", "\n">>, <<"c", "\n">>, <<"\n">>,
      <<"d", "\n">>, <<"e", "\r", "\n">>, <<"f", "\n">>, <<"g", "\n">>, <<"h">>>>
MCFiles ==
    {f \in FilesUpTo(5) : Cardinality({k \in DOMAIN f : Len(f[k]) > 1 /\ f[k][1] # "\r"}) % 2 = 1}
    \cup {<<>>, <<<<"\r", "\n">>, <<"\n">>>>, FourJokes}
FourJokesOnly == {FourJokes}

MCClients == {c1, c2}
MCMessages ==
    [c \in MCClients |->
        IF c = c1 THEN <<First, Second, Third>>
        ELSE <<{Reg("12", Who)}, {Err("M2CT")}, {}>>]
=============================================================================
