---------------------------- MODULE MCTokenizer -----------------------------
(* Every argument of up to five characters that make numbers, of up to four that  *)
(* make operators beside letters and digits, and of up to six that make comments; *)
(* up to three elements between delimiters, some longer than what is allocated at *)
(* first; and the lines of testcases.txt and of the rubric's fourth case.         *)
EXTENDS Tokenizer

Strings(S, n) == UNION {[1..k -> S] : k \in 0..n}
Chars(s) == [k \in 1..Len(s) |-> SubSeq(s, k, k)]

Elements == {Chars(s) : s \in {"do", "a", "10", "0", "x+", "sizeof", "unsigned", "continued"}}
Delimiters == {<<" ">>, <<"\n", "\t">>, <<"/", "/", "!", "\n">>, <<"/", "*", "!", "*", "\\">>}
Separated ==
    {x \o d \o y : x \in Elements, d \in Delimiters, y \in Elements}
    \cup {x \o <<" ">> \o y \o <<" ">> \o z : x \in Elements, y \in Elements, z \in Elements}

testcases ==
    {Chars(s) : s \in
        {"abc ABC abc123", "123abc 012abc 0xabcZ 1.3abc 1.3e1abc", "123 0888 0129",
         "0123 000 0777", "0x000 0X123 0xaf 0XAF", "3.1 30.01 3.1e10 3.1e-10 3.00e1",
         "3..1 3...1e 31. 31.e", "<<= >>=", "<<=>>=",
         "+= -= *= /= %= <= >= == != || && ++ -- >> << -> &= ^= |=",
         "+=word-=word*=letter/=abc%=3.1<=3.12>=0x123==!=||&&++-->><<->&=^=|=",
         ", ! ~ ^ | + / ? : < > = & - *", ",pad!pad~3.1^3.1|30.1+0123/099?:<>=&-*",
         "012239.3563e-6 0xab2c!=[special]", "012.5 0128.5e1 00012.e", "abc auto 123", "continue", "/*My Comment1*\\",
         "abc/*My Comment1*\\123    /*My Comment2*\\    3.1",
         "abc/*My Comment1*\\/*My Comment2*\\123"}}

MCInputs ==
    Strings({"a", "0", "7", "9", ".", "e", "-"}, 5)
    \cup Strings({"a", "7", "0", "x", "+", "-", ">", "=", "<", "'"}, 4)
    \cup Strings({"/", "*", "\\", "\n", "a"}, 6)
    \cup Separated \cup testcases
=============================================================================
