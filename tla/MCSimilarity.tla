---------------------------- MODULE MCSimilarity ----------------------------
(* One file of every text of up to four characters; two of every three words in  *)
(* any order; up to four files of up to two words; eight whose pairs all have     *)
(* different weights; eighteen that are empty.  With 16 bits the ninth file is    *)
(* what the twenty-first is with 64: 9! > 2^16, 21! > 2^64; and the eighteenth    *)
(* what the sixty-sixth is: 2 * 16! and 2 * 64! are 0 modulo 2^16 and 2^64.       *)
EXTENDS Similarity

Texts(S, n) == UNION {[1..k -> S] : k \in 0..n}

\* A file of words, each of which is a single letter.
Spaced(w) == [i \in 1..2 * Len(w) |-> IF i % 2 = 1 THEN w[(i + 1) \div 2] ELSE " "]
Words(n) == {Spaced(w) : w \in Texts({"a", "b", "c"}, n)}
Repeated(n) == Spaced([i \in 1..n |-> "a"])

MCSources ==
    {<<t>> : t \in Texts({"a", "B", "b", "-", "'", " "}, 4)}
    \cup {<<s, t>> : s \in Words(3), t \in Words(3)}
    \cup UNION {[1..n -> {<<>>, <<"a">>, <<"b", "\n", "A">>}] : n \in 0..4}
    \cup {<<Repeated(9), Repeated(15), Repeated(1), Repeated(0), Repeated(4), Repeated(22),
            Repeated(32), Repeated(34)>>}
    \cup {[k \in 1..18 |-> <<>>]}

\* Eight files are the most whose factorial 16 bits hold, as twenty are with 64.
ASSUME Fits(8) /\ ~Fits(9)

NineFiles == {[k \in 1..9 |-> Repeated(k)]}
=============================================================================
