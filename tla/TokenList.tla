----------------------------- MODULE TokenList ------------------------------
(***************************************************************************)
(* The lists of tokens of Asst2/Asst2.c.  A list is a sequence of nodes    *)
(* [name, val], in the order of the child pointers; a name is a sequence   *)
(* of lower-case letters and hyphens, one string each.                     *)
(***************************************************************************)
EXTENDS Integers, Sequences, SequencesExt

Letters  == <<"a", "b", "c", "d", "e", "f", "g", "h", "i", "j", "k", "l", "m",
              "n", "o", "p", "q", "r", "s", "t", "u", "v", "w", "x", "y", "z">>
Capitals == <<"A", "B", "C", "D", "E", "F", "G", "H", "I", "J", "K", "L", "M",
              "N", "O", "P", "Q", "R", "S", "T", "U", "V", "W", "X", "Y", "Z">>

isalpha(c) == c \in ToSet(Letters) \cup ToSet(Capitals)

tolower(c) ==
    IF c \in ToSet(Capitals)
    THEN Letters[CHOOSE i \in DOMAIN Capitals : Capitals[i] = c] ELSE c

checkDelimiter(c) == c \in {" ", "\t", "\\v", "\f", "\n", "\r"}

\* The place of a character of a name in ASCII: '-' comes before the letters.
Code(c) == IF c = "-" THEN 0 ELSE CHOOSE i \in DOMAIN Letters : Letters[i] = c

\* strcmp(s, t) < 0
Before(s, t) ==
    \E n \in 0..Len(s) :
        /\ n < Len(t)
        /\ \A i \in 1..n : s[i] = t[i]
        /\ n = Len(s) \/ Code(s[n+1]) < Code(t[n+1])

(***************************************************************************)
(* Both insertions walk to the first node whose name is not before the new *)
(* one's, and there count it or link the new node in.                      *)
(***************************************************************************)
Place(list, name) ==
    LET stops == {i \in DOMAIN list : ~Before(list[i].name, name)}
    IN  IF stops = {} THEN Len(list) + 1 ELSE CHOOSE i \in stops : \A j \in stops : i <= j

Found(list, i, name) == i <= Len(list) /\ list[i].name = name

\* Variant: a new token is linked in behind the node it belongs in front of.
LateInsertToken(list, name) ==
    LET i == Place(list, name)
    IN  IF Found(list, i, name)
        THEN [list EXCEPT ![i].val = @ + 1]
        ELSE InsertAt(list, IF i = Len(list) THEN i + 1 ELSE i, [name |-> name, val |-> 1])

\* A node of value 1, or one more for the node that is there.
insertToken(list, name) ==
    LET i == Place(list, name)
    IN  IF Found(list, i, name)
        THEN [list EXCEPT ![i].val = @ + 1]
        ELSE InsertAt(list, i, [name |-> name, val |-> 1])

\* Variant: a token of both files keeps the value of the first that had it.
FirstInsertMeanNode(list, node) ==
    LET i == Place(list, node.name)
    IN  IF Found(list, i, node.name) THEN list ELSE InsertAt(list, i, node)

\* A copy of the node, or its value added to the node that is there.
insertMeanNode(list, node) ==
    LET i == Place(list, node.name)
    IN  IF Found(list, i, node.name)
        THEN [list EXCEPT ![i].val = @ + node.val]
        ELSE InsertAt(list, i, node)

\* Alphabetical order, which also excludes repeats.
Alphabetical(list) == \A i, j \in DOMAIN list : i < j => Before(list[i].name, list[j].name)

\* The value a list gives a name, and the sum of its values.
ValueOf(list, name) ==
    SumFunction([i \in DOMAIN list |-> IF list[i].name = name THEN list[i].val ELSE 0])
Total(list) == SumFunction([i \in DOMAIN list |-> list[i].val])
=============================================================================
