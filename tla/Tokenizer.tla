----------------------------- MODULE Tokenizer ------------------------------
(***************************************************************************)
(* The tokenizer of Asst0/tokenizer.c.  main cuts its argument into        *)
(* elements at delimiters and comments, and checkTokenType cuts each       *)
(* element into tokens; a C keyword between delimiters is printed and      *)
(* passed over before that.                                                *)
(*                                                                         *)
(* Characters are strings of length one, and the positions of a string     *)
(* start from 0, as in C.  What lies beyond the NUL of the current element *)
(* is left from earlier ones; it is read as NUL here, because whatever it  *)
(* is the same tokens are printed (see ZeroFirst and Exponent).            *)
(***************************************************************************)
EXTENDS Integers, Sequences, SequencesExt

CONSTANTS
    Inputs,            \* the arguments to tokenize
    INIT_TOKEN_LEN     \* what is allocated for the first element

NUL == "NUL"

ASSUME TokenizerAssumption ==
    /\ Inputs \subseteq Seq(STRING \ {NUL})
    /\ INIT_TOKEN_LEN \in Nat \ {0}

VARIABLES
    input,             \* argv[1]
    pc,
    i,                 \* main's place in the argument
    cToken, cTokenMaxLen,
    current_index, rest_index, startIndex,
    printed            \* the lines of the output: name, text and the text's place

vars == <<input, pc, i, cToken, cTokenMaxLen, current_index, rest_index, startIndex,
          printed>>

At(s, k) == IF k \in 0..Len(s) - 1 THEN s[k + 1] ELSE NUL

Lower == {"a", "b", "c", "d", "e", "f", "g", "h", "i", "j", "k", "l", "m",
          "n", "o", "p", "q", "r", "s", "t", "u", "v", "w", "x", "y", "z"}
Upper == {"A", "B", "C", "D", "E", "F", "G", "H", "I", "J", "K", "L", "M",
          "N", "O", "P", "Q", "R", "S", "T", "U", "V", "W", "X", "Y", "Z"}
Alpha == Lower \cup Upper
octal == {"0", "1", "2", "3", "4", "5", "6", "7"}
decimal == octal \cup {"8", "9"}
hexadecimal == decimal \cup {"a", "b", "c", "d", "e", "f", "A", "B", "C", "D", "E", "F"}
\* Without the backquote, which the inputs do not have; "\[" in the source stands for '['.
sign == {"~", "!", "@", "#", "$", "%", "^", "&", "*", "(", ")", "_", "-", "+", "=",
         "|", "[", "]", "{", "}", ";", "'", ":", ",", ".", "<", ">", "/", "?"}

\* strchr also finds the NUL that ends the set.
strchr(S, c) == c \in S \cup {NUL}

checkDelimiter(c) == c \in {" ", "\t", "\\v", "\f", "\n", "\r"}

checkComment(c, d) == IF c = "/" /\ d = "*" THEN 1 ELSE IF c = "/" /\ d = "/" THEN 2 ELSE 0

\* Where the run of characters of S from k on ends.
Run(s, k, S) ==
    LET stops == {j \in k..Len(s) : At(s, j) \notin S}
    IN  IF stops = {} THEN k ELSE CHOOSE j \in stops : \A m \in stops : j <= m

(***************************************************************************)
(* Keywords.                                                               *)
(***************************************************************************)
KEYWORD_MAX_SIZE == 8
Keywords ==
    {"auto", "const", "double", "float", "int", "short", "struct", "unsigned", "break",
     "continue", "else", "for", "long", "signed", "switch", "void", "case", "default",
     "enum", "goto", "register", "sizeof", "typedef", "volatile", "char", "do", "extern",
     "if", "return", "static", "union", "while"}

\* No keyword is longer than KEYWORD_MAX_SIZE.
Spell(chars) == FoldLeft(LAMBDA w, c : w \o c, "", chars)
isKeyword(chars) == Len(chars) <= KEYWORD_MAX_SIZE /\ Spell(chars) \in Keywords

\* The end of the keyword at k, or k.  The loop collects at most nine characters, so
\* that a longer word is no keyword.
checkKeywordPresent(s, k) ==
    LET ends == {j \in k..Len(s) : j - k > KEYWORD_MAX_SIZE
                                    \/ At(s, j) = NUL \/ checkDelimiter(At(s, j))}
        keywordCounter == CHOOSE j \in ends : \A m \in ends : j <= m
        keyword == SubSeq(s, k + 1, keywordCounter)
    IN  IF isKeyword(keyword) THEN keywordCounter ELSE k

(***************************************************************************)
(* checkTokenType: the type of the token that starts at r, and where it    *)
(* leaves current_index, the token's last character.                       *)
(***************************************************************************)
Type(num, last) == [num |-> num, last |-> last]

\* A letter; a word of one letter that does not end the element leaves current_index
\* on the character behind it.
Word(t, r) ==
    LET end == Run(t, r + 1, Alpha \cup decimal)
    IN  Type(0, IF end > r + 1 THEN end - 1 ELSE IF end = Len(t) THEN r ELSE end)

\* 0x; without digits it is still a type if it ends the element.
Hexadecimal(t, r) ==
    LET end == Run(t, r + 2, hexadecimal)
    IN  Type(IF end = Len(t) \/ end > r + 2 THEN 3 ELSE -1, end - 1)

\* What may follow the 'e' at k.
Exponent(t, k) ==
    \/ At(t, k + 1) = "-" /\ strchr(decimal, At(t, k + 2))
    \/ strchr(decimal, At(t, k + 1))

\* The digits after the point at k, with an exponent of which they have to leave room.
Float(t, k) ==
    LET end == Run(t, k + 1, decimal)
    IN  Type(4, IF /\ end > k + 1 /\ At(t, end) = "e"
                   /\ end + 1 < Len(t) /\ Exponent(t, end)
                THEN Run(t, end + 2, decimal) - 1 ELSE end - 1)

\* The same after an octal digit: the room for the exponent is not tested, an exponent of
\* one digit is passed, and so are more points and digits behind it.
OctalFloat(t, k) ==
    LET end == Run(t, k + 1, decimal)
        digits == Run(t, end + 2, decimal)
        past == IF digits > end + 2 THEN digits - 1 ELSE end + 2
        stops == {j \in past..Len(t) :
                    /\ At(t, j) \notin decimal
                    /\ At(t, j) = "." => ~strchr(decimal, At(t, j + 1))}
    IN  Type(4, IF At(t, end) = "e" /\ Exponent(t, end)
                THEN IF At(t, past) = "." THEN Min(stops) ELSE past
                ELSE end - 1)

\* 0 and an octal digit, or a 0 that ends a longer element: there the walk starts beyond
\* the NUL, and current_index stays beyond it whatever is found.
ZeroFirst(t, r) ==
    LET start  == IF r + 2 < Len(t) THEN r + 2 ELSE r + 1
        endO   == Run(t, start, octal)
        lastO  == IF endO > start THEN endO - 1 ELSE start
        next   == At(t, lastO + 1)
        endD   == Run(t, lastO, decimal)
        lastD  == IF endD > lastO THEN endD - 1 ELSE lastO
    IN  IF (endO > start /\ endO = Len(t)) \/ next \in Alpha \/ strchr(sign, next)
        THEN Type(2, lastO)
        ELSE IF lastD + 1 = Len(t) THEN Type(1, lastD)
        ELSE IF At(t, lastD) = "." /\ strchr(decimal, At(t, lastD + 1)) THEN OctalFloat(t, lastD)
        ELSE Type(IF endD > lastO THEN 1 ELSE IF endO > start THEN 2 ELSE -1, lastD)

\* 0 and 8 or 9, or 0 alone, and if that does not settle it a point.
ZeroOther(t, r) ==
    LET start  == IF r + 2 < Len(t) THEN r + 2 ELSE r + 1
        end    == Run(t, start, decimal)
        last   == IF end > start THEN end - 1 ELSE start
        digits == strchr(decimal, At(t, r + 1))
        place  == IF digits THEN last ELSE r + 1
    IN  IF digits /\ (end > start \/ last + 1 = Len(t)) THEN Type(1, last)
        ELSE IF At(t, place) = "." /\ strchr(decimal, At(t, place + 1)) THEN Float(t, place)
        ELSE IF Len(t) = 1 THEN Type(1, 0)
        ELSE Type(-1, IF digits THEN place ELSE r)

Zero(t, r) ==
    IF At(t, r + 1) \in {"x", "X"} THEN Hexadecimal(t, r)
    ELSE IF strchr(octal, At(t, r + 1)) /\ Len(t) > 1 THEN ZeroFirst(t, r)
    ELSE ZeroOther(t, r)

\* 1 to 9.  After one digit the walk stands on the character behind it.
Decimal(t, r) ==
    LET end   == Run(t, r + 1, decimal)
        many  == end > r + 1
        last  == IF many THEN end - 1 ELSE IF r + 1 = Len(t) THEN r ELSE r + 1
        next  == At(t, last + 1)
        place == IF next = "." /\ At(t, last) # "." THEN last + 1 ELSE last
    IN  IF At(t, last) \in Alpha THEN Type(1, last - 1)
        ELSE IF next \in Alpha \/ last + 1 = Len(t) \/ (many /\ next # ".") THEN Type(1, last)
        ELSE IF At(t, place) # "." THEN Type(-1, last)
        ELSE IF At(t, place + 1) \in decimal THEN Float(t, place)
        ELSE Type(1, place - 1)

\* The operators, by their characters, with the numbers of their types.
Table(rows) == [op \in {row[1] : row \in rows} |-> (CHOOSE row \in rows : row[1] = op)[2]]

COMMA == ","       \* named for the provers, which cannot read a comma in a string

Operators3 == Table({<<<<"<", "<", "=">>, 40>>, <<<<">", ">", "=">>, 39>>})

Operators2 ==
    Table({<<<<"+", "=">>, 34>>, <<<<"-", "=">>, 35>>, <<<<"*", "=">>, 36>>,
           <<<<"/", "=">>, 37>>, <<<<"%", "=">>, 38>>, <<<<"<", "=">>, 31>>,
           <<<<">", "=">>, 32>>, <<<<"=", "=">>, 27>>, <<<<"!", "=">>, 28>>,
           <<<<"|", "|">>, 23>>, <<<<"&", "&">>, 24>>, <<<<"+", "+">>, 19>>,
           <<<<"-", "-">>, 20>>, <<<<">", ">">>, 15>>, <<<<"<", "<">>, 16>>,
           <<<<"-", ">">>, 10>>, <<<<"&", "=">>, 41>>, <<<<"^", "=">>, 42>>,
           <<<<"|", "=">>, 43>>})

Operators1 ==
    Table({<<<<"(">>, 5>>, <<<<")">>, 6>>, <<<<"[">>, 7>>, <<<<"]">>, 8>>, <<<<".">>, 9>>,
           <<<<COMMA>>, 12>>, <<<<"!">>, 13>>, <<<<"~">>, 14>>, <<<<"^">>, 17>>,
           <<<<"|">>, 18>>, <<<<"+">>, 21>>, <<<<"/">>, 22>>, <<<<"?">>, 25>>,
           <<<<":">>, 26>>, <<<<"<">>, 29>>, <<<<">">>, 30>>, <<<<"=">>, 33>>,
           <<<<"&">>, 44>>, <<<<"-">>, 45>>, <<<<"*">>, 46>>})

Scan(t, r) ==
    IF At(t, r) \in Alpha THEN Word(t, r)
    ELSE IF At(t, r) = "0" THEN Zero(t, r)
    ELSE IF At(t, r) \in decimal THEN Decimal(t, r)
    ELSE Type(-1, r)

SIZEOF == <<"s", "i", "z", "e", "o", "f">>

One(t, k) == <<At(t, k)>>
Two(t, k) == <<At(t, k), At(t, k + 1)>>
Three(t, k) == <<At(t, k), At(t, k + 1), At(t, k + 2)>>

\* Variant: the short operators are tried before the long ones.
ShortOperatorAt(t, k, found) ==
    IF One(t, k) \in DOMAIN Operators1 THEN Type(Operators1[One(t, k)], k)
    ELSE IF Two(t, k) \in DOMAIN Operators2 THEN Type(Operators2[Two(t, k)], k + 1)
    ELSE found

\* Whatever was found, an operator where it ended takes its place.
OperatorAt(t, k, found) ==
    IF Three(t, k) \in DOMAIN Operators3 THEN Type(Operators3[Three(t, k)], k + 2)
    ELSE IF Two(t, k) \in DOMAIN Operators2 THEN Type(Operators2[Two(t, k)], k + 1)
    ELSE IF One(t, k) \in DOMAIN Operators1 THEN Type(Operators1[One(t, k)], k)
    ELSE IF t = SIZEOF THEN Type(11, k)
    ELSE found

Found(t, type) == OperatorAt(t, type.last, type)
checkTokenType(t, r) == Found(t, Scan(t, r))

TokenNames ==
    <<"word", "decimal integer", "octal integer", "hexadecimal integer", "floating point",
      "left parenthesis", "right parenthesis", "left bracket", "right bracket",
      "structure member", "structure pointer", "sizeof", "comma", "negate",
      "1s complement", "shift right", "shift left", "bitwise XOR", "bitwise OR",
      "increment", "decrement", "addition", "division", "logical OR", "logical AND",
      "conditional true", "conditional false", "equality test", "inequality test",
      "less than test", "greater than test", "less than or equal test",
      "greater than or equal test", "assignment", "plus equals", "minus equals",
      "times equals", "divide equals", "mod equals", "shift right equals",
      "shift left equals", "bitwise AND equals", "bitwise XOR equals",
      "bitwise OR equals", "AND/address operator", "minus/subtract operator",
      "multiply/dereference operator">>

\* NULL, which printf shows as (null), for an element that has no type.
getTokenName(num) == IF num = -1 THEN "(null)" ELSE TokenNames[num + 1]

(***************************************************************************)
(* main                                                                    *)
(***************************************************************************)
Init ==
    /\ input \in Inputs
    /\ pc = "start" /\ i = 0
    /\ cToken = <<>> /\ cTokenMaxLen = INIT_TOKEN_LEN
    /\ current_index = 0 /\ rest_index = 0 /\ startIndex = 0
    /\ printed = <<>>

Line(name, from, to) ==
    [name |-> name, text |-> SubSeq(input, from + 1, to), at |-> from]

\* i moves behind a keyword that starts at k, which is printed, or to k.
PassKeyword(k) ==
    LET end == checkKeywordPresent(input, k)
    IN  /\ i' = end
        /\ printed' = IF end = k THEN printed ELSE Append(printed, Line("C Keyword", k, end))

Start ==
    /\ pc = "start" /\ At(input, i) # NUL
    /\ IF i = 0 THEN PassKeyword(0) ELSE UNCHANGED <<i, printed>>
    /\ pc' = "skip"
    /\ UNCHANGED <<input, cToken, cTokenMaxLen, current_index, rest_index, startIndex>>

Finish ==
    /\ pc = "start" /\ At(input, i) = NUL
    /\ pc' = "done"
    /\ UNCHANGED <<input, i, cToken, cTokenMaxLen, current_index, rest_index, startIndex,
                   printed>>

Comment == checkComment(At(input, i), At(input, i + 1))

\* Variant: the place in the last element is kept for the next.
StaleSkipDelimiter ==
    /\ pc = "skip" /\ checkDelimiter(At(input, i))
    /\ PassKeyword(i + 1)
    /\ UNCHANGED <<input, pc, cToken, cTokenMaxLen, current_index, rest_index, startIndex>>

SkipDelimiter ==
    /\ pc = "skip" /\ checkDelimiter(At(input, i))
    /\ PassKeyword(i + 1)
    /\ rest_index' = 0
    /\ UNCHANGED <<input, pc, cToken, cTokenMaxLen, current_index, startIndex>>

\* The loops over a comment do not stop at the NUL: they read, and the scan goes on with,
\* what is behind the argument.
SkipTo(places, n) ==
    /\ IF places = {}
       THEN pc' = "overrun" /\ UNCHANGED <<i, rest_index>>
       ELSE LET j == n + CHOOSE p \in places : \A q \in places : p <= q
            IN  IF j <= Len(input) THEN i' = j /\ rest_index' = 0 /\ UNCHANGED pc
                ELSE pc' = "overrun" /\ UNCHANGED <<i, rest_index>>
    /\ UNCHANGED <<input, cToken, cTokenMaxLen, current_index, startIndex, printed>>

\* A star alone, or a backslash alone, ends the comment.
SkipBlockComment ==
    /\ pc = "skip" /\ Comment = 1
    /\ SkipTo({j \in i + 2..Len(input) - 1 : At(input, j) = "*" \/ At(input, j + 1) = "\\"}, 2)

\* Variant: the comment is taken to end with two characters, as the other does.
LongSkipLineComment ==
    /\ pc = "skip" /\ Comment = 2
    /\ SkipTo({j \in i + 2..Len(input) - 1 : At(input, j) = "\n"}, 2)

SkipLineComment ==
    /\ pc = "skip" /\ Comment = 2
    /\ SkipTo({j \in i + 2..Len(input) - 1 : At(input, j) = "\n"}, 1)

InElement == ~checkDelimiter(At(input, i)) /\ Comment = 0

EndSkip ==
    /\ pc = "skip" /\ InElement
    /\ pc' = "append"
    /\ UNCHANGED <<input, i, cToken, cTokenMaxLen, current_index, rest_index, startIndex,
                   printed>>

\* Variant: the place for the NUL is not counted.
FullAppendChar ==
    /\ pc = "append" /\ InElement /\ At(input, i) # NUL
    /\ cTokenMaxLen' = IF Len(cToken) < cTokenMaxLen THEN cTokenMaxLen ELSE cTokenMaxLen * 2
    /\ cToken' = Append(cToken, At(input, i))
    /\ i' = i + 1
    /\ UNCHANGED <<input, pc, current_index, rest_index, startIndex, printed>>

AppendChar ==
    /\ pc = "append" /\ InElement /\ At(input, i) # NUL
    /\ cTokenMaxLen' = IF Len(cToken) + 1 < cTokenMaxLen THEN cTokenMaxLen ELSE cTokenMaxLen * 2
    /\ cToken' = Append(cToken, At(input, i))
    /\ i' = i + 1
    /\ UNCHANGED <<input, pc, current_index, rest_index, startIndex, printed>>

EndElement ==
    /\ pc = "append" /\ ~(InElement /\ At(input, i) # NUL)
    /\ pc' = "match" /\ startIndex' = 0
    /\ UNCHANGED <<input, i, cToken, cTokenMaxLen, current_index, rest_index, printed>>

\* What is printed is from startIndex to current_index, which may not be all that has been
\* passed; a type that ends beyond the element is not printed, and ends the loop.
Matched(type, begin) ==
    /\ IF type.last < Len(cToken)
       THEN /\ printed' = Append(printed, Line(getTokenName(type.num),
                                   begin + startIndex, begin + type.last + 1))
            /\ rest_index' = rest_index + (type.last + 1 - startIndex)
            /\ startIndex' = type.last + 1
            /\ current_index' = IF type.last + 1 = Len(cToken) THEN type.last ELSE type.last + 1
       ELSE /\ current_index' = type.last
            /\ UNCHANGED <<printed, rest_index, startIndex>>
    /\ pc' = IF type.last + 1 < Len(cToken) THEN "match" ELSE "reset"

Match ==
    /\ pc = "match" /\ current_index < Len(cToken)
    /\ Matched(checkTokenType(cToken, rest_index), i - Len(cToken))
    /\ UNCHANGED <<input, i, cToken, cTokenMaxLen>>

EmptyElement ==
    /\ pc = "match" /\ cToken = <<>>
    /\ pc' = "reset"
    /\ UNCHANGED <<input, i, cToken, cTokenMaxLen, current_index, rest_index, startIndex,
                   printed>>

Reset ==
    /\ pc = "reset"
    /\ cToken' = <<>> /\ current_index' = 0
    /\ pc' = "start"
    /\ UNCHANGED <<input, i, cTokenMaxLen, rest_index, startIndex, printed>>

Next ==
    \/ Start \/ Finish
    \/ SkipDelimiter \/ SkipBlockComment \/ SkipLineComment \/ EndSkip
    \/ AppendChar \/ EndElement
    \/ Match \/ EmptyElement \/ Reset

Spec == Init /\ [][Next]_vars

-----------------------------------------------------------------------------
(***************************************************************************)
(* Properties.                                                             *)
(***************************************************************************)
\* Every variable keeps its type; the element is the stretch of the argument that ends
\* at i, and with its NUL it fits what is allocated for it.
TypeOK ==
    /\ pc \in {"start", "skip", "append", "match", "reset", "done", "overrun"}
    /\ i \in 0..Len(input)
    /\ cToken = SubSeq(input, i - Len(cToken) + 1, i)
    /\ Len(cToken) + 1 <= cTokenMaxLen
    /\ current_index \in 0..Len(input) + 1
    /\ startIndex \in 0..Len(input) /\ rest_index \in 0..Len(input)

\* What is known to be lost at the end of an element: a 0 behind another token, and an
\* octal digit behind a 0 with a fraction and an exponent.
Lost(t, from) ==
    \/ t = <<"0">> /\ from > 0
    \/ Len(t) > 4 /\ t[1] = "0" /\ t[2] \in octal /\ t[3] = "." /\ t[4] \in decimal
       /\ "e" \in ToSet(t)

\* Lines are printed in the order of the argument and never overlap.  The three cursors
\* agree whenever a type is looked for, so that the lines printed for an element are the
\* element, piece by piece, without gap or repetition; when it is done, nothing of it is
\* missing but what is known to be lost.
ElementsTiled ==
    LET begin   == i - Len(cToken)
        end(n)  == printed[n].at + Len(printed[n].text)
        edge(n) == IF n > 0 /\ printed[n].at >= begin THEN end(n) ELSE begin
    IN  /\ \A n \in DOMAIN printed :
              printed[n].text # <<>> /\ (n > 1 => end(n - 1) <= printed[n].at)
        /\ pc = "match" => rest_index = startIndex /\ current_index = startIndex
        /\ pc \in {"match", "reset"} =>
              /\ \A n \in DOMAIN printed : printed[n].at >= begin => printed[n].at = edge(n - 1)
              /\ edge(Len(printed)) = begin + startIndex
        /\ pc = "reset" /\ startIndex # Len(cToken) =>
              Lost(SubSeq(cToken, startIndex + 1, Len(cToken)), startIndex)

(***************************************************************************)
(* What each name promises of a text, told without the scan.               *)
(***************************************************************************)
Operators == DOMAIN Operators1 \cup DOMAIN Operators2 \cup DOMAIN Operators3
Operator(op, name) ==
    \/ op \in DOMAIN Operators1 /\ name = getTokenName(Operators1[op])
    \/ op \in DOMAIN Operators2 /\ name = getTokenName(Operators2[op])
    \/ op \in DOMAIN Operators3 /\ name = getTokenName(Operators3[op])

Digits(t, S) == t # <<>> /\ ToSet(t) \subseteq S
Rest(t, k) == SubSeq(t, k + 1, Len(t))
Fraction(t) == \E p \in DOMAIN t : t[p] = "." /\ Digits(Front(SubSeq(t, 1, p)), decimal)
                                             /\ Digits(Rest(t, p), decimal)
Power(t) == Digits(IF t # <<>> /\ t[1] = "-" THEN Tail(t) ELSE t, decimal)
Scientific(t) ==
    \E q \in DOMAIN t : t[q] = "e" /\ Fraction(Front(SubSeq(t, 1, q))) /\ Power(Rest(t, q))
FloatingPoint(t) == Fraction(t) \/ Scientific(t)

WordText(t) == t[1] \in Alpha /\ Digits(t, Alpha \cup decimal)
HexText(t) ==
    SubSeq(t, 1, 2) \in {<<"0", "x">>, <<"0", "X">>} /\ Digits(Rest(t, 2), hexadecimal)

\* The text is what the name says.
Fits(name, t) ==
    \/ name = "word" /\ WordText(t)
    \/ name = "decimal integer" /\ Digits(t, decimal)
    \/ name = "octal integer" /\ Digits(t, octal) /\ t[1] = "0"
    \/ name = "hexadecimal integer" /\ HexText(t)
    \/ name = "floating point" /\ FloatingPoint(t)
    \/ name = "(null)" /\ Len(t) = 1 /\ t[1] \notin Alpha \cup decimal /\ t \notin Operators
    \/ name = "sizeof" /\ t = SIZEOF
    \/ name = "C Keyword" /\ isKeyword(t)
    \/ Operator(t, name)

\* Of all the tokens that begin at the line's place in the argument none is longer.
IsToken(t) ==
    \/ t \in Operators \/ WordText(t) \/ Digits(t, decimal) \/ HexText(t) \/ FloatingPoint(t)
Longest(l) ==
    \A k \in l.at + Len(l.text) + 1..Len(input) : ~IsToken(SubSeq(input, l.at + 1, k))

\* The number that is cut off in front of its point, although a digit follows: one of
\* three digits or more, of which the first is 0 (the rubric has "9.3563e-6" read of
\* "012239.3563e-6" as a floating point).
CutOff(l) ==
    /\ Digits(l.text, decimal) /\ Len(l.text) > 2 /\ l.text[1] = "0"
    /\ At(input, l.at + Len(l.text)) = "." /\ At(input, l.at + Len(l.text) + 1) \in decimal

\* The texts that are known to be misread: a 0 by itself, or 0x; one letter or digit
\* together with what is behind it, and a 0 and one digit likewise, but for a fraction;
\* a number whose exponent is not one.
Misread(t) ==
    \/ t \in {<<"0">>, <<"0", "x">>, <<"0", "X">>}
    \/ /\ Len(t) > 1 /\ t[1] \in Alpha \cup decimal /\ t[2] \notin Alpha \cup decimal
       /\ Len(t) = 2 \/ t[2] # "."
    \/ /\ Len(t) > 2 /\ t[1] = "0" /\ t[2] \in decimal /\ t[3] \notin octal
       /\ Len(t) = 3 \/ t[3] \notin decimal \cup {"."}
    \/ \E q \in 1..Len(t) - 1 : t[q] = "e" /\ Fraction(SubSeq(t, 1, q - 1)) /\ ~Power(Rest(t, q))

\* Every other line has the name of its text, and no longer token begins at its place, but
\* for a number that is cut off in front of a fraction.
LabelsFit ==
    \A l \in ToSet(printed) :
        Misread(l.text) \/ (Fits(l.name, l.text) /\ (Longest(l) \/ CutOff(l)))

\* Where the comment at k can end.
Ends(k) ==
    CASE checkComment(At(input, k), At(input, k + 1)) = 1 ->
            {j \in k + 2..Len(input) - 2 : At(input, j) = "*" /\ At(input, j + 1) = "\\"}
      [] checkComment(At(input, k), At(input, k + 1)) = 2 ->
            {j \in k + 2..Len(input) - 1 : At(input, j) = "\n"}

\* A comment with its end in the argument never takes the scan beyond the argument: the
\* one at which the scan left it has no end there, whatever other comments there are.
ClosedCommentsStayInside == pc = "overrun" => Comment # 0 /\ Ends(i) = {}

-----------------------------------------------------------------------------
(***************************************************************************)
(* What testcases.txt says and the tokenizer does not keep.                *)
(***************************************************************************)
\* "Test if one character operators are detected (without delimiters)": a line that has
\* the name of an operator has that operator as its text and nothing else.
OperatorsDetected ==
    \A l \in ToSet(printed) :
        (\E op \in Operators : Operator(op, l.name)) => Operator(l.text, l.name)
=============================================================================
