--------------------------- MODULE TokenizerProofs --------------------------
(***************************************************************************)
(* Proofs about the tokenizer, for every argument: where checkTokenType    *)
(* leaves current_index, what it has read there, the cursors and the lines *)
(* that are printed with their names, and the ends of comments.            *)
(***************************************************************************)
EXTENDS Tokenizer, InductionLemmas, SequenceTheorems

Text == Seq(STRING \ {NUL})

-----------------------------------------------------------------------------
(***************************************************************************)
(* Characters.                                                             *)
(***************************************************************************)
LEMMA Chars ==
    /\ NUL \notin Alpha /\ NUL \notin decimal /\ NUL \notin octal /\ NUL \notin hexadecimal
    /\ NUL \notin {".", "0", "x", "X", "e", "-", "*", "/", "\\", "\n"}
    /\ "." \notin decimal /\ "." \notin Alpha /\ "." \notin octal /\ "." \in sign
    /\ octal \subseteq decimal /\ "0" \in octal /\ "0" \notin Alpha
    /\ \A c \in decimal : c \notin Alpha
    /\ \A c : checkDelimiter(c) => c # NUL
BY DEF NUL, Alpha, Lower, Upper, hexadecimal, decimal, octal, sign, checkDelimiter

\* A text reads as NUL exactly outside.
LEMMA AtNul ==
    ASSUME NEW t \in Text, NEW k \in Int
    PROVE  At(t, k) = NUL <=> k \notin 0..Len(t) - 1
<1>1. CASE k \in 0..Len(t) - 1
    <2>1. k + 1 \in 1..Len(t) /\ At(t, k) = t[k + 1]
        BY <1>1 DEF At, Text
    <2> QED
        BY <2>1, <1>1 DEF Text
<1>2. CASE k \notin 0..Len(t) - 1
    BY <1>2 DEF At
<1> QED
    BY <1>1, <1>2

\* Min of a set of naturals is its least element.
LEMMA MinIs ==
    ASSUME NEW T \in SUBSET Nat, T # {}
    PROVE  Min(T) \in T /\ \A y \in T : Min(T) <= y
<1>1. \E x \in T : \A y \in T : x <= y
    BY Least
<1> QED
    BY <1>1 DEF Min

\* A run ends at the first character from k on that is not in S.
LEMMA RunEnds ==
    ASSUME NEW t \in Text, NEW k \in Nat, NEW S, NUL \notin S
    PROVE  /\ Run(t, k, S) \in Nat /\ Run(t, k, S) >= k
           /\ k <= Len(t) => Run(t, k, S) <= Len(t)
           /\ \A j \in k..Run(t, k, S) - 1 : At(t, j) \in S
           /\ At(t, Run(t, k, S)) \notin S
<1> DEFINE stops == {j \in k..Len(t) : At(t, j) \notin S}
<1>1. Len(t) \in Nat
    BY DEF Text
<1>2. CASE stops = {}
    <2>1. Run(t, k, S) = k
        BY <1>2 DEF Run
    <2>2. At(t, Len(t)) \notin S
        BY <1>1, AtNul
    <2>3. k > Len(t)
        BY <1>1, <1>2, <2>2
    <2>4. At(t, k) \notin S
        BY <1>1, <2>3, AtNul
    <2> QED
        BY <2>1, <2>3, <2>4, <1>1
<1>3. CASE stops # {}
    <2>1. stops \in SUBSET Nat
        BY <1>1
    <2>2. \E x \in stops : \A y \in stops : x <= y
        <3> HIDE DEF stops
        <3> QED
            BY <1>3, <2>1, Least
    <2>3. PICK e \in stops : e = Run(t, k, S) /\ \A y \in stops : e <= y
        BY <1>3, <2>2 DEF Run
    <2>4. e \in Nat /\ k <= e /\ e <= Len(t) /\ At(t, e) \notin S
        BY <1>1, <2>3
    <2>5. ASSUME NEW j \in k..e - 1 PROVE At(t, j) \in S
        BY <1>1, <2>3, <2>4
    <2> QED
        BY <2>3, <2>4, <2>5
<1> QED
    BY <1>2, <1>3

\* What is lost, by places of the whole element.
LEMMA LostAt ==
    ASSUME NEW t \in Text, NEW r \in 0..Len(t) - 1, At(t, r) = "0",
           \/ r + 1 = Len(t) /\ r > 0
           \/ /\ At(t, r + 1) \in octal /\ At(t, r + 2) = "." /\ At(t, r + 3) \in decimal
              /\ \E j \in r + 4..Len(t) - 1 : At(t, j) = "e"
    PROVE  Lost(SubSeq(t, r + 1, Len(t)), r)
<1> DEFINE u == SubSeq(t, r + 1, Len(t))
<1>1. Len(t) \in Nat /\ r \in Nat /\ r < Len(t)
    BY DEF Text
<1>2. /\ u \in Text /\ Len(u) = Len(t) - r
      /\ \A n \in 1..Len(t) - r : u[n] = At(t, r + n - 1)
    BY <1>1 DEF Text, At
<1> HIDE DEF u
<1>3. CASE r + 1 = Len(t) /\ r > 0
    <2>1. Len(u) = 1 /\ u[1] = "0"
        BY <1>1, <1>2, <1>3
    <2>2. u = <<"0">>
        BY <1>2, <2>1 DEF Text
    <2> QED
        BY <1>3, <2>2 DEF Lost, u
<1>4. CASE /\ At(t, r + 1) \in octal /\ At(t, r + 2) = "." /\ At(t, r + 3) \in decimal
           /\ \E j \in r + 4..Len(t) - 1 : At(t, j) = "e"
    <2>1. PICK j \in r + 4..Len(t) - 1 : At(t, j) = "e"
        BY <1>4
    <2>2. j - r + 1 \in 1..Len(t) - r /\ r + (j - r + 1) - 1 = j /\ Len(t) - r > 4
        BY <1>1
    <2>3. u[j - r + 1] = "e" /\ j - r + 1 \in 1..Len(u)
        BY <1>2, <2>1, <2>2
    <2>4. "e" \in ToSet(u)
        BY <2>3, <1>2 DEF ToSet, Text
    <2>5. u[1] = "0" /\ u[2] = At(t, r + 1) /\ u[3] = At(t, r + 2) /\ u[4] = At(t, r + 3)
        <3>1. r + 1 - 1 = r /\ r + 2 - 1 = r + 1 /\ r + 3 - 1 = r + 2 /\ r + 4 - 1 = r + 3
            BY <1>1
        <3> QED
            BY <1>1, <1>2, <2>2, <3>1
    <2> QED
        BY <1>2, <1>4, <2>2, <2>4, <2>5 DEF Lost, u
<1> QED
    BY <1>3, <1>4

-----------------------------------------------------------------------------
(***************************************************************************)
(* Where a scan ends: on a character of the element from where it began,   *)
(* except for what is lost.                                                *)
(***************************************************************************)
Inside(t, r, type) == type.num \in -1..4 /\ type.last \in r..Len(t) - 1

LEMMA WordInside ==
    ASSUME NEW t \in Text, NEW r \in 0..Len(t) - 1
    PROVE  Inside(t, r, Word(t, r))
<1>1. Len(t) \in Nat /\ r + 1 \in Nat /\ r + 1 <= Len(t)
    BY DEF Text
<1>2. NUL \notin Alpha \cup decimal
    BY Chars
<1> DEFINE end == Run(t, r + 1, Alpha \cup decimal)
<1>3. end \in Nat /\ end >= r + 1 /\ end <= Len(t)
    BY <1>1, <1>2, RunEnds
<1>4. Word(t, r) = Type(0, IF end > r + 1 THEN end - 1 ELSE IF end = Len(t) THEN r ELSE end)
    BY DEF Word
<1> HIDE DEF end
<1> QED
    BY <1>1, <1>3, <1>4 DEF Inside, Type

LEMMA HexadecimalInside ==
    ASSUME NEW t \in Text, NEW r \in 0..Len(t) - 1, At(t, r + 1) # NUL
    PROVE  Inside(t, r, Hexadecimal(t, r))
<1>1. Len(t) \in Nat /\ r + 2 \in Nat
    BY DEF Text
<1>2. r + 2 <= Len(t)
    BY <1>1, AtNul
<1> DEFINE end == Run(t, r + 2, hexadecimal)
<1>3. end \in Nat /\ end >= r + 2 /\ end <= Len(t)
    BY <1>1, <1>2, Chars, RunEnds
<1>4. Hexadecimal(t, r) = Type(IF end = Len(t) \/ end > r + 2 THEN 3 ELSE -1, end - 1)
    BY DEF Hexadecimal
<1> HIDE DEF end
<1>5. Hexadecimal(t, r).last = end - 1 /\ Hexadecimal(t, r).num \in {3, -1}
    BY <1>4 DEF Type
<1> QED
    BY <1>1, <1>3, <1>5 DEF Inside

LEMMA FloatInside ==
    ASSUME NEW t \in Text, NEW k \in 0..Len(t) - 1
    PROVE  Float(t, k).num = 4 /\ Float(t, k).last \in k..Len(t) - 1
<1>1. Len(t) \in Nat /\ k \in Nat /\ k + 1 <= Len(t)
    BY DEF Text
<1> DEFINE end == Run(t, k + 1, decimal)
           more == Run(t, end + 2, decimal)
<1>2. end \in Nat /\ end >= k + 1 /\ end <= Len(t)
    BY <1>1, Chars, RunEnds
<1>3. more \in Nat /\ more >= end + 2 /\ (end + 2 <= Len(t) => more <= Len(t))
    <2> HIDE DEF end
    <2>1. end + 2 \in Nat /\ NUL \notin decimal
        BY <1>2, Chars
    <2> QED
        BY <2>1, RunEnds
<1>4. Float(t, k) = Type(4, IF /\ end > k + 1 /\ At(t, end) = "e"
                               /\ end + 1 < Len(t) /\ Exponent(t, end)
                            THEN more - 1 ELSE end - 1)
    BY DEF Float
<1> HIDE DEF end, more
<1>5. /\ Float(t, k).num = 4
      /\ Float(t, k).last = end - 1 \/ (end + 1 < Len(t) /\ Float(t, k).last = more - 1)
    BY <1>4 DEF Type
<1> QED
    BY <1>1, <1>2, <1>3, <1>5

\* Only an exponent takes a fraction behind an octal digit out of the element.
LEMMA OctalFloatStands ==
    ASSUME NEW t \in Text, NEW k \in 0..Len(t) - 1, At(t, k + 1) \in decimal
    PROVE  /\ OctalFloat(t, k).num = 4
           /\ OctalFloat(t, k).last \in k..Len(t) + 1
           /\ OctalFloat(t, k).last >= Len(t) => \E j \in k + 2..Len(t) - 1 : At(t, j) = "e"
<1>1. Len(t) \in Nat /\ k \in Nat /\ k + 1 <= Len(t)
    BY DEF Text
<1> DEFINE end == Run(t, k + 1, decimal)
           digits == Run(t, end + 2, decimal)
           past == IF digits > end + 2 THEN digits - 1 ELSE end + 2
           stops == {j \in past..Len(t) :
                        /\ At(t, j) \notin decimal
                        /\ At(t, j) = "." => ~strchr(decimal, At(t, j + 1))}
           further == IF At(t, past) = "." THEN Min(stops) ELSE past
<1>2. end \in Nat /\ end >= k + 1 /\ end <= Len(t) /\ At(t, end) \notin decimal
    BY <1>1, Chars, RunEnds
<1>3. end # k + 1
    BY <1>2
<1>4. OctalFloat(t, k) =
        Type(4, IF At(t, end) = "e" /\ Exponent(t, end) THEN further ELSE end - 1)
    BY DEF OctalFloat
<1>5. ASSUME At(t, end) = "e" PROVE further \in k..Len(t) + 1
    <2>1. end < Len(t)
        BY <1>1, <1>2, <1>5, AtNul, Chars
    <2>2. digits \in Nat /\ digits >= end + 2 /\ (end + 2 <= Len(t) => digits <= Len(t))
        <3> HIDE DEF end
        <3>1. end + 2 \in Nat /\ NUL \notin decimal
            BY <1>2, Chars
        <3> QED
            BY <3>1, RunEnds
    <2>3. digits > end + 2 => digits <= Len(t)
        <3> HIDE DEF end
        <3>1. CASE end + 2 <= Len(t)
            BY <2>2, <3>1
        <3>2. CASE end + 2 > Len(t)
            <4>1. end + 2 = Len(t) + 1
                BY <1>1, <1>2, <2>1, <3>2
            <4>2. digits = end + 2
                <5>1. \A j \in end + 2..digits - 1 : At(t, j) \in decimal
                    BY <1>1, <1>2, Chars, RunEnds
                <5>2. At(t, end + 2) = NUL
                    BY <1>1, <1>2, <4>1, AtNul
                <5>3. digits > end + 2 => FALSE
                    BY <1>2, <2>2, <5>1, <5>2, Chars
                <5> QED
                    BY <1>2, <2>2, <5>3
            <4> QED
                BY <1>2, <4>2
        <3> QED
            BY <1>1, <1>2, <3>1, <3>2
    <2>4. past \in Nat /\ past >= k /\ past <= Len(t) + 1
        <3> HIDE DEF end, digits
        <3> QED
            BY <1>1, <1>2, <2>1, <2>2, <2>3
    <2>5. ASSUME At(t, past) = "." PROVE Min(stops) \in past..Len(t)
        <3> HIDE DEF past
        <3>1. past < Len(t)
            BY <1>1, <2>4, <2>5, AtNul, Chars
        <3>2. At(t, Len(t)) = NUL
            BY <1>1, AtNul
        <3>3. Len(t) \in stops
            BY <1>1, <2>4, <3>1, <3>2, Chars
        <3>4. stops \in SUBSET Nat
            BY <1>1, <2>4
        <3>5. \A j \in stops : j \in past..Len(t)
            OBVIOUS
        <3> HIDE DEF stops
        <3> QED
            BY <3>3, <3>4, <3>5, MinIs
    <2> HIDE DEF stops, past
    <2> QED
        BY <1>1, <2>4, <2>5
<1> HIDE DEF end, further
<1>6. CASE At(t, end) = "e" /\ Exponent(t, end)
    <2>1. end \in k + 2..Len(t) - 1
        BY <1>1, <1>2, <1>3, <1>6, AtNul, Chars
    <2> QED
        BY <1>4, <1>5, <1>6, <2>1 DEF Type
<1>7. CASE ~(At(t, end) = "e" /\ Exponent(t, end))
    <2>1. OctalFloat(t, k).num = 4 /\ OctalFloat(t, k).last = end - 1
        BY <1>4, <1>7 DEF Type
    <2> QED
        BY <1>1, <1>2, <2>1
<1> QED
    BY <1>6, <1>7

\* A text of a type, or what is lost.
Stands(t, r, type) ==
    /\ type.num \in -1..4
    /\ type.last \in r..Len(t) + 1
    /\ type.last >= Len(t) => Lost(SubSeq(t, r + 1, Len(t)), r)

LEMMA InsideStands ==
    ASSUME NEW t \in Text, NEW r \in 0..Len(t) - 1, NEW type, Inside(t, r, type)
    PROVE  Stands(t, r, type)
<1>1. Len(t) \in Nat
    BY DEF Text
<1> QED
    BY <1>1 DEF Inside, Stands

LEMMA ZeroFirstStands ==
    ASSUME NEW t \in Text, NEW r \in 0..Len(t) - 1, At(t, r) = "0",
           strchr(octal, At(t, r + 1)), Len(t) > 1
    PROVE  Stands(t, r, ZeroFirst(t, r))
<1> DEFINE start  == IF r + 2 < Len(t) THEN r + 2 ELSE r + 1
           endO   == Run(t, start, octal)
           lastO  == IF endO > start THEN endO - 1 ELSE start
           next   == At(t, lastO + 1)
           endD   == Run(t, lastO, decimal)
           lastD  == IF endD > lastO THEN endD - 1 ELSE lastO
           isOct  == (endO > start /\ endO = Len(t)) \/ next \in Alpha \/ strchr(sign, next)
           isFloat == At(t, lastD) = "." /\ strchr(decimal, At(t, lastD + 1))
<1>1. Len(t) \in Nat /\ r \in Nat /\ r < Len(t)
    BY DEF Text
<1>2. start \in Nat /\ start >= r + 1 /\ start <= Len(t) /\ start <= r + 2
    BY <1>1
<1>3. /\ endO \in Nat /\ endO >= start /\ endO <= Len(t)
      /\ \A j \in start..endO - 1 : At(t, j) \in octal
      /\ At(t, endO) \notin octal
    <2> HIDE DEF start
    <2>1. start \in Nat /\ start <= Len(t) /\ NUL \notin octal
        BY <1>2, Chars
    <2> QED
        BY <2>1, RunEnds
<1>4. lastO \in Nat /\ lastO >= start /\ lastO <= Len(t) /\ lastO <= endO
    <2> HIDE DEF start, endO
    <2> QED
        BY <1>1, <1>2, <1>3
<1>5. /\ endD \in Nat /\ endD >= lastO /\ endD <= Len(t)
      /\ \A j \in lastO..endD - 1 : At(t, j) \in decimal
    <2> HIDE DEF lastO
    <2>1. lastO \in Nat /\ lastO <= Len(t) /\ NUL \notin decimal
        BY <1>4, Chars
    <2> QED
        BY <2>1, RunEnds
<1>6. lastD \in Nat /\ lastD >= lastO /\ lastD <= Len(t)
    <2> HIDE DEF endD, lastO
    <2> QED
        BY <1>1, <1>4, <1>5
<1>7. ZeroFirst(t, r) =
        IF isOct THEN Type(2, lastO)
        ELSE IF lastD + 1 = Len(t) THEN Type(1, lastD)
        ELSE IF isFloat THEN OctalFloat(t, lastD)
        ELSE Type(IF endD > lastO THEN 1 ELSE IF endO > start THEN 2 ELSE -1, lastD)
    BY DEF ZeroFirst
\* The walk starts beyond the NUL for a 0 that ends the element, and only then.
<1>8. CASE lastO = Len(t)
    <2>1. start = Len(t) /\ r + 1 = Len(t)
        <3>1. endO > start => endO - 1 < Len(t)
            BY <1>3
        <3> HIDE DEF endO
        <3> QED
            BY <1>1, <1>2, <1>8, <3>1
    <2>2. At(t, lastO + 1) = NUL
        BY <1>1, <1>8, AtNul
    <2>3. ZeroFirst(t, r) = Type(2, lastO)
        BY <1>7, <2>2 DEF strchr
    <2>4. Lost(SubSeq(t, r + 1, Len(t)), r)
        BY <1>1, <2>1, LostAt
    <2> HIDE DEF lastO
    <2> QED
        BY <1>1, <1>2, <1>4, <1>8, <2>3, <2>4 DEF Type, Stands
<1>9. CASE lastO < Len(t)
    <2>1. lastD < Len(t)
        <3> HIDE DEF lastO, endD
        <3> QED
            BY <1>1, <1>4, <1>5, <1>9
    <2>2. CASE isOct
        <3>1. ZeroFirst(t, r) = Type(2, lastO)
            BY <1>7, <2>2
        <3> HIDE DEF lastO
        <3> QED
            BY <1>1, <1>2, <1>4, <1>9, <3>1 DEF Type, Stands
    <2>3. CASE ~isOct /\ lastD + 1 # Len(t) /\ isFloat
        <3>1. ZeroFirst(t, r) = OctalFloat(t, lastD)
            <4> HIDE DEF isOct, isFloat, lastD
            <4> QED
                BY <1>7, <2>3
        <3>2. At(t, lastD) = "." /\ strchr(decimal, At(t, lastD + 1)) /\ lastD + 1 < Len(t)
            <4> HIDE DEF lastD
            <4> QED
                BY <1>1, <1>6, <2>1, <2>3
        <3>3. lastD = lastO
            <4>1. endD > lastO => At(t, endD - 1) \in decimal
                <5> HIDE DEF endD, lastO
                <5> QED
                    BY <1>4, <1>5
            <4>2. endD > lastO => lastD = endD - 1
                <5> HIDE DEF endD, lastO
                <5> QED
                    OBVIOUS
            <4>3. ~(endD > lastO)
                <5> HIDE DEF endD, lastO, lastD
                <5> QED
                    BY <3>2, <4>1, <4>2, Chars
            <4> HIDE DEF endD, lastO
            <4> QED
                BY <4>3
        <3>4. lastO = start
            <4>1. endO > start => At(t, endO - 1) \in octal /\ lastO = endO - 1
                <5> HIDE DEF endO, start
                <5> QED
                    BY <1>2, <1>3
            <4>2. ~(endO > start)
                <5> HIDE DEF endO, start, lastO, lastD
                <5> QED
                    BY <3>2, <3>3, <4>1, Chars
            <4> HIDE DEF endO, start
            <4> QED
                BY <4>2
        <3>5. start = r + 2 /\ At(t, r + 2) = "."
            <4>1. start = r + 1 => r + 2 >= Len(t)
                BY <1>1
            <4>2. start # r + 1
                <5> HIDE DEF start, lastO, lastD
                <5> QED
                    BY <1>1, <3>2, <3>3, <3>4, <4>1
            <4>3. start = r + 1 \/ start = r + 2
                OBVIOUS
            <4> HIDE DEF start, lastO, lastD
            <4> QED
                BY <3>2, <3>3, <3>4, <4>2, <4>3
        <3> DEFINE k == r + 2
        <3>6. k \in 0..Len(t) - 1 /\ At(t, k) = "." /\ strchr(decimal, At(t, k + 1)) /\ k + 1 < Len(t)
              /\ ZeroFirst(t, r) = OctalFloat(t, k)
            <4> HIDE DEF start, lastO, lastD
            <4> QED
                BY <1>1, <3>1, <3>2, <3>3, <3>4, <3>5
        <3>7. At(t, k + 1) \in decimal /\ At(t, r + 1) \in octal
            <4>1. At(t, k + 1) # NUL /\ At(t, r + 1) # NUL
                BY <1>1, <3>6, AtNul
            <4> QED
                BY <3>6, <4>1 DEF strchr
        <3>8. /\ OctalFloat(t, k).num = 4
              /\ OctalFloat(t, k).last \in k..Len(t) + 1
              /\ OctalFloat(t, k).last >= Len(t) => \E j \in k + 2..Len(t) - 1 : At(t, j) = "e"
            BY <3>6, <3>7, OctalFloatStands
        <3>9. (\E j \in k + 2..Len(t) - 1 : At(t, j) = "e") => Lost(SubSeq(t, r + 1, Len(t)), r)
            <4>1. k + 2 = r + 4 /\ k + 1 = r + 3
                BY <1>1
            <4> QED
                BY <3>6, <3>7, <4>1, LostAt
        <3> QED
            BY <1>1, <3>6, <3>8, <3>9 DEF Stands
    <2>4. CASE ~isOct /\ ~(lastD + 1 # Len(t) /\ isFloat)
        <3>1. ZeroFirst(t, r).last = lastD /\ ZeroFirst(t, r).num \in {1, 2, -1}
            <4> HIDE DEF isOct, isFloat, lastD, lastO, endO, endD, start
            <4> QED
                BY <1>7, <2>4 DEF Type
        <3>2. lastD >= r
            <4> HIDE DEF lastD, lastO, start
            <4> QED
                BY <1>1, <1>2, <1>4, <1>6
        <3> HIDE DEF lastD
        <3> QED
            BY <1>1, <1>6, <2>1, <3>1, <3>2 DEF Stands
    <2> HIDE DEF isOct, isFloat, lastD
    <2> QED
        BY <2>2, <2>3, <2>4
<1> HIDE DEF lastO
<1> QED
    BY <1>1, <1>4, <1>8, <1>9

LEMMA ZeroOtherInside ==
    ASSUME NEW t \in Text, NEW r \in 0..Len(t) - 1,
           ~(strchr(octal, At(t, r + 1)) /\ Len(t) > 1)
    PROVE  Inside(t, r, ZeroOther(t, r))
<1> DEFINE start  == IF r + 2 < Len(t) THEN r + 2 ELSE r + 1
           end    == Run(t, start, decimal)
           last   == IF end > start THEN end - 1 ELSE start
           digits == strchr(decimal, At(t, r + 1))
           place  == IF digits THEN last ELSE r + 1
           isDecimal == digits /\ (end > start \/ last + 1 = Len(t))
           isFloat == At(t, place) = "." /\ strchr(decimal, At(t, place + 1))
<1>1. Len(t) \in Nat /\ r \in Nat /\ r < Len(t)
    BY DEF Text
<1>2. start \in Nat /\ start >= r + 1 /\ start <= Len(t) /\ (r + 1 < Len(t) => start < Len(t))
    BY <1>1
<1>3. end \in Nat /\ end >= start /\ end <= Len(t)
    <2> HIDE DEF start
    <2>1. start \in Nat /\ start <= Len(t) /\ NUL \notin decimal
        BY <1>2, Chars
    <2> QED
        BY <2>1, RunEnds
<1>4. /\ last \in Nat /\ last >= start /\ last <= Len(t)
      /\ end > start \/ start < Len(t) => last < Len(t)
    <2> HIDE DEF start, end
    <2> QED
        BY <1>1, <1>2, <1>3
<1>5. place \in Nat /\ place >= r + 1
    <2> HIDE DEF start, last, digits
    <2> QED
        BY <1>1, <1>2, <1>4
<1>6. ZeroOther(t, r) =
        IF isDecimal THEN Type(1, last)
        ELSE IF isFloat THEN Float(t, place)
        ELSE IF Len(t) = 1 THEN Type(1, 0)
        ELSE Type(-1, IF digits THEN place ELSE r)
    BY DEF ZeroOther
<1>7. CASE isDecimal
    <2>1. ZeroOther(t, r) = Type(1, last) /\ (end > start \/ last + 1 = Len(t))
        BY <1>6, <1>7
    <2> HIDE DEF last, end, start
    <2> QED
        BY <1>1, <1>2, <1>4, <2>1 DEF Inside, Type
<1>8. CASE ~isDecimal /\ isFloat
    <2> HIDE DEF place, isDecimal
    <2>1. ZeroOther(t, r) = Float(t, place) /\ At(t, place) # NUL
        BY <1>6, <1>8, Chars
    <2>2. place \in 0..Len(t) - 1
        BY <1>1, <1>5, <2>1, AtNul
    <2>3. Float(t, place).num = 4 /\ Float(t, place).last \in place..Len(t) - 1
        BY <2>2, FloatInside
    <2> QED
        BY <1>1, <1>5, <2>1, <2>3 DEF Inside
<1>9. CASE ~isDecimal /\ ~isFloat /\ Len(t) = 1
    <2>1. ZeroOther(t, r) = Type(1, 0) /\ r = 0
        <3> HIDE DEF isDecimal, isFloat
        <3> QED
            BY <1>1, <1>6, <1>9
    <2> QED
        BY <1>9, <2>1 DEF Inside, Type
<1>10. CASE ~isDecimal /\ ~isFloat /\ Len(t) # 1
    <2>1. ZeroOther(t, r) = Type(-1, IF digits THEN place ELSE r)
        <3> HIDE DEF isDecimal, isFloat
        <3> QED
            BY <1>6, <1>10
    <2>2. CASE digits
        <3>1. At(t, r + 1) # NUL
            <4> HIDE DEF isDecimal, isFloat, place, digits
            <4>1. Len(t) > 1
                BY <1>1, <1>10
            <4>2. ~strchr(octal, At(t, r + 1))
                BY <4>1
            <4> QED
                BY <4>2 DEF strchr
        <3>2. r + 1 < Len(t)
            BY <1>1, <3>1, AtNul
        <3>3. ZeroOther(t, r) = Type(-1, last)
            <4> HIDE DEF last
            <4> QED
                BY <2>1, <2>2
        <3> HIDE DEF last, start, end
        <3> QED
            BY <1>1, <1>2, <1>4, <3>2, <3>3 DEF Inside, Type
    <2>3. CASE ~digits
        <3>1. ZeroOther(t, r) = Type(-1, r)
            <4> HIDE DEF digits, place
            <4> QED
                BY <2>1, <2>3
        <3> QED
            BY <1>1, <3>1 DEF Inside, Type
    <2> QED
        BY <2>2, <2>3
<1> HIDE DEF isDecimal, isFloat
<1> QED
    BY <1>7, <1>8, <1>9, <1>10

LEMMA DecimalInside ==
    ASSUME NEW t \in Text, NEW r \in 0..Len(t) - 1, At(t, r) \in decimal
    PROVE  Inside(t, r, Decimal(t, r))
<1> DEFINE end   == Run(t, r + 1, decimal)
           many  == end > r + 1
           last  == IF many THEN end - 1 ELSE IF r + 1 = Len(t) THEN r ELSE r + 1
           next  == At(t, last + 1)
           place == IF next = "." /\ At(t, last) # "." THEN last + 1 ELSE last
           alone == next \in Alpha \/ last + 1 = Len(t) \/ (many /\ next # ".")
<1>1. Len(t) \in Nat /\ r \in Nat /\ r < Len(t) /\ NUL \notin decimal
    BY Chars DEF Text
<1>2. /\ end \in Nat /\ end >= r + 1 /\ end <= Len(t)
      /\ \A j \in r + 1..end - 1 : At(t, j) \in decimal
    BY <1>1, RunEnds
<1>3. /\ last \in Nat /\ last >= r /\ last < Len(t)
      /\ last = r + 1 \/ At(t, last) \in decimal
    <2>1. CASE many
        <3>1. last = end - 1 /\ end - 1 \in r + 1..end - 1
            <4> HIDE DEF end
            <4> QED
                BY <1>1, <1>2, <2>1
        <3>2. At(t, last) \in decimal
            <4> HIDE DEF end, last
            <4> QED
                BY <1>2, <3>1
        <3> HIDE DEF end, last
        <3> QED
            BY <1>1, <1>2, <3>1, <3>2
    <2>2. CASE ~many
        <3>1. last = IF r + 1 = Len(t) THEN r ELSE r + 1
            <4> HIDE DEF many
            <4> QED
                BY <2>2
        <3> HIDE DEF last
        <3> QED
            BY <1>1, <3>1
    <2> QED
        BY <2>1, <2>2
<1>4. Decimal(t, r) =
        IF At(t, last) \in Alpha THEN Type(1, last - 1)
        ELSE IF alone THEN Type(1, last)
        ELSE IF At(t, place) # "." THEN Type(-1, last)
        ELSE IF At(t, place + 1) \in decimal THEN Float(t, place)
        ELSE Type(1, place - 1)
    BY DEF Decimal
<1> HIDE DEF alone
<1>5. CASE At(t, last) \in Alpha
    <2> HIDE DEF last, place
    <2>1. last = r + 1
        BY <1>3, <1>5, Chars
    <2> QED
        BY <1>1, <1>4, <1>5, <2>1 DEF Inside, Type
<1>6. CASE At(t, last) \notin Alpha /\ At(t, place) # "."
    <2> HIDE DEF last, place
    <2>1. Decimal(t, r) \in {Type(1, last), Type(-1, last)}
        BY <1>4, <1>6
    <2> QED
        BY <1>1, <1>3, <2>1 DEF Inside, Type
<1>7. CASE At(t, last) \notin Alpha /\ At(t, place) = "."
    <2>1. place = last \/ place = last + 1
        OBVIOUS
    <2>2. place = last => last = r + 1
        <3> HIDE DEF last, place
        <3> QED
            BY <1>3, <1>7, Chars
    <2> HIDE DEF last, place
    <2>3. place \in 0..Len(t) - 1 /\ place >= r + 1
        <3>1. place \in Nat /\ At(t, place) # NUL
            BY <1>3, <1>7, <2>1, Chars
        <3>2. place < Len(t)
            BY <1>1, <3>1, AtNul
        <3>3. place # r
            BY <1>1, <1>3, <2>1, <2>2
        <3> QED
            BY <1>1, <1>3, <2>1, <3>1, <3>2, <3>3
    <2>4. Float(t, place).num = 4 /\ Float(t, place).last \in place..Len(t) - 1
        BY <2>3, FloatInside
    <2>5. \/ Decimal(t, r) = Type(1, last)
          \/ Decimal(t, r) = Float(t, place)
          \/ Decimal(t, r) = Type(1, place - 1)
        BY <1>4, <1>7
    <2>6. ASSUME NEW k \in r..Len(t) - 1 PROVE Inside(t, r, Type(1, k))
        BY DEF Inside, Type
    <2>7. Inside(t, r, Type(1, last))
        BY <1>1, <1>3, <2>6
    <2>8. Inside(t, r, Type(1, place - 1))
        BY <1>1, <2>3, <2>6
    <2>9. Inside(t, r, Float(t, place))
        BY <1>1, <2>3, <2>4 DEF Inside
    <2> QED
        BY <2>5, <2>7, <2>8, <2>9
<1> QED
    BY <1>5, <1>6, <1>7

\* No type is looked for before the place where its text begins, and it ends in the
\* element unless what is left of it is lost.
LEMMA ScanStands ==
    ASSUME NEW t \in Text, NEW r \in 0..Len(t) - 1
    PROVE  Stands(t, r, Scan(t, r))
<1>1. CASE At(t, r) \in Alpha
    BY <1>1, WordInside, InsideStands DEF Scan
<1>2. CASE At(t, r) = "0"
    <2>1. Scan(t, r) = Zero(t, r)
        BY <1>2, Chars DEF Scan
    <2>2. CASE At(t, r + 1) \in {"x", "X"}
        <3>1. At(t, r + 1) # NUL /\ Zero(t, r) = Hexadecimal(t, r)
            BY <2>2, Chars DEF Zero
        <3> QED
            BY <2>1, <3>1, HexadecimalInside, InsideStands
    <2>3. CASE At(t, r + 1) \notin {"x", "X"} /\ strchr(octal, At(t, r + 1)) /\ Len(t) > 1
        <3>1. Zero(t, r) = ZeroFirst(t, r)
            BY <2>3 DEF Zero
        <3> QED
            BY <1>2, <2>1, <2>3, <3>1, ZeroFirstStands
    <2>4. CASE At(t, r + 1) \notin {"x", "X"} /\ ~(strchr(octal, At(t, r + 1)) /\ Len(t) > 1)
        <3>1. Zero(t, r) = ZeroOther(t, r)
            BY <2>4 DEF Zero
        <3> QED
            BY <2>1, <2>4, <3>1, ZeroOtherInside, InsideStands
    <2> QED
        BY <2>2, <2>3, <2>4
<1>3. CASE At(t, r) \notin Alpha /\ At(t, r) # "0" /\ At(t, r) \in decimal
    BY <1>3, DecimalInside, InsideStands DEF Scan
<1>4. CASE At(t, r) \notin Alpha /\ At(t, r) # "0" /\ At(t, r) \notin decimal
    <2>1. Scan(t, r) = Type(-1, r)
        BY <1>4 DEF Scan
    <2> QED
        BY <2>1, InsideStands DEF Inside, Type
<1> QED
    BY <1>1, <1>2, <1>3, <1>4

LEMMA Comma == COMMA # "NUL"
BY DEF COMMA

\* A table's rows are what it says of its operators.
LEMMA TableRow ==
    ASSUME NEW rows, NEW op \in DOMAIN Table(rows)
    PROVE  \E row \in rows : row[1] = op /\ Table(rows)[op] = row[2]
BY DEF Table

\* The operators have no NUL among their characters, and their types have names.
LEMMA OperatorChars ==
    /\ \A c : <<c>> \in DOMAIN Operators1 => c # NUL
    /\ \A c, d : <<c, d>> \in DOMAIN Operators2 => c # NUL /\ d # NUL
    /\ \A c, d, e : <<c, d, e>> \in DOMAIN Operators3 => c # NUL /\ d # NUL /\ e # NUL
<1>1. \A c : <<c>> \in DOMAIN Operators1 => c # NUL
    BY Comma DEF Operators1, Table, NUL
<1>2. \A c, d : <<c, d>> \in DOMAIN Operators2 => c # NUL /\ d # NUL
    BY DEF Operators2, Table, NUL
<1>3. \A c, d, e : <<c, d, e>> \in DOMAIN Operators3 => c # NUL /\ d # NUL /\ e # NUL
    BY DEF Operators3, Table, NUL
<1> QED
    BY <1>1, <1>2, <1>3

LEMMA OperatorNumbers ==
    /\ \A op \in DOMAIN Operators1 : Operators1[op] \in 0..46
    /\ \A op \in DOMAIN Operators2 : Operators2[op] \in 0..46
    /\ \A op \in DOMAIN Operators3 : Operators3[op] \in 0..46
<1>1. \A op \in DOMAIN Operators1 : Operators1[op] \in 0..46
    BY TableRow DEF Operators1
<1>2. \A op \in DOMAIN Operators2 : Operators2[op] \in 0..46
    BY TableRow DEF Operators2
<1>3. \A op \in DOMAIN Operators3 : Operators3[op] \in 0..46
    BY TableRow DEF Operators3
<1> QED
    BY <1>1, <1>2, <1>3

\* checkTokenType never goes backwards, and leaves the element only for what is lost.
LEMMA TokenStands ==
    ASSUME NEW t \in Text, NEW r \in 0..Len(t) - 1
    PROVE  /\ checkTokenType(t, r).num \in -1..46
           /\ checkTokenType(t, r).last \in r..Len(t) + 1
           /\ checkTokenType(t, r).last >= Len(t) => Lost(SubSeq(t, r + 1, Len(t)), r)
<1> DEFINE found == Scan(t, r)
           k == found.last
           type == checkTokenType(t, r)
<1>1. Len(t) \in Nat /\ r \in Nat /\ r < Len(t)
    BY DEF Text
<1>2. /\ found.num \in -1..4 /\ k \in r..Len(t) + 1
      /\ k >= Len(t) => Lost(SubSeq(t, r + 1, Len(t)), r)
    BY ScanStands DEF Stands
<1>3. type = OperatorAt(t, k, found)
    BY DEF checkTokenType, Found
<1> HIDE DEF found
<1>4. CASE Three(t, k) \in DOMAIN Operators3
    <2>1. type = Type(Operators3[Three(t, k)], k + 2)
        BY <1>3, <1>4 DEF OperatorAt
    <2>2. type.num \in 0..46 /\ type.last = k + 2
        <3> HIDE DEF k
        <3> QED
            BY <2>1, <1>4, OperatorNumbers DEF Type
    <2>3. At(t, k + 2) # NUL
        BY <1>4, OperatorChars DEF Three
    <2>4. k + 2 < Len(t)
        BY <1>1, <1>2, <2>3, AtNul
    <2> HIDE DEF k
    <2> QED
        BY <1>1, <1>2, <2>2, <2>4
<1>5. CASE Three(t, k) \notin DOMAIN Operators3 /\ Two(t, k) \in DOMAIN Operators2
    <2>1. type = Type(Operators2[Two(t, k)], k + 1)
        BY <1>3, <1>5 DEF OperatorAt
    <2>2. type.num \in 0..46 /\ type.last = k + 1
        <3> HIDE DEF k
        <3> QED
            BY <2>1, <1>5, OperatorNumbers DEF Type
    <2>3. At(t, k + 1) # NUL
        BY <1>5, OperatorChars DEF Two
    <2>4. k + 1 < Len(t)
        BY <1>1, <1>2, <2>3, AtNul
    <2> HIDE DEF k
    <2> QED
        BY <1>1, <1>2, <2>2, <2>4
<1>6. CASE Three(t, k) \notin DOMAIN Operators3 /\ Two(t, k) \notin DOMAIN Operators2
    <2>1. type.num \in -1..46 /\ type.last = k
        <3>1. CASE One(t, k) \in DOMAIN Operators1
            <4>1. type = Type(Operators1[One(t, k)], k)
                BY <1>3, <1>6, <3>1 DEF OperatorAt
            <4> HIDE DEF k
            <4> QED
                BY <4>1, <3>1, OperatorNumbers DEF Type
        <3>2. CASE One(t, k) \notin DOMAIN Operators1
            <4>1. type = Type(11, k) \/ type = found
                BY <1>3, <1>6, <3>2 DEF OperatorAt
            <4> QED
                BY <1>2, <4>1 DEF Type
        <3> QED
            BY <3>1, <3>2
    <2> HIDE DEF k
    <2> QED
        BY <1>1, <1>2, <2>1
<1> QED
    BY <1>4, <1>5, <1>6

\* getTokenName never looks beyond its table.
Names == {TokenNames[n] : n \in 1..47} \cup {"(null)", "C Keyword"}
LEMMA Named ==
    ASSUME NEW num \in -1..46
    PROVE  getTokenName(num) \in Names
<1>1. num = -1 \/ num + 1 \in 1..47
    OBVIOUS
<1> QED
    BY <1>1 DEF getTokenName, Names

\* A keyword is passed to its end, and nothing else is.
LEMMA KeywordEnds ==
    ASSUME NEW t \in Text, NEW k \in 0..Len(t)
    PROVE  checkKeywordPresent(t, k) \in k..Len(t)
<1> DEFINE ends == {j \in k..Len(t) : j - k > KEYWORD_MAX_SIZE
                                       \/ At(t, j) = NUL \/ checkDelimiter(At(t, j))}
           last == CHOOSE j \in ends : \A m \in ends : j <= m
<1>1. Len(t) \in Nat
    BY DEF Text
<1>2. checkKeywordPresent(t, k) \in {k, last}
    BY DEF checkKeywordPresent
<1>3. Len(t) \in ends
    BY <1>1, AtNul
<1>4. ends \in SUBSET Nat /\ ends \subseteq k..Len(t)
    BY <1>1
<1>5. last \in ends
    <2> HIDE DEF ends
    <2> QED
        BY <1>3, <1>4, Least
<1> HIDE DEF last, ends
<1> QED
    BY <1>1, <1>2, <1>4, <1>5

-----------------------------------------------------------------------------
(***************************************************************************)
(* The pieces of an element.                                               *)
(***************************************************************************)
Alnum == Alpha \cup decimal

\* What a type says of the text from r to k.
Piece(t, r, k) == SubSeq(t, r + 1, k + 1)

\* What may be behind the character at k, three characters of the argument: those of the
\* element as far as it goes, and then one that ends an element.
Ending(c) == c \in {NUL, "/"} \/ checkDelimiter(c)
Followed(t, k, next) ==
    /\ IF k + 1 < Len(t) THEN next[1] = At(t, k + 1) ELSE Ending(next[1])
    /\ k + 2 < Len(t) => next[2] = At(t, k + 2)
    /\ k + 2 = Len(t) => Ending(next[2])
    /\ k + 3 < Len(t) => next[3] = At(t, k + 3)

LEMMA Classes ==
    /\ octal \subseteq decimal /\ decimal \subseteq Alnum /\ Alpha \subseteq Alnum
    /\ decimal \subseteq hexadecimal /\ hexadecimal \subseteq Alnum
    /\ "." \notin Alnum /\ "-" \notin Alnum /\ "0" \in octal /\ "e" \in Alpha /\ "e" # "."
    /\ "x" \in Alpha /\ "X" \in Alpha /\ NUL \notin Alnum /\ "-" # "." /\ "." # NUL
<1>1. /\ octal \subseteq decimal /\ decimal \subseteq Alnum /\ Alpha \subseteq Alnum
      /\ decimal \subseteq hexadecimal
    BY DEF Alnum, decimal, hexadecimal
<1>2. hexadecimal \subseteq Alnum
    BY DEF Alnum, Alpha, Lower, Upper, decimal, hexadecimal
<1>3. "." \notin Alnum /\ "-" \notin Alnum /\ NUL \notin Alnum
    BY DEF Alnum, Alpha, Lower, Upper, decimal, octal, NUL
<1>4. "0" \in octal /\ "e" \in Alpha /\ "x" \in Alpha /\ "X" \in Alpha
    BY DEF octal, Alpha, Lower, Upper
<1>5. "e" # "." /\ "-" # "." /\ "." # NUL
    BY DEF NUL
<1> QED
    BY <1>1, <1>2, <1>3, <1>4, <1>5

\* What ends an element belongs to no piece.
LEMMA EndingNot == \A c : Ending(c) => c \notin Alnum /\ c # "." /\ c # "-"
<1>1. \A c : checkDelimiter(c) => c \notin Alnum /\ c # "." /\ c # "-"
    BY DEF checkDelimiter, Alnum, Alpha, Lower, Upper, decimal, octal
<1>2. "/" \notin Alnum /\ NUL \notin Alnum /\ NUL # "." /\ NUL # "-"
    BY DEF NUL, Alnum, Alpha, Lower, Upper, decimal, octal
<1> QED
    BY <1>1, <1>2 DEF Ending

LEMMA FollowedNot ==
    ASSUME NEW t \in Text, NEW k \in 0..Len(t) - 1, NEW next, Followed(t, k, next),
           NEW S \in SUBSET Alnum, At(t, k + 1) \notin S
    PROVE  next[1] \notin S
BY EndingNot DEF Followed

\* A point and a digit, or an e, behind a piece are the element's.
LEMMA FollowedPoint ==
    ASSUME NEW t \in Text, NEW k \in 0..Len(t) - 1, NEW next, Followed(t, k, next),
           next[1] = ".", next[2] \in decimal
    PROVE  At(t, k + 1) = "." /\ At(t, k + 2) \in decimal
<1>1. Len(t) \in Nat /\ ~Ending(".")
    BY EndingNot DEF Text
<1>2. k + 1 < Len(t) /\ At(t, k + 1) = "."
    BY <1>1 DEF Followed
<1>3. ~Ending(next[2])
    BY EndingNot, Classes
<1>4. k + 2 < Len(t)
    BY <1>1, <1>2, <1>3 DEF Followed
<1> QED
    BY <1>2, <1>4 DEF Followed

\* What would be an exponent.
Powered(next) ==
    next[1] = "e" /\ (next[2] \in decimal \/ (next[2] = "-" /\ next[3] \in decimal))

LEMMA FollowedPower ==
    ASSUME NEW t \in Text, NEW k \in 0..Len(t) - 1, NEW next, Followed(t, k, next),
           Powered(next)
    PROVE  At(t, k + 1) = "e" /\ k + 2 < Len(t) /\ Exponent(t, k + 1)
<1>1. Len(t) \in Nat /\ ~Ending("e") /\ ~Ending("-")
    BY EndingNot, Classes DEF Text
<1>2. k + 1 < Len(t) /\ At(t, k + 1) = "e"
    BY <1>1 DEF Followed, Powered
<1>3. ~Ending(next[2])
    BY <1>1, EndingNot, Classes DEF Powered
<1>4. k + 2 < Len(t) /\ next[2] = At(t, k + 2)
    BY <1>1, <1>2, <1>3 DEF Followed
<1>5. (k + 1) + 1 = k + 2 /\ (k + 1) + 2 = k + 3
    OBVIOUS
<1>6. CASE next[2] \in decimal
    BY <1>2, <1>4, <1>5, <1>6 DEF Exponent, strchr
<1>7. CASE next[2] = "-" /\ next[3] \in decimal
    <2>1. k + 3 < Len(t) => At(t, k + 3) \in decimal
        BY <1>7 DEF Followed
    <2>2. ~(k + 3 < Len(t)) => At(t, k + 3) = NUL
        <3>1. ~(k + 3 < Len(t)) => k + 3 \notin 0..Len(t) - 1
            BY <1>1
        <3> QED
            BY <3>1 DEF At
    <2> QED
        BY <1>2, <1>4, <1>5, <1>7, <2>1, <2>2 DEF Exponent, strchr
<1> QED
    BY <1>2, <1>4, <1>6, <1>7 DEF Powered

LEMMA PieceChars ==
    ASSUME NEW t \in Text, NEW r \in Nat, NEW k \in r..Len(t) - 1
    PROVE  /\ Piece(t, r, k) \in Text /\ Len(Piece(t, r, k)) = k + 1 - r
           /\ \A n \in 1..k + 1 - r : Piece(t, r, k)[n] = At(t, r + n - 1)
           /\ \A j \in r..k : Piece(t, r, k)[j - r + 1] = At(t, j)
           /\ \A j \in r..k : At(t, j) \in STRING \ {NUL}
<1>1. Len(t) \in Nat /\ k < Len(t) /\ r <= k
    BY DEF Text
<1>2. /\ Piece(t, r, k) \in Text /\ Len(Piece(t, r, k)) = k + 1 - r
      /\ \A n \in 1..k + 1 - r : Piece(t, r, k)[n] = t[r + n]
    BY <1>1 DEF Text, Piece
<1>3. \A n \in 1..k + 1 - r : Piece(t, r, k)[n] = At(t, r + n - 1)
    <2>1. ASSUME NEW n \in 1..k + 1 - r PROVE At(t, r + n - 1) = t[r + n]
        <3>1. r + n - 1 \in 0..Len(t) - 1 /\ r + n - 1 + 1 = r + n
            BY <1>1
        <3> QED
            BY <3>1 DEF At
    <2> QED
        BY <1>2, <2>1
<1>4. \A j \in r..k : Piece(t, r, k)[j - r + 1] = At(t, j)
    <2>1. ASSUME NEW j \in r..k PROVE Piece(t, r, k)[j - r + 1] = At(t, j)
        <3>1. j - r + 1 \in 1..k + 1 - r /\ r + (j - r + 1) - 1 = j
            BY <1>1
        <3>2. Piece(t, r, k)[j - r + 1] = At(t, r + (j - r + 1) - 1)
            BY <1>3, <3>1
        <3> QED
            BY <3>1, <3>2
    <2> QED
        BY <2>1
<1>5. \A j \in r..k : At(t, j) \in STRING \ {NUL}
    BY <1>1 DEF At, Text
<1> QED
    BY <1>2, <1>3, <1>4, <1>5

LEMMA PieceHead ==
    ASSUME NEW t \in Text, NEW r \in Nat, NEW k \in Nat, r <= k, k < Len(t)
    PROVE  /\ Piece(t, r, k) \in Text /\ Len(Piece(t, r, k)) = k + 1 - r
           /\ Piece(t, r, k)[1] = At(t, r)
           /\ k > r => Piece(t, r, k)[2] = At(t, r + 1)
           /\ k > r + 1 => Piece(t, r, k)[3] = At(t, r + 2)
<1>1. Len(t) \in Nat /\ k \in r..Len(t) - 1
    BY DEF Text
<1>3. /\ Piece(t, r, k) \in Text /\ Len(Piece(t, r, k)) = k + 1 - r
      /\ \A n \in 1..k + 1 - r : Piece(t, r, k)[n] = At(t, r + n - 1)
    <2>1. PICK m \in r..Len(t) - 1 : m = k
        BY <1>1
    <2>2. Piece(t, r, m) \in Text /\ Len(Piece(t, r, m)) = m + 1 - r
        BY PieceChars
    <2>3. \A n \in 1..m + 1 - r : Piece(t, r, m)[n] = At(t, r + n - 1)
        BY PieceChars
    <2> QED
        BY <2>1, <2>2, <2>3
<1>6. Piece(t, r, k)[1] = At(t, r)
    <2>1. 1 \in 1..k + 1 - r /\ r + 1 - 1 = r
        BY <1>1
    <2> QED
        BY <1>3, <2>1
<1>7. k > r => Piece(t, r, k)[2] = At(t, r + 1)
    <2>1. k > r => 2 \in 1..k + 1 - r
        BY <1>1
    <2>2. r + 2 - 1 = r + 1
        BY <1>1
    <2> QED
        BY <1>3, <2>1, <2>2
<1>8. k > r + 1 => Piece(t, r, k)[3] = At(t, r + 2)
    <2>1. k > r + 1 => 3 \in 1..k + 1 - r
        BY <1>1
    <2>2. r + 3 - 1 = r + 2
        BY <1>1
    <2> QED
        BY <1>3, <2>1, <2>2
<1> QED
    BY <1>3, <1>6, <1>7, <1>8

\* A piece all of whose characters are of a set.
LEMMA PieceDigits ==
    ASSUME NEW t \in Text, NEW r \in Nat, NEW k \in r..Len(t) - 1, NEW S,
           \A j \in r..k : At(t, j) \in S
    PROVE  Digits(Piece(t, r, k), S)
<1>1. Len(t) \in Nat
    BY DEF Text
<1>2. PICK u \in Text : /\ u = Piece(t, r, k) /\ Len(u) = k + 1 - r
                        /\ \A n \in 1..k + 1 - r : u[n] = At(t, r + n - 1)
    BY PieceChars
<1>3. \A n \in 1..Len(u) : u[n] \in S
    BY <1>1, <1>2
<1>4. ToSet(u) \subseteq S
    BY <1>3 DEF ToSet, Text
<1>5. Len(u) # 0
    BY <1>1, <1>2
<1>6. u # <<>>
    BY <1>5
<1> QED
    BY <1>2, <1>4, <1>6 DEF Digits

\* A piece of a piece.
LEMMA PieceOfPiece ==
    ASSUME NEW t \in Text, NEW r \in Nat, NEW k \in r..Len(t) - 1, NEW a \in r..k, NEW b \in a..k
    PROVE  SubSeq(Piece(t, r, k), a - r + 1, b - r + 1) = Piece(t, a, b)
<1>1. Len(t) \in Nat /\ k < Len(t)
    BY DEF Text
<1>2. PICK u \in Text : /\ u = Piece(t, r, k) /\ Len(u) = k + 1 - r
                        /\ \A n \in 1..k + 1 - r : u[n] = At(t, r + n - 1)
    BY PieceChars
<1>3. b \in a..Len(t) - 1 /\ a \in Nat
    BY <1>1
<1>4. PICK v \in Text : /\ v = Piece(t, a, b) /\ Len(v) = b + 1 - a
                        /\ \A n \in 1..b + 1 - a : v[n] = At(t, a + n - 1)
    BY <1>3, PieceChars
<1>5. /\ SubSeq(u, a - r + 1, b - r + 1) \in Text
      /\ Len(SubSeq(u, a - r + 1, b - r + 1)) = b + 1 - a
      /\ \A n \in 1..b + 1 - a : SubSeq(u, a - r + 1, b - r + 1)[n] = u[a - r + n]
    <2>1. PICK c \in Nat, d \in Nat : c = a - r + 1 /\ d = b - r + 1
        BY <1>1
    <2>2. c >= 1 /\ c <= d /\ d <= Len(u) /\ d - c + 1 = b + 1 - a
        BY <1>1, <1>2, <2>1
    <2>3. \A n : c + n - 1 = a - r + n \/ n \notin Int
        BY <1>1, <2>1
    <2>4. /\ SubSeq(u, c, d) \in Text /\ Len(SubSeq(u, c, d)) = d - c + 1
          /\ \A n \in 1..d - c + 1 : SubSeq(u, c, d)[n] = u[c + n - 1]
        BY <2>2 DEF Text
    <2>5. SubSeq(u, a - r + 1, b - r + 1) = SubSeq(u, c, d)
        BY <2>1
    <2>6. \A n \in 1..b + 1 - a : SubSeq(u, c, d)[n] = u[a - r + n]
        <3>1. ASSUME NEW n \in 1..b + 1 - a PROVE SubSeq(u, c, d)[n] = u[a - r + n]
            <4>1. n \in 1..d - c + 1 /\ c + n - 1 = a - r + n
                BY <2>2, <2>3
            <4> QED
                BY <2>4, <4>1
        <3> QED
            BY <3>1
    <2> QED
        BY <2>2, <2>4, <2>5, <2>6
<1>6. ASSUME NEW n \in 1..b + 1 - a PROVE SubSeq(u, a - r + 1, b - r + 1)[n] = v[n]
    <2>1. a - r + n \in 1..k + 1 - r /\ r + (a - r + n) - 1 = a + n - 1
        BY <1>1, <1>3
    <2> QED
        BY <1>2, <1>4, <1>5, <2>1
<1>7. SubSeq(u, a - r + 1, b - r + 1) = v
    BY <1>4, <1>5, <1>6, SeqEqual DEF Text
<1> QED
    BY <1>2, <1>4, <1>7

\* Without its last character.
LEMMA FrontOfSub ==
    ASSUME NEW s \in Text, NEW p \in 1..Len(s)
    PROVE  Front(SubSeq(s, 1, p)) = SubSeq(s, 1, p - 1)
<1>1. Len(s) \in Nat
    BY DEF Text
<1>2. /\ SubSeq(s, 1, p) \in Text /\ Len(SubSeq(s, 1, p)) = p
      /\ \A n \in 1..p : SubSeq(s, 1, p)[n] = s[n]
    BY <1>1 DEF Text
<1>3. /\ SubSeq(s, 1, p - 1) \in Text /\ Len(SubSeq(s, 1, p - 1)) = p - 1
      /\ \A n \in 1..p - 1 : SubSeq(s, 1, p - 1)[n] = s[n]
    BY <1>1 DEF Text
<1>4. Front(SubSeq(s, 1, p)) = SubSeq(SubSeq(s, 1, p), 1, p - 1)
    BY <1>2 DEF Front
<1>5. /\ SubSeq(SubSeq(s, 1, p), 1, p - 1) \in Text
      /\ Len(SubSeq(SubSeq(s, 1, p), 1, p - 1)) = p - 1
      /\ \A n \in 1..p - 1 : SubSeq(SubSeq(s, 1, p), 1, p - 1)[n] = SubSeq(s, 1, p)[n]
    <2> DEFINE w == SubSeq(s, 1, p)
    <2>1. w \in Seq(STRING \ {NUL}) /\ Len(w) = p
        BY <1>2 DEF Text
    <2> HIDE DEF w
    <2>2. /\ SubSeq(w, 1, p - 1) \in Seq(STRING \ {NUL}) /\ Len(SubSeq(w, 1, p - 1)) = p - 1
          /\ \A n \in 1..p - 1 : SubSeq(w, 1, p - 1)[n] = w[n]
        BY <1>1, <2>1
    <2> QED
        BY <2>2 DEF w, Text
<1>6. SubSeq(SubSeq(s, 1, p), 1, p - 1) = SubSeq(s, 1, p - 1)
    <2>1. \A n \in 1..p - 1 : n \in 1..p
        OBVIOUS
    <2>2. \A n \in 1..p - 1 : SubSeq(SubSeq(s, 1, p), 1, p - 1)[n] = SubSeq(s, 1, p - 1)[n]
        BY <1>2, <1>3, <1>5, <2>1
    <2> QED
        BY <1>3, <1>5, <2>2, SeqEqual DEF Text
<1> QED
    BY <1>4, <1>6

-----------------------------------------------------------------------------
(***************************************************************************)
(* Fractions and exponents, by places of the element.                      *)
(***************************************************************************)
LEMMA PieceFraction ==
    ASSUME NEW t \in Text, NEW r \in Nat, NEW k \in r..Len(t) - 1,
           NEW p \in r + 1..k - 1, At(t, p) = ".",
           \A j \in r..p - 1 : At(t, j) \in decimal,
           \A j \in p + 1..k : At(t, j) \in decimal
    PROVE  Fraction(Piece(t, r, k))
<1>1. Len(t) \in Nat /\ k < Len(t)
    BY DEF Text
<1>2. PICK u \in Text, m \in Nat : /\ u = Piece(t, r, k) /\ Len(u) = k + 1 - r /\ m = p - r + 1
                        /\ \A j \in r..k : u[j - r + 1] = At(t, j)
    BY PieceChars
<1>3. m \in 1..Len(u) /\ u[m] = "."
    BY <1>1, <1>2
<1>4. Digits(Front(SubSeq(u, 1, m)), decimal)
    <2>1. p - 1 \in r..Len(t) - 1 /\ r \in r..k /\ p - 1 \in r..k
        BY <1>1
    <2>2. SubSeq(u, r - r + 1, (p - 1) - r + 1) = Piece(t, r, p - 1)
        BY <1>2, <2>1, PieceOfPiece
    <2>3. r - r + 1 = 1 /\ (p - 1) - r + 1 = m - 1
        BY <1>2
    <2>4. Front(SubSeq(u, 1, m)) = Piece(t, r, p - 1)
        BY <1>3, <2>2, <2>3, FrontOfSub
    <2> QED
        BY <2>1, <2>4, PieceDigits
<1>5. Digits(Rest(u, m), decimal)
    <2>1. p + 1 \in Nat /\ k \in p + 1..Len(t) - 1 /\ p + 1 \in r..k /\ k \in p + 1..k
        BY <1>1
    <2>2. SubSeq(u, (p + 1) - r + 1, k - r + 1) = Piece(t, p + 1, k)
        BY <1>2, <2>1, PieceOfPiece
    <2>3. (p + 1) - r + 1 = m + 1 /\ k - r + 1 = Len(u)
        BY <1>1, <1>2
    <2>4. Rest(u, m) = Piece(t, p + 1, k)
        BY <2>2, <2>3 DEF Rest
    <2> QED
        BY <2>1, <2>4, PieceDigits
<1>6. DOMAIN u = 1..Len(u)
    BY DEF Text
<1> QED
    BY <1>2, <1>3, <1>4, <1>5, <1>6 DEF Fraction

\* An exponent ends with a digit.
LEMMA PowerEnds ==
    ASSUME NEW s \in Text, Len(s) > 0, Power(s)
    PROVE  s[Len(s)] \in decimal
<1>1. Len(s) \in Nat /\ Len(s) \in DOMAIN s /\ DOMAIN s = 1..Len(s) /\ s # <<>>
    BY DEF Text
<1>2. CASE s[1] = "-"
    <2>1. Digits(Tail(s), decimal)
        BY <1>1, <1>2 DEF Power
    <2>2. Tail(s) \in Seq(STRING \ {NUL}) /\ Len(Tail(s)) = Len(s) - 1
        BY <1>1 DEF Text
    <2>3. Tail(s) # <<>> /\ ToSet(Tail(s)) \subseteq decimal
        BY <2>1 DEF Digits
    <2>4. Len(s) > 1
        BY <1>1, <2>2, <2>3
    <2>5. Tail(s)[Len(s) - 1] = s[Len(s)] /\ Len(s) - 1 \in DOMAIN Tail(s)
        BY <1>1, <2>2, <2>4 DEF Text
    <2> QED
        BY <2>3, <2>5 DEF ToSet
<1>3. CASE s[1] # "-"
    <2>1. ToSet(s) \subseteq decimal
        BY <1>3 DEF Power, Digits
    <2> QED
        BY <1>1, <2>1 DEF ToSet
<1> QED
    BY <1>2, <1>3

\* A fraction and an e make a floating point number, or are misread; they are when the
\* text does not end with a digit.
LEMMA PieceExponent ==
    ASSUME NEW t \in Text, NEW r \in Nat, NEW k \in r..Len(t) - 1,
           NEW q \in r + 1..k - 1, At(t, q) = "e", Fraction(Piece(t, r, q - 1))
    PROVE  /\ Misread(Piece(t, r, k)) \/ Scientific(Piece(t, r, k))
           /\ At(t, k) \notin decimal => Misread(Piece(t, r, k))
<1>1. Len(t) \in Nat /\ k < Len(t)
    BY DEF Text
<1>2. PICK u \in Text, m \in Nat : /\ u = Piece(t, r, k) /\ Len(u) = k + 1 - r /\ m = q - r + 1
                        /\ \A j \in r..k : u[j - r + 1] = At(t, j)
    BY PieceChars
<1>3. m \in 1..Len(u) - 1 /\ m \in 1..Len(u) /\ u[m] = "e" /\ Len(u) = k - r + 1
    BY <1>1, <1>2
<1>4. SubSeq(u, 1, m - 1) = Piece(t, r, q - 1)
    <2>1. r \in r..k /\ q - 1 \in r..k
        BY <1>1
    <2>2. SubSeq(u, r - r + 1, (q - 1) - r + 1) = Piece(t, r, q - 1)
        BY <1>2, <2>1, PieceOfPiece
    <2>3. r - r + 1 = 1 /\ (q - 1) - r + 1 = m - 1
        BY <1>2
    <2> QED
        BY <2>2, <2>3
<1>5. Fraction(SubSeq(u, 1, m - 1)) /\ Fraction(Front(SubSeq(u, 1, m)))
    BY <1>3, <1>4, FrontOfSub
<1>6. Power(Rest(u, m)) \/ Misread(u)
    BY <1>3, <1>5 DEF Misread
<1>7. Power(Rest(u, m)) => Scientific(u)
    <2>1. m \in DOMAIN u
        BY <1>3 DEF Text
    <2> QED
        BY <1>3, <1>5, <2>1 DEF Scientific
<1>8. ASSUME At(t, k) \notin decimal PROVE ~Power(Rest(u, m))
    <2>1. /\ Rest(u, m) \in Text /\ Len(Rest(u, m)) = Len(u) - m /\ Len(u) - m > 0
          /\ Rest(u, m)[Len(u) - m] = u[Len(u)]
        BY <1>1, <1>3 DEF Rest, Text
    <2>2. u[Len(u)] = At(t, k)
        BY <1>1, <1>2, <1>3
    <2> QED
        BY <1>8, <2>1, <2>2, PowerEnds
<1> QED
    BY <1>2, <1>6, <1>7, <1>8

-----------------------------------------------------------------------------
(***************************************************************************)
(* What is misread, by places of the element.                              *)
(***************************************************************************)
LEMMA MisreadPair ==
    ASSUME NEW t \in Text, NEW r \in Nat, NEW k \in r + 1..Len(t) - 1,
           At(t, r) \in Alnum, At(t, r + 1) \notin Alnum, k = r + 1 \/ At(t, r + 1) # "."
    PROVE  Misread(Piece(t, r, k))
<1>1. Len(t) \in Nat /\ k \in Nat /\ r <= k /\ k < Len(t) /\ k > r
    BY DEF Text
<1>2. PICK u \in Text : /\ u = Piece(t, r, k) /\ Len(u) = k + 1 - r
                        /\ u[1] = At(t, r) /\ u[2] = At(t, r + 1)
    BY <1>1, PieceHead
<1>3. Len(u) > 1 /\ (k = r + 1 => Len(u) = 2)
    BY <1>1, <1>2
<1> QED
    BY <1>2, <1>3 DEF Misread, Alnum

LEMMA MisreadThird ==
    ASSUME NEW t \in Text, NEW r \in Nat, NEW k \in r + 2..Len(t) - 1,
           At(t, r) = "0", At(t, r + 1) \in decimal, At(t, r + 2) \notin octal,
           k = r + 2 \/ At(t, r + 2) \notin decimal \cup {"."}
    PROVE  Misread(Piece(t, r, k))
<1>1. Len(t) \in Nat /\ k \in Nat /\ r <= k /\ k < Len(t) /\ k > r /\ k > r + 1
    BY DEF Text
<1>2. PICK u \in Text : u = Piece(t, r, k)
    BY <1>1, PieceHead
<1>4. Len(u) = k + 1 - r /\ u[1] = At(t, r)
    BY <1>1, <1>2, PieceHead
<1>5. u[2] = At(t, r + 1) /\ u[3] = At(t, r + 2)
    BY <1>1, <1>2, PieceHead
<1>3. Len(u) > 2 /\ (k = r + 2 => Len(u) = 3)
    BY <1>1, <1>4
<1> QED
    BY <1>2, <1>3, <1>4, <1>5 DEF Misread

LEMMA MisreadZero ==
    ASSUME NEW t \in Text, NEW r \in 0..Len(t) - 1, At(t, r) = "0"
    PROVE  /\ Misread(Piece(t, r, r))
           /\ At(t, r + 1) \in {"x", "X"} => Misread(Piece(t, r, r + 1))
<1>1. Len(t) \in Nat /\ r \in Nat /\ r <= r /\ r < Len(t)
    BY DEF Text
<1>2. Misread(Piece(t, r, r))
    <2>1. PICK u \in Text : u = Piece(t, r, r) /\ Len(u) = 1 /\ u[1] = "0"
        <3>1. r + 1 - r = 1
            BY <1>1
        <3>2. Piece(t, r, r) \in Text /\ Len(Piece(t, r, r)) = r + 1 - r
            BY <1>1, PieceHead
        <3>3. Piece(t, r, r)[1] = At(t, r)
            BY <1>1, PieceHead
        <3> QED
            BY <3>1, <3>2, <3>3
    <2>2. u = <<"0">>
        BY <2>1 DEF Text
    <2> QED
        BY <2>1, <2>2 DEF Misread
<1>3. ASSUME At(t, r + 1) \in {"x", "X"} PROVE Misread(Piece(t, r, r + 1))
    <2>1. At(t, r + 1) # NUL
        BY <1>3, Chars
    <2>2. r + 1 \in r..Len(t) - 1 /\ r + 1 > r /\ (r + 1) + 1 - r = 2
        BY <1>1, <2>1, AtNul
    <2>3. PICK u \in Text : u = Piece(t, r, r + 1) /\ Len(u) = 2 /\ u[1] = "0" /\ u[2] = At(t, r + 1)
        <3>1. PICK k \in Nat : k = r + 1 /\ r <= k /\ k > r /\ k + 1 - r = 2 /\ k < Len(t)
            BY <1>1, <2>2
        <3>2. Piece(t, r, k) \in Text /\ Len(Piece(t, r, k)) = k + 1 - r
            BY <1>1, <3>1, PieceHead
        <3>3. Piece(t, r, k)[1] = At(t, r) /\ Piece(t, r, k)[2] = At(t, r + 1)
            BY <1>1, <3>1, PieceHead
        <3> QED
            BY <3>1, <3>2, <3>3
    <2>4. u = <<"0", At(t, r + 1)>>
        BY <2>3 DEF Text
    <2> QED
        BY <1>3, <2>3, <2>4 DEF Misread
<1> QED
    BY <1>2, <1>3

-----------------------------------------------------------------------------
(***************************************************************************)
(* What is read: nothing, a text that has its name or is misread, or a     *)
(* text behind which an operator may begin, and then it is misread.        *)
(***************************************************************************)
\* A text that has its name, and in front of what follows cannot be longer: the next three
\* characters tell (see KnownEnds).
Whole(t, next) ==
    /\ next[1] \notin decimal
    /\ next[1] = "." /\ next[2] \in decimal => Len(t) > 2 /\ t[1] = "0"
Known(name, t, next) ==
    \/ name = "word" /\ WordText(t) /\ next[1] \notin Alnum
    \/ name = "decimal integer" /\ Digits(t, decimal) /\ Whole(t, next)
    \/ name = "octal integer" /\ Digits(t, octal) /\ t[1] = "0" /\ Whole(t, next)
    \/ name = "hexadecimal integer" /\ HexText(t) /\ next[1] \notin hexadecimal
    \/ /\ name = "floating point" /\ next[1] \notin decimal
       /\ Scientific(t) \/ (Fraction(t) /\ ~Powered(next))
    \/ /\ name = "(null)" /\ Len(t) = 1 /\ t[1] \notin Alnum /\ t \notin Operators
       /\ Append(t, next[1]) \notin Operators
    \/ name = "sizeof" /\ t = SIZEOF /\ next[1] \notin Alnum
    \/ name = "C Keyword" /\ isKeyword(t) /\ (next[1] = NUL \/ checkDelimiter(next[1]))
    \/ Operator(t, name) /\ Append(t, next[1]) \notin Operators

Labelled(t, r, type) ==
    \/ Misread(Piece(t, r, type.last))
    \/ \A next : Followed(t, type.last, next) =>
                     Known(getTokenName(type.num), Piece(t, r, type.last), next)

Taken(t, r, k) ==
    \A e \in k..Len(t) - 1 :
        (e = k \/ At(t, k) # ".") /\ At(t, e) \notin decimal => Misread(Piece(t, r, e))

Read(t, r, type) ==
    \/ type = Type(-1, r) /\ At(t, r) \notin Alnum
    \/ At(t, type.last) \in Alnum /\ Labelled(t, r, type)
    \/ At(t, type.last) \notin Alnum /\ Taken(t, r, type.last)

LEMMA TokenNumbers ==
    /\ getTokenName(0) = "word" /\ getTokenName(1) = "decimal integer"
    /\ getTokenName(2) = "octal integer" /\ getTokenName(3) = "hexadecimal integer"
    /\ getTokenName(4) = "floating point" /\ getTokenName(11) = "sizeof"
    /\ getTokenName(-1) = "(null)"
BY DEF getTokenName, TokenNames

LEMMA Typing == \A num, last : Type(num, last).num = num /\ Type(num, last).last = last
BY DEF Type

LEMMA ReadAs ==
    ASSUME NEW t \in Text, NEW r, NEW k, NEW num, NEW name, name = getTokenName(num),
           At(t, k) \in Alnum,
           \/ Misread(Piece(t, r, k))
           \/ \A next : Followed(t, k, next) => Known(name, Piece(t, r, k), next)
    PROVE  Read(t, r, Type(num, k))
<1>1. PICK type : type = Type(num, k) /\ type.num = num /\ type.last = k
    BY Typing
<1>2. Labelled(t, r, type)
    BY <1>1 DEF Labelled
<1> QED
    BY <1>1, <1>2 DEF Read

LEMMA ReadWord ==
    ASSUME NEW t \in Text, NEW r \in Nat, NEW k \in r..Len(t) - 1,
           At(t, r) \in Alpha, \A j \in r..k : At(t, j) \in Alnum, At(t, k + 1) \notin Alnum
    PROVE  Read(t, r, Type(0, k))
<1>1. Len(t) \in Nat /\ k \in 0..Len(t) - 1 /\ k \in r..k /\ r <= k /\ k < Len(t) /\ k \in Nat
    BY DEF Text
<1>2. Digits(Piece(t, r, k), Alnum)
    BY PieceDigits
<1>3. Piece(t, r, k)[1] = At(t, r)
    BY <1>1, PieceHead
<1>4. ASSUME NEW next, Followed(t, k, next) PROVE Known("word", Piece(t, r, k), next)
    <2>1. next[1] \notin Alnum
        BY <1>1, <1>4, FollowedNot
    <2> QED
        BY <1>2, <1>3, <2>1 DEF Known, WordText, Alnum
<1>5. At(t, k) \in Alnum
    BY <1>1
<1> QED
    BY <1>4, <1>5, TokenNumbers, ReadAs

LEMMA ReadDecimal ==
    ASSUME NEW t \in Text, NEW r \in Nat, NEW k \in r..Len(t) - 1,
           \A j \in r..k : At(t, j) \in decimal, At(t, k + 1) \notin decimal,
           At(t, k + 1) = "." /\ At(t, k + 2) \in decimal => k > r + 1 /\ At(t, r) = "0"
    PROVE  Read(t, r, Type(1, k))
<1>1. Len(t) \in Nat /\ k \in 0..Len(t) - 1 /\ k \in r..k /\ r <= k /\ k < Len(t) /\ k \in Nat
    BY DEF Text
<1>2. Digits(Piece(t, r, k), decimal)
    BY PieceDigits
<1>3. ASSUME NEW next, Followed(t, k, next) PROVE Known("decimal integer", Piece(t, r, k), next)
    <2>1. next[1] \notin decimal
        BY <1>1, <1>3, Classes, FollowedNot
    <2>2. ASSUME next[1] = ".", next[2] \in decimal
          PROVE  Len(Piece(t, r, k)) > 2 /\ Piece(t, r, k)[1] = "0"
        <3>1. k > r + 1 /\ At(t, r) = "0"
            BY <1>1, <1>3, <2>2, FollowedPoint
        <3>2. Len(Piece(t, r, k)) = k + 1 - r /\ Piece(t, r, k)[1] = At(t, r)
            BY <1>1, PieceHead
        <3>3. k + 1 - r > 2
            BY <1>1, <3>1
        <3> QED
            BY <3>1, <3>2, <3>3
    <2> QED
        BY <1>2, <2>1, <2>2 DEF Known, Whole
<1>4. At(t, k) \in Alnum
    BY <1>1, Classes
<1> QED
    BY <1>3, <1>4, TokenNumbers, ReadAs

LEMMA ReadOctal ==
    ASSUME NEW t \in Text, NEW r \in Nat, NEW k \in r..Len(t) - 1, At(t, r) = "0",
           \A j \in r..k : At(t, j) \in octal, At(t, k + 1) \notin decimal,
           At(t, k + 1) = "." /\ At(t, k + 2) \in decimal => k > r + 1
    PROVE  Read(t, r, Type(2, k))
<1>1. Len(t) \in Nat /\ k \in 0..Len(t) - 1 /\ k \in r..k /\ r <= k /\ k < Len(t) /\ k \in Nat
    BY DEF Text
<1>2. Digits(Piece(t, r, k), octal)
    BY PieceDigits
<1>3. Piece(t, r, k)[1] = "0"
    BY <1>1, PieceHead
<1>4. octal \subseteq Alnum /\ decimal \subseteq Alnum
    BY Classes
<1>5. ASSUME NEW next, Followed(t, k, next) PROVE Known("octal integer", Piece(t, r, k), next)
    <2>1. next[1] \notin decimal
        BY <1>1, <1>4, <1>5, FollowedNot
    <2>2. ASSUME next[1] = ".", next[2] \in decimal
          PROVE  Len(Piece(t, r, k)) > 2 /\ Piece(t, r, k)[1] = "0"
        <3>1. k > r + 1
            BY <1>1, <1>5, <2>2, FollowedPoint
        <3>2. Len(Piece(t, r, k)) = k + 1 - r /\ Piece(t, r, k)[1] = At(t, r)
            BY <1>1, PieceHead
        <3>3. k + 1 - r > 2
            BY <1>1, <3>1
        <3> QED
            BY <3>1, <3>2, <3>3
    <2> QED
        BY <1>2, <1>3, <2>1, <2>2 DEF Known, Whole
<1>6. At(t, k) \in Alnum
    BY <1>1, <1>4
<1> QED
    BY <1>5, <1>6, TokenNumbers, ReadAs

LEMMA ReadHexadecimal ==
    ASSUME NEW t \in Text, NEW r \in Nat, NEW k \in r + 2..Len(t) - 1,
           At(t, r) = "0", At(t, r + 1) \in {"x", "X"},
           \A j \in r + 2..k : At(t, j) \in hexadecimal, At(t, k + 1) \notin hexadecimal
    PROVE  Read(t, r, Type(3, k))
<1>1. /\ Len(t) \in Nat /\ k \in 0..Len(t) - 1 /\ k \in r + 2..k /\ r + 1 \in r..k
      /\ k \in r..Len(t) - 1 /\ r + 2 \in Nat /\ r \in r..k /\ r + 2 \in r..k /\ k \in r..k
    BY DEF Text
<1>2. SubSeq(Piece(t, r, k), 1, 2) \in {<<"0", "x">>, <<"0", "X">>}
    <2>1. SubSeq(Piece(t, r, k), r - r + 1, (r + 1) - r + 1) = Piece(t, r, r + 1)
        BY <1>1, PieceOfPiece
    <2>2. r - r + 1 = 1 /\ (r + 1) - r + 1 = 2
        OBVIOUS
    <2>3. PICK m \in Nat : m = r + 1 /\ r <= m /\ m < Len(t) /\ m > r /\ m + 1 - r = 2
        BY <1>1
    <2>4. Piece(t, r, m) \in Text /\ Len(Piece(t, r, m)) = m + 1 - r
        BY <2>3, PieceHead
    <2>5. Piece(t, r, m)[1] = At(t, r) /\ Piece(t, r, m)[2] = At(t, r + 1)
        BY <2>3, PieceHead
    <2>6. PICK u \in Text : u = Piece(t, r, r + 1) /\ Len(u) = 2 /\ u[1] = "0" /\ u[2] = At(t, r + 1)
        BY <2>3, <2>4, <2>5
    <2>7. u = <<"0", At(t, r + 1)>>
        BY <2>6 DEF Text
    <2> QED
        BY <2>1, <2>2, <2>6, <2>7
<1>3. Digits(Rest(Piece(t, r, k), 2), hexadecimal)
    <2>1. SubSeq(Piece(t, r, k), (r + 2) - r + 1, k - r + 1) = Piece(t, r + 2, k)
        <3>1. k \in r + 2..k
            BY <1>1
        <3> QED
            BY <1>1, <3>1, PieceOfPiece
    <2>2. Len(Piece(t, r, k)) = k + 1 - r
        BY <1>1, PieceChars
    <2>3. (r + 2) - r + 1 = 2 + 1 /\ k - r + 1 = k + 1 - r
        BY <1>1
    <2>4. Rest(Piece(t, r, k), 2) = Piece(t, r + 2, k)
        BY <2>1, <2>2, <2>3 DEF Rest
    <2>5. Digits(Piece(t, r + 2, k), hexadecimal)
        BY <1>1, PieceDigits
    <2> QED
        BY <2>4, <2>5
<1>4. hexadecimal \subseteq Alnum
    BY Classes
<1>5. ASSUME NEW next, Followed(t, k, next)
      PROVE  Known("hexadecimal integer", Piece(t, r, k), next)
    <2>1. next[1] \notin hexadecimal
        BY <1>1, <1>4, <1>5, FollowedNot
    <2> QED
        BY <1>2, <1>3, <2>1 DEF Known, HexText
<1>6. At(t, k) \in Alnum
    BY <1>1, <1>4
<1> QED
    BY <1>5, <1>6, TokenNumbers, ReadAs

LEMMA ReadFraction ==
    ASSUME NEW t \in Text, NEW r \in Nat, NEW k \in r..Len(t) - 1,
           NEW p \in r + 1..k - 1, At(t, p) = ".",
           \A j \in r..p - 1 : At(t, j) \in decimal,
           \A j \in p + 1..k : At(t, j) \in decimal, At(t, k + 1) \notin decimal,
           ~(At(t, k + 1) = "e" /\ k + 2 < Len(t) /\ Exponent(t, k + 1))
    PROVE  Read(t, r, Type(4, k))
<1>1. Len(t) \in Nat /\ k \in 0..Len(t) - 1 /\ k \in p + 1..k
    BY DEF Text
<1>2. Fraction(Piece(t, r, k))
    BY PieceFraction
<1>3. ASSUME NEW next, Followed(t, k, next) PROVE Known("floating point", Piece(t, r, k), next)
    <2>1. next[1] \notin decimal
        BY <1>1, <1>3, Classes, FollowedNot
    <2>2. ~Powered(next)
        BY <1>1, <1>3, FollowedPower
    <2> QED
        BY <1>2, <2>1, <2>2 DEF Known
<1>4. At(t, k) \in Alnum
    BY <1>1, Classes
<1> QED
    BY <1>3, <1>4, TokenNumbers, ReadAs

LEMMA ReadExponent ==
    ASSUME NEW t \in Text, NEW r \in Nat, NEW k \in r..Len(t) - 1,
           NEW q \in r + 1..k - 1, At(t, q) = "e", Fraction(Piece(t, r, q - 1)),
           At(t, k) \in decimal => At(t, k + 1) \notin decimal
    PROVE  Read(t, r, Type(4, k))
<1>1. Len(t) \in Nat /\ k \in 0..Len(t) - 1
    BY DEF Text
<1>2. Misread(Piece(t, r, k)) \/ Scientific(Piece(t, r, k))
    BY PieceExponent
<1>3. CASE At(t, k) \in decimal
    <2>1. ASSUME NEW next, Followed(t, k, next), Scientific(Piece(t, r, k))
          PROVE  Known("floating point", Piece(t, r, k), next)
        <3>1. next[1] \notin decimal
            BY <1>1, <1>3, <2>1, Classes, FollowedNot
        <3> QED
            BY <2>1, <3>1 DEF Known
    <2>2. At(t, k) \in Alnum
        BY <1>3, Classes
    <2> QED
        BY <1>2, <2>1, <2>2, TokenNumbers, ReadAs
<1>4. CASE At(t, k) \notin decimal
    <2>1. Misread(Piece(t, r, k))
        BY <1>4, PieceExponent
    <2>2. ASSUME NEW e \in k..Len(t) - 1, At(t, e) \notin decimal PROVE Misread(Piece(t, r, e))
        <3>1. e \in r..Len(t) - 1 /\ q \in r + 1..e - 1
            BY <1>1
        <3> QED
            BY <2>2, <3>1, PieceExponent
    <2> QED
        BY <2>1, <2>2, Typing DEF Read, Labelled, Taken
<1> QED
    BY <1>3, <1>4

LEMMA ReadPair ==
    ASSUME NEW t \in Text, NEW r \in Nat, NEW k \in r + 1..Len(t) - 1, NEW num,
           At(t, r) \in Alnum, At(t, r + 1) \notin Alnum, k = r + 1 \/ At(t, r + 1) # "."
    PROVE  Read(t, r, Type(num, k))
<1>1. Len(t) \in Nat
    BY DEF Text
<1>2. Misread(Piece(t, r, k))
    BY MisreadPair
<1>3. ASSUME NEW e \in k..Len(t) - 1, e = k \/ At(t, k) # "." PROVE Misread(Piece(t, r, e))
    <2>1. e \in r + 1..Len(t) - 1
        BY <1>1
    <2>2. e = r + 1 \/ At(t, r + 1) # "."
        BY <1>3
    <2> QED
        BY <2>1, <2>2, MisreadPair
<1> QED
    BY <1>2, <1>3, Typing DEF Read, Labelled, Taken

LEMMA ReadThird ==
    ASSUME NEW t \in Text, NEW r \in Nat, r + 2 < Len(t), NEW num,
           At(t, r) = "0", At(t, r + 1) \in decimal, At(t, r + 2) \notin octal
    PROVE  Read(t, r, Type(num, r + 2))
<1>1. Len(t) \in Nat /\ r + 2 \in r + 2..Len(t) - 1
    BY DEF Text
<1>2. Misread(Piece(t, r, r + 2))
    BY <1>1, MisreadThird
<1>3. ASSUME NEW e \in r + 2..Len(t) - 1, e = r + 2 \/ At(t, r + 2) # ".", At(t, r + 2) \notin decimal
      PROVE  Misread(Piece(t, r, e))
    BY <1>3, MisreadThird
<1>4. decimal \subseteq Alnum
    BY Classes
<1> QED
    BY <1>2, <1>3, <1>4, Typing DEF Read, Labelled, Taken

LEMMA ReadZero ==
    ASSUME NEW t \in Text, NEW r \in 0..Len(t) - 1, At(t, r) = "0", NEW num
    PROVE  /\ Read(t, r, Type(num, r))
           /\ At(t, r + 1) \in {"x", "X"} => Read(t, r, Type(num, r + 1))
BY MisreadZero, Classes, Typing DEF Read, Labelled

-----------------------------------------------------------------------------
(***************************************************************************)
(* The scans.                                                              *)
(***************************************************************************)
LEMMA WordRead ==
    ASSUME NEW t \in Text, NEW r \in 0..Len(t) - 1, At(t, r) \in Alpha
    PROVE  Read(t, r, Word(t, r))
<1>1. Len(t) \in Nat /\ r \in Nat /\ r + 1 \in Nat /\ r + 1 <= Len(t) /\ NUL \notin Alnum
    BY Classes DEF Text
<1>2. PICK end \in Nat : end = Run(t, r + 1, Alnum)
    BY <1>1, RunEnds
<1>3. /\ end >= r + 1 /\ end <= Len(t)
      /\ \A j \in r + 1..end - 1 : At(t, j) \in Alnum
      /\ At(t, end) \notin Alnum
    BY <1>1, <1>2, RunEnds
<1>4. Word(t, r) = Type(0, IF end > r + 1 THEN end - 1 ELSE IF end = Len(t) THEN r ELSE end)
    BY <1>2 DEF Word, Alnum
<1>5. CASE end > r + 1 \/ end = Len(t)
    <2>1. PICK k \in r..Len(t) - 1 : k = end - 1
        BY <1>1, <1>3
    <2>2. Word(t, r) = Type(0, k)
        BY <1>3, <1>4, <1>5, <2>1
    <2>3. \A j \in r..k : At(t, j) \in Alnum
        BY <1>1, <1>3, <2>1, Classes
    <2>4. At(t, k + 1) \notin Alnum
        BY <1>3, <2>1
    <2> QED
        BY <1>1, <2>2, <2>3, <2>4, ReadWord
<1>6. CASE ~(end > r + 1 \/ end = Len(t))
    <2>1. Word(t, r) = Type(0, r + 1) /\ r + 1 \in r + 1..Len(t) - 1 /\ At(t, r + 1) \notin Alnum
        BY <1>1, <1>3, <1>4, <1>6
    <2> QED
        BY <1>1, <2>1, Classes, ReadPair
<1> QED
    BY <1>5, <1>6

LEMMA HexadecimalRead ==
    ASSUME NEW t \in Text, NEW r \in 0..Len(t) - 1, At(t, r) = "0", At(t, r + 1) \in {"x", "X"}
    PROVE  Read(t, r, Hexadecimal(t, r))
<1>1. Len(t) \in Nat /\ r \in Nat /\ r + 2 \in Nat
    BY DEF Text
<1>2. r + 2 <= Len(t)
    <2>1. At(t, r + 1) # NUL
        BY Chars
    <2> QED
        BY <1>1, <2>1, AtNul
<1>3. PICK end \in Nat : end = Run(t, r + 2, hexadecimal)
    BY <1>1, Chars, RunEnds
<1>4. /\ end >= r + 2 /\ end <= Len(t)
      /\ \A j \in r + 2..end - 1 : At(t, j) \in hexadecimal
      /\ At(t, end) \notin hexadecimal
    BY <1>1, <1>2, <1>3, Chars, RunEnds
<1>5. Hexadecimal(t, r) = Type(IF end = Len(t) \/ end > r + 2 THEN 3 ELSE -1, end - 1)
    BY <1>3 DEF Hexadecimal
<1>6. CASE end > r + 2
    <2>1. PICK k \in r + 2..Len(t) - 1 : k = end - 1
        BY <1>1, <1>4, <1>6
    <2>2. Hexadecimal(t, r) = Type(3, k) /\ At(t, k + 1) \notin hexadecimal
        BY <1>4, <1>5, <1>6, <2>1
    <2> QED
        BY <1>1, <1>4, <2>1, <2>2, ReadHexadecimal
<1>7. CASE end = r + 2
    <2>1. end - 1 = r + 1
        BY <1>1, <1>7
    <2> QED
        BY <1>5, <2>1, ReadZero
<1> QED
    BY <1>1, <1>4, <1>6, <1>7

\* A point behind digits, and a digit behind it.
LEMMA FloatRead ==
    ASSUME NEW t \in Text, NEW r \in Nat, NEW k \in r + 1..Len(t) - 1, At(t, k) = ".",
           \A j \in r..k - 1 : At(t, j) \in decimal, At(t, k + 1) \in decimal
    PROVE  Read(t, r, Float(t, k))
<1>1. Len(t) \in Nat /\ k \in Nat /\ k + 1 \in Nat /\ k + 1 <= Len(t) /\ NUL \notin decimal
    BY Chars DEF Text
<1>2. PICK end \in Nat : end = Run(t, k + 1, decimal)
    BY <1>1, RunEnds
<1>3. /\ end >= k + 1 /\ end <= Len(t)
      /\ \A j \in k + 1..end - 1 : At(t, j) \in decimal
      /\ At(t, end) \notin decimal
    BY <1>1, <1>2, RunEnds
<1>4. end > k + 1
    BY <1>1, <1>3
<1>5. end - 1 \in r..Len(t) - 1 /\ k \in r + 1..(end - 1) - 1
    BY <1>1, <1>3, <1>4
<1>6. Float(t, k) = Type(4, IF At(t, end) = "e" /\ end + 1 < Len(t) /\ Exponent(t, end)
                            THEN Run(t, end + 2, decimal) - 1 ELSE end - 1)
    BY <1>2, <1>4 DEF Float
<1>7. CASE ~(At(t, end) = "e" /\ end + 1 < Len(t) /\ Exponent(t, end))
    <2>1. Float(t, k) = Type(4, end - 1) /\ (end - 1) + 1 = end /\ (end - 1) + 2 = end + 1
        BY <1>1, <1>6, <1>7
    <2> QED
        BY <1>3, <1>5, <1>7, <2>1, ReadFraction
<1>8. CASE At(t, end) = "e" /\ end + 1 < Len(t) /\ Exponent(t, end)
    <2>1. Fraction(Piece(t, r, end - 1))
        BY <1>3, <1>5, PieceFraction
    <2>2. end + 2 \in Nat /\ end + 2 <= Len(t)
        BY <1>1, <1>8
    <2>3. PICK more \in Nat : more = Run(t, end + 2, decimal)
        BY <1>1, <2>2, RunEnds
    <2>4. more >= end + 2 /\ more <= Len(t) /\ At(t, more) \notin decimal
        BY <1>1, <2>2, <2>3, RunEnds
    <2>5. PICK last \in r..Len(t) - 1 : last = more - 1 /\ end \in r + 1..last - 1
        BY <1>1, <1>3, <2>4
    <2>6. Float(t, k) = Type(4, last) /\ At(t, last + 1) \notin decimal
        BY <1>6, <1>8, <2>3, <2>4, <2>5
    <2> QED
        BY <1>8, <2>1, <2>5, <2>6, ReadExponent
<1> QED
    BY <1>7, <1>8

\* The same behind a 0 and a digit.
LEMMA OctalFloatRead ==
    ASSUME NEW t \in Text, NEW r \in Nat, NEW k \in r + 1..Len(t) - 1, At(t, k) = ".",
           \A j \in r..k - 1 : At(t, j) \in decimal, At(t, k + 1) \in decimal,
           OctalFloat(t, k).last < Len(t)
    PROVE  Read(t, r, OctalFloat(t, k))
<1>1. Len(t) \in Nat /\ k \in Nat /\ k + 1 \in Nat /\ k + 1 <= Len(t) /\ NUL \notin decimal
    BY Chars DEF Text
<1>2. PICK end \in Nat : end = Run(t, k + 1, decimal)
    BY <1>1, RunEnds
<1>3. /\ end >= k + 1 /\ end <= Len(t)
      /\ \A j \in k + 1..end - 1 : At(t, j) \in decimal
      /\ At(t, end) \notin decimal
    BY <1>1, <1>2, RunEnds
<1>4. end > k + 1
    BY <1>1, <1>3
<1>5. end - 1 \in r..Len(t) - 1 /\ k \in r + 1..(end - 1) - 1 /\ end + 2 \in Nat
    BY <1>1, <1>3, <1>4
<1>6. PICK digits \in Nat : digits = Run(t, end + 2, decimal)
    BY <1>1, <1>5, RunEnds
<1>7. /\ digits >= end + 2 /\ At(t, digits) \notin decimal
      /\ \A j \in end + 2..digits - 1 : At(t, j) \in decimal
    BY <1>1, <1>5, <1>6, RunEnds
<1>8. PICK past \in Nat : past = IF digits > end + 2 THEN digits - 1 ELSE end + 2
    BY <1>5, <1>7
<1> DEFINE stops == {j \in past..Len(t) :
                        /\ At(t, j) \notin decimal
                        /\ At(t, j) = "." => ~strchr(decimal, At(t, j + 1))}
<1>9. OctalFloat(t, k) =
        Type(4, IF At(t, end) = "e" /\ Exponent(t, end)
                THEN IF At(t, past) = "." THEN Min(stops) ELSE past
                ELSE end - 1)
    BY <1>2, <1>6, <1>8 DEF OctalFloat
<1>10. CASE ~(At(t, end) = "e" /\ Exponent(t, end))
    <2>1. OctalFloat(t, k) = Type(4, end - 1) /\ (end - 1) + 1 = end
        BY <1>1, <1>9, <1>10
    <2> QED
        BY <1>3, <1>5, <1>10, <2>1, ReadFraction
<1>11. CASE At(t, end) = "e" /\ Exponent(t, end)
    <2>1. Fraction(Piece(t, r, end - 1))
        BY <1>3, <1>5, PieceFraction
    <2>2. past >= end + 2 /\ (At(t, past) \in decimal => past = digits - 1)
        BY <1>1, <1>7, <1>8
    <2>3. CASE At(t, past) # "."
        <3>1. OctalFloat(t, k) = Type(4, past)
            BY <1>9, <1>11, <2>3
        <3>2. past < Len(t)
            BY <3>1, Typing
        <3>3. past \in r..Len(t) - 1 /\ end \in r + 1..past - 1
            BY <1>1, <1>3, <2>2, <3>2
        <3>4. At(t, past) \in decimal => At(t, past + 1) \notin decimal
            BY <1>7, <2>2
        <3> QED
            BY <1>11, <2>1, <3>1, <3>3, <3>4, ReadExponent
    <2>4. CASE At(t, past) = "."
        <3>1. past < Len(t)
            BY <1>1, <2>4, AtNul, Chars
        <3>2. stops \in SUBSET Nat /\ \A j \in stops : j \in past..Len(t) /\ At(t, j) \notin decimal
            BY <1>1
        <3>3. Len(t) \in stops
            <4>1. At(t, Len(t)) = NUL
                BY <1>1, AtNul
            <4> QED
                BY <1>1, <3>1, <4>1, Chars
        <3> HIDE DEF stops
        <3>4. PICK last \in stops : last = Min(stops)
            BY <3>2, <3>3, MinIs
        <3>5. OctalFloat(t, k) = Type(4, last)
            BY <1>9, <1>11, <2>4, <3>4
        <3>6. last < Len(t) /\ last \in past..Len(t) /\ At(t, last) \notin decimal
            BY <3>2, <3>4, <3>5, Typing
        <3>7. last \in r..Len(t) - 1 /\ end \in r + 1..last - 1
            BY <1>1, <1>3, <2>2, <3>6
        <3> QED
            BY <1>11, <2>1, <3>5, <3>6, <3>7, ReadExponent
    <2> QED
        BY <2>3, <2>4
<1> QED
    BY <1>10, <1>11

LEMMA ZeroFirstRead ==
    ASSUME NEW t \in Text, NEW r \in 0..Len(t) - 1, At(t, r) = "0",
           strchr(octal, At(t, r + 1)), ZeroFirst(t, r).last < Len(t)
    PROVE  Read(t, r, ZeroFirst(t, r))
<1>1. Len(t) \in Nat /\ r \in Nat /\ r < Len(t) /\ r \in Int /\ NUL \notin octal /\ NUL \notin decimal
    BY Chars DEF Text
<1>2. PICK start \in Nat : start = IF r + 2 < Len(t) THEN r + 2 ELSE r + 1
    BY <1>1
<1>3. PICK endO \in Nat : endO = Run(t, start, octal)
    BY <1>1, RunEnds
<1>4. /\ endO >= start /\ endO <= Len(t) /\ At(t, endO) \notin octal
      /\ \A j \in start..endO - 1 : At(t, j) \in octal
    <2>1. start <= Len(t)
        BY <1>1, <1>2
    <2> QED
        BY <1>1, <1>3, <2>1, RunEnds
<1>5. PICK lastO \in Nat : lastO = IF endO > start THEN endO - 1 ELSE start
    BY <1>4
<1>6. PICK endD \in Nat : endD = Run(t, lastO, decimal)
    BY <1>1, RunEnds
<1>7. PICK lastD \in Nat : lastD = IF endD > lastO THEN endD - 1 ELSE lastO
    BY <1>6
<1> DEFINE next == At(t, lastO + 1)
           isOct == (endO > start /\ endO = Len(t)) \/ next \in Alpha \/ strchr(sign, next)
<1>8. ZeroFirst(t, r) =
        IF isOct THEN Type(2, lastO)
        ELSE IF lastD + 1 = Len(t) THEN Type(1, lastD)
        ELSE IF At(t, lastD) = "." /\ strchr(decimal, At(t, lastD + 1)) THEN OctalFloat(t, lastD)
        ELSE Type(IF endD > lastO THEN 1 ELSE IF endO > start THEN 2 ELSE -1, lastD)
    BY <1>2, <1>3, <1>5, <1>6, <1>7 DEF ZeroFirst
<1>9. CASE r + 1 = Len(t)
    <2>1. start = Len(t) /\ lastO = Len(t)
        BY <1>1, <1>2, <1>4, <1>5, <1>9
    <2>2. next = NUL
        BY <1>1, <2>1, AtNul
    <2>3. isOct
        BY <2>2 DEF strchr
    <2>4. ZeroFirst(t, r) = Type(2, Len(t))
        BY <1>8, <2>1, <2>3
    <2>5. FALSE
        BY <1>1, <2>4, Typing
    <2> QED
        BY <2>5
<1>10. ASSUME r + 1 # Len(t) PROVE At(t, r + 1) \in octal /\ At(t, r) \in octal /\ r + 1 < Len(t)
    <2>1. At(t, r + 1) # NUL /\ r + 1 < Len(t)
        BY <1>1, <1>10, AtNul
    <2> QED
        BY <2>1, Chars DEF strchr
<1>11. CASE r + 2 = Len(t)
    <2>1. start = r + 1 /\ At(t, r + 1) \in octal /\ At(t, r) \in octal
        BY <1>1, <1>2, <1>10, <1>11
    <2>2. endO = r + 2 /\ lastO = r + 1
        BY <1>1, <1>4, <1>5, <1>11, <2>1
    <2>3. ZeroFirst(t, r) = Type(2, r + 1)
        BY <1>1, <1>8, <1>11, <2>1, <2>2
    <2>4. PICK k \in r..Len(t) - 1 : k = r + 1
        BY <1>1, <1>11
    <2>5. \A j \in r..k : At(t, j) \in octal
        BY <1>1, <1>4, <2>1, <2>2, <2>4
    <2>6. At(t, k + 1) = NUL /\ NUL # "."
        BY <1>1, <1>11, <2>4, AtNul, Classes
    <2> QED
        BY <1>1, <2>3, <2>4, <2>5, <2>6, ReadOctal
<1>12. CASE r + 2 < Len(t)
    <2>1. start = r + 2 /\ At(t, r + 1) \in octal /\ At(t, r) \in octal /\ octal \subseteq decimal
        BY <1>1, <1>2, <1>10, <1>12, Chars
    <2>2. /\ endD >= lastO /\ endD <= Len(t) /\ At(t, endD) \notin decimal
          /\ \A j \in lastO..endD - 1 : At(t, j) \in decimal
        <3>1. lastO <= Len(t)
            BY <1>1, <1>4, <1>5, <1>12, <2>1
        <3> QED
            BY <1>1, <1>6, <3>1, RunEnds
    <2>3. CASE endO > r + 2
        <3>1. PICK k \in r..Len(t) - 1 : k = endO - 1 /\ lastO = k
            BY <1>1, <1>4, <1>5, <2>1, <2>3
        <3>2. \A j \in r..k : At(t, j) \in octal
            BY <1>1, <1>4, <2>1, <3>1
        <3>3. CASE isOct
            <4>1. ZeroFirst(t, r) = Type(2, k) /\ k > r + 1
                BY <1>1, <1>4, <1>8, <2>1, <2>3, <3>1, <3>3
            <4>2. At(t, k + 1) \notin decimal
                <5>1. endO = Len(t) => next = NUL
                    BY <1>1, <3>1, AtNul
                <5>2. next \in Alpha \/ next \in sign \/ next = NUL
                    BY <3>3, <5>1 DEF strchr
                <5>3. sign \cap decimal = {} /\ Alpha \cap decimal = {}
                    BY DEF sign, Alpha, Lower, Upper, decimal, octal
                <5> QED
                    BY <1>1, <3>1, <5>2, <5>3
            <4> QED
                BY <1>1, <3>2, <4>1, <4>2, ReadOctal
        <3>4. CASE ~isOct
            <4>1. At(t, k) \in octal /\ endD > k
                <5>1. k \in r..k
                    BY <1>1
                <5> QED
                    BY <1>1, <2>1, <2>2, <3>1, <3>2, <5>1
            <4>2. PICK m \in r..Len(t) - 1 : m = endD - 1 /\ lastD = m /\ k <= m
                BY <1>1, <1>7, <2>2, <3>1, <4>1
            <4>3. \A j \in r..m : At(t, j) \in decimal
                BY <1>1, <2>1, <2>2, <3>1, <3>2, <4>2
            <4>4. At(t, m) # "." /\ At(t, m + 1) \notin decimal /\ m > r + 1
                <5>1. m \in r..m /\ m > r + 1
                    BY <1>1, <2>1, <2>3, <3>1, <4>2
                <5> QED
                    BY <1>1, <2>2, <4>2, <4>3, <5>1, Chars
            <4>5. ZeroFirst(t, r) = Type(1, m)
                <5> HIDE DEF isOct
                <5> QED
                    BY <1>8, <3>1, <3>4, <4>1, <4>2, <4>4
            <4> QED
                BY <1>1, <4>3, <4>4, <4>5, ReadDecimal
        <3> QED
            BY <3>3, <3>4
    <2>4. CASE endO = r + 2
        <3>1. lastO = r + 2 /\ At(t, r + 2) \notin octal
            BY <1>4, <1>5, <2>1, <2>4
        <3>2. \A num : Read(t, r, Type(num, r + 2))
            BY <1>1, <1>12, <2>1, <3>1, ReadThird
        <3>3. CASE isOct
            BY <1>8, <3>1, <3>2, <3>3
        <3>4. CASE ~isOct /\ endD > r + 2
            <4>1. PICK m \in r..Len(t) - 1 : m = endD - 1 /\ lastD = m /\ r + 2 <= m
                BY <1>1, <1>7, <2>2, <3>1, <3>4
            <4>2. \A j \in r..m : At(t, j) \in decimal
                BY <1>1, <2>1, <2>2, <3>1, <4>1
            <4>3. At(t, m) # "." /\ At(t, m + 1) \notin decimal /\ m > r + 1
                <5>1. m \in r..m /\ m > r + 1
                    BY <1>1, <4>1
                <5> QED
                    BY <1>1, <2>2, <4>1, <4>2, <5>1, Chars
            <4>4. ZeroFirst(t, r) = Type(1, m)
                <5> HIDE DEF isOct
                <5> QED
                    BY <1>8, <3>1, <3>4, <4>1, <4>3
            <4> QED
                BY <1>1, <4>2, <4>3, <4>4, ReadDecimal
        <3>5. CASE ~isOct /\ endD = r + 2
            <4>1. lastD = r + 2
                BY <1>7, <3>1, <3>5
            <4>2. CASE /\ lastD + 1 # Len(t) /\ At(t, lastD) = "."
                       /\ strchr(decimal, At(t, lastD + 1))
                <5>1. ZeroFirst(t, r) = OctalFloat(t, r + 2)
                    <6> HIDE DEF isOct
                    <6> QED
                        BY <1>8, <3>5, <4>1, <4>2
                <5>2. PICK k \in r + 1..Len(t) - 1 : k = r + 2 /\ At(t, k) = "." /\ k + 1 < Len(t)
                    BY <1>1, <1>12, <4>1, <4>2
                <5>3. At(t, k + 1) \in decimal
                    <6>1. At(t, k + 1) # NUL
                        BY <1>1, <5>2, AtNul
                    <6> QED
                        BY <4>1, <4>2, <5>2, <6>1 DEF strchr
                <5>4. \A j \in r..k - 1 : At(t, j) \in decimal
                    BY <1>1, <2>1, <5>2
                <5> QED
                    BY <1>1, <5>1, <5>2, <5>3, <5>4, OctalFloatRead
            <4>3. CASE ~(/\ lastD + 1 # Len(t) /\ At(t, lastD) = "."
                         /\ strchr(decimal, At(t, lastD + 1)))
                <5>1. \E num : ZeroFirst(t, r) = Type(num, r + 2)
                    <6> HIDE DEF isOct
                    <6> QED
                        BY <1>8, <3>5, <4>1, <4>3
                <5> QED
                    BY <3>2, <5>1
            <4> QED
                BY <4>2, <4>3
        <3> HIDE DEF isOct
        <3> QED
            BY <2>2, <3>1, <3>3, <3>4, <3>5
    <2> QED
        BY <1>4, <2>1, <2>3, <2>4
<1> QED
    BY <1>1, <1>9, <1>11, <1>12

LEMMA ZeroOtherRead ==
    ASSUME NEW t \in Text, NEW r \in 0..Len(t) - 1, At(t, r) = "0",
           ~(strchr(octal, At(t, r + 1)) /\ Len(t) > 1), ZeroOther(t, r).last < Len(t)
    PROVE  Read(t, r, ZeroOther(t, r))
<1>1. Len(t) \in Nat /\ r \in Nat /\ r < Len(t) /\ r \in Int /\ NUL \notin decimal
    BY Chars DEF Text
<1>2. PICK start \in Nat : start = IF r + 2 < Len(t) THEN r + 2 ELSE r + 1
    BY <1>1
<1>3. PICK end \in Nat : end = Run(t, start, decimal)
    BY <1>1, RunEnds
<1>4. /\ end >= start /\ end <= Len(t) /\ At(t, end) \notin decimal
      /\ \A j \in start..end - 1 : At(t, j) \in decimal
    <2>1. start <= Len(t)
        BY <1>1, <1>2
    <2> QED
        BY <1>1, <1>3, <2>1, RunEnds
<1>5. PICK last \in Nat : last = IF end > start THEN end - 1 ELSE start
    BY <1>4
<1>6. PICK place \in Nat : place = IF strchr(decimal, At(t, r + 1)) THEN last ELSE r + 1
    BY <1>1
<1>7. ZeroOther(t, r) =
        IF strchr(decimal, At(t, r + 1)) /\ (end > start \/ last + 1 = Len(t)) THEN Type(1, last)
        ELSE IF At(t, place) = "." /\ strchr(decimal, At(t, place + 1)) THEN Float(t, place)
        ELSE IF Len(t) = 1 THEN Type(1, 0)
        ELSE Type(-1, IF strchr(decimal, At(t, r + 1)) THEN place ELSE r)
    BY <1>2, <1>3, <1>5, <1>6 DEF ZeroOther
<1>8. \A num : Read(t, r, Type(num, r))
    BY ReadZero
<1>9. At(t, r) \in decimal /\ At(t, r) \in Alnum
    BY Classes
<1>10. CASE Len(t) = 1
    <2>1. At(t, r + 1) = NUL /\ At(t, place) # "." /\ r = 0 /\ ~(end > start) /\ last + 1 # Len(t)
        <3>1. r = 0 /\ start = 1 /\ end = 1 /\ last = 1
            BY <1>1, <1>2, <1>4, <1>5, <1>10
        <3>2. place = 1
            BY <1>6, <3>1
        <3>3. At(t, 1) = NUL /\ r + 1 = 1
            <4>1. 1 \notin 0..Len(t) - 1
                BY <1>10
            <4> QED
                BY <3>1, <4>1 DEF At
        <3>4. At(t, place) # "." /\ At(t, r + 1) = NUL
            BY <3>2, <3>3, Classes
        <3> QED
            BY <1>1, <1>10, <3>1, <3>4
    <2>2. ZeroOther(t, r) = Type(1, r)
        BY <1>7, <1>10, <2>1
    <2> QED
        BY <1>8, <2>2
<1>11. CASE Len(t) # 1
    <2>1. ~strchr(octal, At(t, r + 1)) /\ Len(t) > 1
        <3>1. \A m \in Nat : r < m /\ m # 1 => m > 1
            BY <1>1
        <3>2. Len(t) > 1
            BY <1>1, <1>11, <3>1
        <3> QED
            BY <3>2
    <2>2. At(t, r + 1) # NUL /\ At(t, r + 1) \notin octal /\ r + 1 < Len(t)
        BY <1>1, <2>1, AtNul DEF strchr
    <2>3. CASE At(t, r + 1) \in decimal
        <3>1. strchr(decimal, At(t, r + 1)) /\ place = last
            BY <1>6, <2>3 DEF strchr
        <3>2. CASE end > start
            <4>1. PICK k \in r..Len(t) - 1 : k = end - 1 /\ last = k /\ r + 1 <= k
                BY <1>1, <1>2, <1>4, <1>5, <3>2
            <4>2. ZeroOther(t, r) = Type(1, k)
                BY <1>7, <3>1, <3>2, <4>1
            <4>3. \A j \in r..k : At(t, j) \in decimal
                <5>1. start = r + 1 \/ start = r + 2
                    BY <1>2
                <5> QED
                    BY <1>1, <1>4, <1>9, <2>3, <4>1, <5>1
            <4>4. At(t, k + 1) \notin decimal
                BY <1>4, <4>1
            <4>5. k > r + 1 \/ At(t, k + 1) = NUL
                <5>1. k > r + 1 \/ k + 1 = Len(t)
                    BY <1>1, <1>2, <1>4, <3>2, <4>1
                <5> QED
                    BY <1>1, <5>1, AtNul
            <4> QED
                BY <1>1, <4>2, <4>3, <4>4, <4>5, Classes, ReadDecimal
        <3>3. CASE ~(end > start)
            <4>1. end = start /\ last = start
                BY <1>4, <1>5, <3>3
            <4>2. start # r + 1
                BY <1>4, <2>3, <4>1
            <4>3. start = r + 2 /\ r + 2 < Len(t) /\ At(t, r + 2) \notin decimal
                BY <1>2, <1>4, <4>1, <4>2
            <4>4. \A num : Read(t, r, Type(num, r + 2))
                <5>1. At(t, r + 2) \notin octal
                    BY <4>3, Classes
                <5> QED
                    BY <1>1, <2>3, <4>3, <5>1, ReadThird
            <4>5. CASE ~(last + 1 = Len(t)) /\ At(t, place) = "." /\ strchr(decimal, At(t, place + 1))
                <5>1. ZeroOther(t, r) = Float(t, r + 2)
                    BY <1>7, <3>1, <3>3, <4>1, <4>3, <4>5
                <5>2. PICK k \in r + 1..Len(t) - 1 : k = r + 2 /\ At(t, k) = "." /\ k + 1 < Len(t)
                    BY <1>1, <3>1, <4>1, <4>3, <4>5
                <5>3. At(t, k + 1) \in decimal
                    <6>1. At(t, k + 1) # NUL
                        BY <1>1, <5>2, AtNul
                    <6> QED
                        BY <3>1, <4>1, <4>3, <4>5, <5>2, <6>1 DEF strchr
                <5>4. \A j \in r..k - 1 : At(t, j) \in decimal
                    BY <1>1, <1>9, <2>3, <5>2
                <5> QED
                    BY <1>1, <5>1, <5>2, <5>3, <5>4, FloatRead
            <4>6. CASE ~(/\ ~(last + 1 = Len(t)) /\ At(t, place) = "."
                         /\ strchr(decimal, At(t, place + 1)))
                <5>1. \E num : ZeroOther(t, r) = Type(num, r + 2)
                    BY <1>7, <1>11, <3>1, <3>3, <4>1, <4>3, <4>6
                <5> QED
                    BY <4>4, <5>1
            <4> QED
                BY <4>5, <4>6
        <3> QED
            BY <3>2, <3>3
    <2>4. CASE At(t, r + 1) \notin decimal
        <3>1. ~strchr(decimal, At(t, r + 1)) /\ place = r + 1
            BY <1>6, <2>2, <2>4 DEF strchr
        <3>2. CASE At(t, place) = "." /\ strchr(decimal, At(t, place + 1))
            <4>1. ZeroOther(t, r) = Float(t, r + 1) /\ At(t, r + 1) = "."
                BY <1>7, <3>1, <3>2
            <4>2. PICK k \in r + 1..Len(t) - 1 : k = r + 1 /\ At(t, k) = "."
                BY <1>1, <2>2, <4>1
            <4>3. CASE At(t, k + 1) \in decimal
                <5>1. \A j \in r..k - 1 : At(t, j) \in decimal
                    BY <1>1, <1>9, <4>2
                <5> QED
                    BY <1>1, <4>1, <4>2, <4>3, <5>1, FloatRead
            <4>4. CASE At(t, k + 1) \notin decimal
                <5>1. At(t, k + 1) = NUL
                    BY <3>1, <3>2, <4>2, <4>4 DEF strchr
                <5>2. k + 1 = Len(t)
                    BY <1>1, <4>2, <5>1, AtNul
                <5>3. PICK stop \in Nat : stop = Run(t, k + 1, decimal) /\ stop >= k + 1 /\ stop <= Len(t)
                    BY <1>1, <4>2, <5>2, RunEnds
                <5>4. stop = k + 1
                    BY <1>1, <4>2, <5>2, <5>3
                <5>5. Float(t, k) = Type(4, k)
                    <6>1. ~(stop > k + 1) /\ stop - 1 = k
                        BY <1>1, <4>2, <5>4
                    <6> QED
                        BY <5>3, <6>1 DEF Float
                <5> QED
                    BY <1>1, <1>9, <4>1, <4>2, <5>5, Classes, ReadPair
            <4> QED
                BY <4>3, <4>4
        <3>3. CASE ~(At(t, place) = "." /\ strchr(decimal, At(t, place + 1)))
            <4>1. ZeroOther(t, r) = Type(-1, r)
                BY <1>7, <1>11, <3>1, <3>3
            <4> QED
                BY <1>8, <4>1
        <3> QED
            BY <3>2, <3>3
    <2> QED
        BY <2>3, <2>4
<1> QED
    BY <1>10, <1>11

LEMMA DecimalRead ==
    ASSUME NEW t \in Text, NEW r \in 0..Len(t) - 1, At(t, r) \in decimal
    PROVE  Read(t, r, Decimal(t, r))
<1>1. /\ Len(t) \in Nat /\ r \in Nat /\ r < Len(t) /\ r \in Int /\ NUL \notin decimal
      /\ At(t, r) \in Alnum /\ At(t, r) # "."
    BY Chars, Classes DEF Text
<1>2. PICK end \in Nat : end = Run(t, r + 1, decimal)
    BY <1>1, RunEnds
<1>3. /\ end >= r + 1 /\ end <= Len(t) /\ At(t, end) \notin decimal
      /\ \A j \in r + 1..end - 1 : At(t, j) \in decimal
    <2>1. r + 1 \in Nat /\ r + 1 <= Len(t)
        BY <1>1
    <2> QED
        BY <1>1, <1>2, <2>1, RunEnds
<1>4. PICK last \in Nat :
        last = IF end > r + 1 THEN end - 1 ELSE IF r + 1 = Len(t) THEN r ELSE r + 1
    BY <1>1, <1>3
<1> DEFINE next == At(t, last + 1)
<1>5. PICK place \in Nat : place = IF next = "." /\ At(t, last) # "." THEN last + 1 ELSE last
    OBVIOUS
<1>6. Decimal(t, r) =
        IF At(t, last) \in Alpha THEN Type(1, last - 1)
        ELSE IF next \in Alpha \/ last + 1 = Len(t) \/ (end > r + 1 /\ next # ".") THEN Type(1, last)
        ELSE IF At(t, place) # "." THEN Type(-1, last)
        ELSE IF At(t, place + 1) \in decimal THEN Float(t, place)
        ELSE Type(1, place - 1)
    BY <1>2, <1>4, <1>5 DEF Decimal
\* As many digits as there are, or those and a fraction.
<1>7. ASSUME NEW k \in r..Len(t) - 1, k = end - 1,
             ~(At(t, end) = "." /\ At(t, end + 1) \in decimal)
      PROVE  Read(t, r, Type(1, k))
    <2>1. \A j \in r..k : At(t, j) \in decimal
        BY <1>1, <1>3, <1>7
    <2>2. At(t, k + 1) \notin decimal /\ k + 1 = end /\ k + 2 = end + 1
        BY <1>3, <1>7
    <2> QED
        BY <1>1, <1>7, <2>1, <2>2, ReadDecimal
<1>8. ASSUME At(t, end) = ".", At(t, end + 1) \in decimal PROVE Read(t, r, Float(t, end))
    <2>1. end < Len(t)
        BY <1>1, <1>8, AtNul, Classes
    <2>2. end \in r + 1..Len(t) - 1 /\ \A j \in r..end - 1 : At(t, j) \in decimal
        BY <1>1, <1>3, <2>1
    <2> QED
        BY <1>1, <1>8, <2>2, FloatRead
<1>9. CASE end > r + 1
    <2>1. PICK k \in r..Len(t) - 1 : k = end - 1 /\ last = k /\ k + 1 = end
        BY <1>1, <1>3, <1>4, <1>9
    <2>2. At(t, k) \in decimal
        <3>1. k \in r + 1..end - 1
            BY <1>1, <1>9, <2>1
        <3> QED
            BY <1>3, <3>1
    <2>3. At(t, last) \notin Alpha /\ At(t, last) # "." /\ next = At(t, end)
        BY <2>1, <2>2, Chars
    <2>4. CASE next \in Alpha \/ last + 1 = Len(t) \/ next # "."
        <3>1. Decimal(t, r) = Type(1, k)
            BY <1>6, <1>9, <2>1, <2>3, <2>4
        <3>2. At(t, end) # "."
            <4>1. last + 1 = Len(t) => next = NUL
                BY <1>1, AtNul
            <4> QED
                BY <2>3, <2>4, <4>1, Chars, Classes
        <3> QED
            BY <1>7, <2>1, <3>1, <3>2
    <2>5. CASE ~(next \in Alpha \/ last + 1 = Len(t) \/ next # ".")
        <3>1. place = end /\ At(t, place) = "." /\ place - 1 = k
            BY <1>1, <1>5, <2>1, <2>3, <2>5
        <3>2. Decimal(t, r) = IF At(t, end + 1) \in decimal THEN Float(t, end) ELSE Type(1, k)
            BY <1>6, <2>3, <2>5, <3>1
        <3> QED
            BY <1>7, <1>8, <2>1, <3>1, <3>2
    <2> QED
        BY <2>4, <2>5
<1>10. CASE end = r + 1 /\ r + 1 = Len(t)
    <2>1. last = r /\ At(t, r) \notin Alpha /\ last + 1 = Len(t)
        BY <1>1, <1>4, <1>10, Chars
    <2>2. Decimal(t, r) = Type(1, r)
        BY <1>6, <2>1
    <2>3. r \in r..Len(t) - 1 /\ r = end - 1
        BY <1>1, <1>10
    <2>4. At(t, end) # "."
        BY <1>1, <1>10, AtNul, Classes
    <2> QED
        BY <1>7, <2>2, <2>3, <2>4
<1>11. CASE end = r + 1 /\ r + 1 < Len(t)
    <2>1. /\ last = r + 1 /\ At(t, r + 1) \notin decimal /\ r + 1 \in r + 1..Len(t) - 1
          /\ r \in r..Len(t) - 1 /\ r = end - 1 /\ last - 1 = r /\ ~(end > r + 1)
        BY <1>1, <1>3, <1>4, <1>11
    <2>2. CASE At(t, r + 1) \in Alpha
        <3>1. Decimal(t, r) = Type(1, r)
            BY <1>6, <2>1, <2>2
        <3>2. At(t, end) # "."
            BY <1>11, <2>2, Classes
        <3> QED
            BY <1>7, <2>1, <3>1, <3>2
    <2>3. CASE At(t, r + 1) \notin Alpha
        <3>1. At(t, r + 1) \notin Alnum
            BY <2>1, <2>3 DEF Alnum
        <3>2. \A num : Read(t, r, Type(num, r + 1))
            BY <1>1, <2>1, <3>1, ReadPair
        <3>3. CASE next \in Alpha \/ last + 1 = Len(t) \/ At(t, place) # "."
            <4>1. \E num : Decimal(t, r) = Type(num, r + 1)
                BY <1>6, <2>1, <2>3, <3>3
            <4> QED
                BY <3>2, <4>1
        <3>4. CASE ~(next \in Alpha \/ last + 1 = Len(t) \/ At(t, place) # ".") /\ At(t, r + 1) = "."
            <4>1. place = end /\ place - 1 = r
                BY <1>1, <1>5, <2>1, <3>4
            <4>2. Decimal(t, r) = IF At(t, end + 1) \in decimal THEN Float(t, end) ELSE Type(1, r)
                BY <1>6, <2>1, <2>3, <3>4, <4>1
            <4> QED
                BY <1>7, <1>8, <2>1, <3>4, <4>1, <4>2
        <3>5. CASE ~(next \in Alpha \/ last + 1 = Len(t) \/ At(t, place) # ".") /\ At(t, r + 1) # "."
            <4>1. place = r + 2 /\ At(t, place) = "."
                BY <1>1, <1>5, <2>1, <3>5
            <4>2. place \in 0..Len(t) - 1
                BY <1>1, <4>1, AtNul, Classes
            <4>3. Float(t, place).num = 4 /\ Float(t, place).last \in place..Len(t) - 1
                BY <4>2, FloatInside
            <4>4. PICK k \in r + 1..Len(t) - 1 : Float(t, place).last = k
                BY <1>1, <4>1, <4>3
            <4>5. Float(t, place) = Type(4, k)
                BY <4>3, <4>4 DEF Float, Type
            <4>6. Decimal(t, r) = Type(4, k) \/ Decimal(t, r) = Type(1, r + 1)
                <5>1. place - 1 = r + 1
                    BY <1>1, <4>1
                <5> QED
                    BY <1>6, <2>1, <2>3, <3>5, <4>1, <4>5, <5>1
            <4>7. Read(t, r, Type(4, k))
                BY <1>1, <3>1, <3>5, ReadPair
            <4> QED
                BY <3>2, <4>6, <4>7
        <3> QED
            BY <3>3, <3>4, <3>5
    <2> QED
        BY <2>2, <2>3
<1> QED
    BY <1>1, <1>3, <1>9, <1>10, <1>11

LEMMA ScanRead ==
    ASSUME NEW t \in Text, NEW r \in 0..Len(t) - 1, Scan(t, r).last < Len(t)
    PROVE  Read(t, r, Scan(t, r))
<1>1. CASE At(t, r) \in Alpha
    BY <1>1, WordRead DEF Scan
<1>2. CASE At(t, r) = "0"
    <2>1. Scan(t, r) = Zero(t, r)
        BY <1>2, Chars DEF Scan
    <2>2. CASE At(t, r + 1) \in {"x", "X"}
        BY <1>2, <2>1, <2>2, HexadecimalRead DEF Zero
    <2>3. CASE At(t, r + 1) \notin {"x", "X"} /\ strchr(octal, At(t, r + 1)) /\ Len(t) > 1
        <3>1. Zero(t, r) = ZeroFirst(t, r)
            BY <2>3 DEF Zero
        <3> QED
            BY <1>2, <2>1, <2>3, <3>1, ZeroFirstRead
    <2>4. CASE At(t, r + 1) \notin {"x", "X"} /\ ~(strchr(octal, At(t, r + 1)) /\ Len(t) > 1)
        <3>1. Zero(t, r) = ZeroOther(t, r)
            BY <2>4 DEF Zero
        <3> QED
            BY <1>2, <2>1, <2>4, <3>1, ZeroOtherRead
    <2> QED
        BY <2>2, <2>3, <2>4
<1>3. CASE At(t, r) \notin Alpha /\ At(t, r) # "0" /\ At(t, r) \in decimal
    BY <1>3, DecimalRead DEF Scan
<1>4. CASE At(t, r) \notin Alpha /\ At(t, r) # "0" /\ At(t, r) \notin decimal
    <2>1. Scan(t, r) = Type(-1, r)
        BY <1>4 DEF Scan
    <2> QED
        BY <1>4, <2>1 DEF Read, Alnum
<1> QED
    BY <1>1, <1>2, <1>3, <1>4

-----------------------------------------------------------------------------
(***************************************************************************)
(* The operators.                                                          *)
(***************************************************************************)
\* An operator has no letters and digits, no point in front of others, and no more than
\* three characters.
LEMMA OperatorOne == \A c : <<c>> \in DOMAIN Operators1 => c \notin Alnum
<1>1. \A c : <<c>> \in DOMAIN Operators1 =>
          c \in {"(", ")", "[", "]", ".", COMMA, "!", "~", "^", "|", "+", "/", "?", ":", "<",
                 ">", "=", "&", "-", "*"}
    BY DEF Operators1, Table
<1>2. COMMA \notin Alpha \cup decimal
    BY Zenon DEF Alpha, Lower, Upper, decimal, octal, COMMA
<1>3. {"(", ")", "[", "]", ".", "!", "~", "^", "|", "+", "/", "?", ":", "<",
       ">", "=", "&", "-", "*"} \cap Alnum = {}
    BY DEF Alnum, Alpha, Lower, Upper, decimal, octal
<1> QED
    BY <1>1, <1>2, <1>3 DEF Alnum

Joined == {"=", "|", "&", "+", "-", ">", "<"}
LEMMA OperatorTwo ==
    \A c, d : <<c, d>> \in DOMAIN Operators2 => c \notin Alnum /\ c # "." /\ d \in Joined
BY DEF Operators2, Table, Alnum, Alpha, Lower, Upper, decimal, octal, Joined

LEMMA OperatorThree ==
    \A c, d, e : <<c, d, e>> \in DOMAIN Operators3 => c \notin Alnum /\ c # "." /\ e \in Joined
BY DEF Operators3, Table, Alnum, Alpha, Lower, Upper, decimal, octal, Joined

LEMMA JoinedNot ==
    /\ Joined \cap Alnum = {} /\ Joined \cap {NUL, "/"} = {}
    /\ \A c : checkDelimiter(c) => c \notin Joined
<1>1. Joined \cap Alnum = {} /\ Joined \cap {NUL, "/"} = {}
    BY DEF Alnum, Alpha, Lower, Upper, decimal, octal, Joined, NUL
<1>2. \A c : checkDelimiter(c) => c \notin Joined
    BY DEF checkDelimiter, Joined
<1> QED
    BY <1>1, <1>2

LEMMA OperatorLengths ==
    /\ \A op \in DOMAIN Operators1 : Len(op) = 1
    /\ \A op \in DOMAIN Operators2 : Len(op) = 2
    /\ \A op \in DOMAIN Operators3 : Len(op) = 3
<1>1. \A op \in DOMAIN Operators1 : Len(op) = 1
    BY DEF Operators1, Table
<1>2. \A op \in DOMAIN Operators2 : Len(op) = 2
    BY DEF Operators2, Table
<1>3. \A op \in DOMAIN Operators3 : Len(op) = 3
    BY DEF Operators3, Table
<1> QED
    BY <1>1, <1>2, <1>3

LEMMA OperatorOf ==
    /\ \A c : <<c>> \in Operators => <<c>> \in DOMAIN Operators1
    /\ \A c, d : <<c, d>> \in Operators => <<c, d>> \in DOMAIN Operators2
    /\ \A c, d, e : <<c, d, e>> \in Operators => <<c, d, e>> \in DOMAIN Operators3
    /\ \A c, d, e, f : <<c, d, e, f>> \notin Operators
<1>1. \A c : <<c>> \in Operators => <<c>> \in DOMAIN Operators1
    <2>1. \A c : Len(<<c>>) = 1
        OBVIOUS
    <2> QED
        BY <2>1, OperatorLengths DEF Operators
<1>2. \A c, d : <<c, d>> \in Operators => <<c, d>> \in DOMAIN Operators2
    <2>1. \A c, d : Len(<<c, d>>) = 2
        OBVIOUS
    <2> QED
        BY <2>1, OperatorLengths DEF Operators
<1>3. \A c, d, e : <<c, d, e>> \in Operators => <<c, d, e>> \in DOMAIN Operators3
    <2>1. \A c, d, e : Len(<<c, d, e>>) = 3
        OBVIOUS
    <2> QED
        BY <2>1, OperatorLengths DEF Operators
<1>4. \A c, d, e, f : <<c, d, e, f>> \notin Operators
    <2>1. \A c, d, e, f : Len(<<c, d, e, f>>) = 4
        OBVIOUS
    <2> QED
        BY <2>1, OperatorLengths DEF Operators
<1> QED
    BY <1>1, <1>2, <1>3, <1>4

\* The pieces of one, two and three characters.
LEMMA PieceTuples ==
    ASSUME NEW t \in Text, NEW r \in 0..Len(t) - 1
    PROVE  /\ Piece(t, r, r) = One(t, r)
           /\ r + 1 < Len(t) => Piece(t, r, r + 1) = Two(t, r)
           /\ r + 2 < Len(t) => Piece(t, r, r + 2) = Three(t, r)
<1>1. Len(t) \in Nat /\ r \in Nat /\ r < Len(t) /\ r <= r /\ r + 1 - r = 1
    BY DEF Text
<1>2. Piece(t, r, r) = One(t, r)
    <2>1. Piece(t, r, r) \in Text /\ Len(Piece(t, r, r)) = r + 1 - r
        BY <1>1, PieceHead
    <2>2. Piece(t, r, r)[1] = At(t, r)
        BY <1>1, PieceHead
    <2>3. PICK u \in Text : u = Piece(t, r, r) /\ Len(u) = 1 /\ u[1] = At(t, r)
        BY <1>1, <2>1, <2>2
    <2> QED
        BY <2>3 DEF Text, One
<1>3. ASSUME r + 1 < Len(t) PROVE Piece(t, r, r + 1) = Two(t, r)
    <2>1. PICK k \in Nat : k = r + 1 /\ r <= k /\ k > r /\ k < Len(t) /\ k + 1 - r = 2
        BY <1>1, <1>3
    <2>2. Piece(t, r, k) \in Text /\ Len(Piece(t, r, k)) = k + 1 - r
        BY <1>1, <2>1, PieceHead
    <2>3. Piece(t, r, k)[1] = At(t, r) /\ Piece(t, r, k)[2] = At(t, r + 1)
        BY <1>1, <2>1, PieceHead
    <2>4. PICK u \in Text : /\ u = Piece(t, r, r + 1) /\ Len(u) = 2
                            /\ u[1] = At(t, r) /\ u[2] = At(t, r + 1)
        BY <2>1, <2>2, <2>3
    <2> QED
        BY <2>4 DEF Text, Two
<1>4. ASSUME r + 2 < Len(t) PROVE Piece(t, r, r + 2) = Three(t, r)
    <2>1. PICK k \in Nat : k = r + 2 /\ r <= k /\ k > r /\ k > r + 1 /\ k < Len(t) /\ k + 1 - r = 3
        BY <1>1, <1>4
    <2>2. Piece(t, r, k) \in Text /\ Len(Piece(t, r, k)) = k + 1 - r
        BY <1>1, <2>1, PieceHead
    <2>3. /\ Piece(t, r, k)[1] = At(t, r) /\ Piece(t, r, k)[2] = At(t, r + 1)
          /\ Piece(t, r, k)[3] = At(t, r + 2)
        BY <1>1, <2>1, PieceHead
    <2>4. PICK u \in Text : /\ u = Piece(t, r, r + 2) /\ Len(u) = 3
                            /\ u[1] = At(t, r) /\ u[2] = At(t, r + 1) /\ u[3] = At(t, r + 2)
        BY <2>1, <2>2, <2>3
    <2> QED
        BY <2>4 DEF Text, Three
<1> QED
    BY <1>2, <1>3, <1>4

LEMMA AppendTuples ==
    ASSUME NEW a, NEW b, NEW c
    PROVE  Append(<<a>>, b) = <<a, b>> /\ Append(<<a, b>>, c) = <<a, b, c>>
<1>1. PICK S : S = {a, b, c}
    OBVIOUS
<1>2. /\ <<a>> \in Seq(S) /\ <<a, b>> \in Seq(S) /\ <<a, b, c>> \in Seq(S)
      /\ b \in S /\ c \in S
    BY <1>1
<1>3. Append(<<a>>, b) = <<a, b>>
    <2>1. Append(<<a>>, b) \in Seq(S) /\ Len(Append(<<a>>, b)) = Len(<<a>>) + 1
        BY <1>2, AppendProperties
    <2>2. \A n \in 1..Len(<<a>>) : Append(<<a>>, b)[n] = <<a>>[n]
        BY <1>2, AppendProperties
    <2>3. Append(<<a>>, b)[Len(<<a>>) + 1] = b
        BY <1>2, AppendProperties
    <2>4. Len(<<a>>) = 1 /\ Len(<<a, b>>) = 2
        OBVIOUS
    <2>5. \A n \in 1..2 : Append(<<a>>, b)[n] = <<a, b>>[n]
        <3>1. \A n \in 1..1 : <<a>>[n] = <<a, b>>[n]
            OBVIOUS
        <3>2. <<a, b>>[2] = b /\ \A n \in 1..2 : n \in 1..1 \/ n = 2
            OBVIOUS
        <3> QED
            BY <2>2, <2>3, <2>4, <3>1, <3>2
    <2>6. Len(Append(<<a>>, b)) = 2
        BY <2>1, <2>4
    <2> QED
        BY <1>2, <2>1, <2>4, <2>5, <2>6, SeqEqual
<1>4. Append(<<a, b>>, c) = <<a, b, c>>
    <2>1. Append(<<a, b>>, c) \in Seq(S) /\ Len(Append(<<a, b>>, c)) = Len(<<a, b>>) + 1
        BY <1>2, AppendProperties
    <2>2. \A n \in 1..Len(<<a, b>>) : Append(<<a, b>>, c)[n] = <<a, b>>[n]
        BY <1>2, AppendProperties
    <2>3. Append(<<a, b>>, c)[Len(<<a, b>>) + 1] = c
        BY <1>2, AppendProperties
    <2>4. Len(<<a, b>>) = 2 /\ Len(<<a, b, c>>) = 3
        OBVIOUS
    <2>5. \A n \in 1..3 : Append(<<a, b>>, c)[n] = <<a, b, c>>[n]
        <3>1. \A n \in 1..2 : <<a, b>>[n] = <<a, b, c>>[n]
            OBVIOUS
        <3>2. <<a, b, c>>[3] = c /\ \A n \in 1..3 : n \in 1..2 \/ n = 3
            OBVIOUS
        <3> QED
            BY <2>2, <2>3, <2>4, <3>1, <3>2
    <2>6. Len(Append(<<a, b>>, c)) = 3
        BY <2>1, <2>4
    <2> QED
        BY <1>2, <2>1, <2>4, <2>5, <2>6, SeqEqual
<1> QED
    BY <1>3, <1>4

LEMMA AppendThree ==
    ASSUME NEW a, NEW b, NEW c, NEW d
    PROVE  Append(<<a, b, c>>, d) = <<a, b, c, d>>
<1>0. PICK S : <<a, b, c>> \in Seq(S) /\ <<a, b, c, d>> \in Seq(S) /\ d \in S
    <2>1. PICK S : S = {a, b, c, d}
        OBVIOUS
    <2> QED
        BY <2>1
<1>1. Append(<<a, b, c>>, d) \in Seq(S) /\ Len(Append(<<a, b, c>>, d)) = Len(<<a, b, c>>) + 1
    BY <1>0, AppendProperties
<1>2. \A n \in 1..Len(<<a, b, c>>) : Append(<<a, b, c>>, d)[n] = <<a, b, c>>[n]
    BY <1>0, AppendProperties
<1>3. Append(<<a, b, c>>, d)[Len(<<a, b, c>>) + 1] = d
    BY <1>0, AppendProperties
<1>4. Len(<<a, b, c>>) = 3 /\ Len(<<a, b, c, d>>) = 4
    OBVIOUS
<1>5. \A n \in 1..4 : Append(<<a, b, c>>, d)[n] = <<a, b, c, d>>[n]
    <2>1. \A n \in 1..3 : <<a, b, c>>[n] = <<a, b, c, d>>[n]
        OBVIOUS
    <2>2. <<a, b, c, d>>[4] = d /\ \A n \in 1..4 : n \in 1..3 \/ n = 4
        OBVIOUS
    <2> QED
        BY <1>2, <1>3, <1>4, <2>1, <2>2
<1>6. Len(Append(<<a, b, c>>, d)) = 4
    BY <1>1, <1>4
<1> QED
    BY <1>0, <1>1, <1>4, <1>5, <1>6, SeqEqual

\* What follows joins nothing to an operator that the tokenizer did not see.
LEMMA FollowedJoined ==
    ASSUME NEW t, NEW k, NEW next, Followed(t, k, next), next[1] \in Joined
    PROVE  next[1] = At(t, k + 1) /\ k + 1 < Len(t)
BY JoinedNot DEF Followed, Ending

\* Where nothing else begins: an operator, as long as it can be, or a character without a
\* type.
LEMMA OperatorRead ==
    ASSUME NEW t \in Text, NEW r \in 0..Len(t) - 1, At(t, r) \notin Alnum,
           NEW type, type = OperatorAt(t, r, Type(-1, r)), t # SIZEOF
    PROVE  Labelled(t, r, type)
<1>1. Len(t) \in Nat /\ r \in Nat /\ r < Len(t) /\ r \in Int
    BY DEF Text
<1>2. CASE Three(t, r) \in DOMAIN Operators3
    <2>1. type.num = Operators3[Three(t, r)] /\ type.last = r + 2
        BY <1>2, Typing DEF OperatorAt
    <2>2. Piece(t, r, r + 2) = Three(t, r)
        <3>1. At(t, r + 2) # NUL
            BY <1>2, OperatorChars DEF Three
        <3>2. r + 2 < Len(t)
            BY <1>1, <3>1, AtNul
        <3> QED
            BY <3>2, PieceTuples
    <2>3. Operator(Three(t, r), getTokenName(type.num))
        BY <1>2, <2>1 DEF Operator
    <2>4. ASSUME NEW next PROVE Append(Three(t, r), next[1]) \notin Operators
        <3>1. Append(Three(t, r), next[1]) = <<At(t, r), At(t, r + 1), At(t, r + 2), next[1]>>
            BY AppendThree DEF Three
        <3> QED
            BY <3>1, OperatorOf
    <2> QED
        BY <2>1, <2>2, <2>3, <2>4 DEF Labelled, Known
<1>3. CASE Three(t, r) \notin DOMAIN Operators3 /\ Two(t, r) \in DOMAIN Operators2
    <2>1. type.num = Operators2[Two(t, r)] /\ type.last = r + 1
        BY <1>3, Typing DEF OperatorAt
    <2>2. Piece(t, r, r + 1) = Two(t, r)
        <3>1. At(t, r + 1) # NUL
            BY <1>3, OperatorChars DEF Two
        <3>2. r + 1 < Len(t)
            BY <1>1, <3>1, AtNul
        <3> QED
            BY <3>2, PieceTuples
    <2>3. Operator(Two(t, r), getTokenName(type.num))
        BY <1>3, <2>1 DEF Operator
    <2>4. ASSUME NEW next, Followed(t, r + 1, next) PROVE Append(Two(t, r), next[1]) \notin Operators
        <3>1. Append(Two(t, r), next[1]) = <<At(t, r), At(t, r + 1), next[1]>>
            BY AppendTuples DEF Two
        <3>2. ASSUME <<At(t, r), At(t, r + 1), next[1]>> \in DOMAIN Operators3 PROVE FALSE
            <4>1. next[1] \in Joined
                BY <3>2, OperatorThree
            <4>2. next[1] = At(t, (r + 1) + 1) /\ (r + 1) + 1 = r + 2
                BY <1>1, <2>4, <4>1, FollowedJoined
            <4> QED
                BY <1>3, <3>2, <4>2 DEF Three
        <3> QED
            BY <3>1, <3>2, OperatorOf
    <2> QED
        BY <2>1, <2>2, <2>3, <2>4 DEF Labelled, Known
\* Nothing is joined to one character.
<1>6. ASSUME Two(t, r) \notin DOMAIN Operators2, NEW next, Followed(t, r, next)
      PROVE  Append(One(t, r), next[1]) \notin Operators
    <2>1. Append(One(t, r), next[1]) = <<At(t, r), next[1]>>
        BY AppendTuples DEF One
    <2>2. ASSUME <<At(t, r), next[1]>> \in DOMAIN Operators2 PROVE FALSE
        <3>1. next[1] \in Joined
            BY <2>2, OperatorTwo
        <3>2. next[1] = At(t, r + 1)
            BY <1>6, <3>1, FollowedJoined
        <3> QED
            BY <1>6, <2>2, <3>2 DEF Two
    <2> QED
        BY <2>1, <2>2, OperatorOf
<1>4. CASE /\ Three(t, r) \notin DOMAIN Operators3 /\ Two(t, r) \notin DOMAIN Operators2
           /\ One(t, r) \in DOMAIN Operators1
    <2>1. type.num = Operators1[One(t, r)] /\ type.last = r
        BY <1>4, Typing DEF OperatorAt
    <2>2. Piece(t, r, r) = One(t, r)
        BY PieceTuples
    <2>3. Operator(One(t, r), getTokenName(type.num))
        BY <1>4, <2>1 DEF Operator
    <2>4. ASSUME NEW next, Followed(t, r, next) PROVE Append(One(t, r), next[1]) \notin Operators
        BY <1>4, <1>6, <2>4
    <2> QED
        BY <2>1, <2>2, <2>3, <2>4 DEF Labelled, Known
<1>5. CASE /\ Three(t, r) \notin DOMAIN Operators3 /\ Two(t, r) \notin DOMAIN Operators2
           /\ One(t, r) \notin DOMAIN Operators1
    <2>1. type.num = -1 /\ type.last = r
        <3>1. type = Type(-1, r)
            BY <1>5 DEF OperatorAt
        <3> QED
            BY <3>1, Typing
    <2>2. Piece(t, r, r) = One(t, r)
        BY PieceTuples
    <2>3. One(t, r) \notin Operators /\ Len(One(t, r)) = 1 /\ One(t, r)[1] = At(t, r)
        BY <1>5, OperatorOf DEF One
    <2>4. \A next : Followed(t, r, next) => Known("(null)", One(t, r), next)
        BY <1>5, <1>6, <2>3 DEF Known
    <2> QED
        BY <2>1, <2>2, <2>4, TokenNumbers DEF Labelled
<1> QED
    BY <1>2, <1>3, <1>4, <1>5

\* sizeof, when it is all of the element, is a word to its end.
LEMMA SizeofRead ==
    ASSUME NEW t \in Text, t = SIZEOF
    PROVE  Scan(t, 0).last = 5 /\ Piece(t, 0, 5) = t /\ Len(t) = 6
<1>1. Len(t) = 6 /\ \A n \in 1..6 : t[n] \in Alpha
    <2>1. Len(t) = 6
        BY DEF SIZEOF
    <2>2. \A n \in 1..6 : n = 1 \/ n = 2 \/ n = 3 \/ n = 4 \/ n = 5 \/ n = 6
        OBVIOUS
    <2>3. /\ t[1] = "s" /\ t[2] = "i" /\ t[3] = "z" /\ t[4] = "e" /\ t[5] = "o" /\ t[6] = "f"
        BY DEF SIZEOF
    <2>4. {"s", "i", "z", "e", "o", "f"} \subseteq Alpha
        BY DEF Alpha, Lower
    <2> QED
        BY <2>1, <2>2, <2>3, <2>4
<1>2. \A j \in 0..5 : At(t, j) \in Alpha
    <2>1. ASSUME NEW j \in 0..5 PROVE At(t, j) \in Alpha
        <3>1. j + 1 \in 1..6 /\ j \in 0..Len(t) - 1
            BY <1>1
        <3> QED
            BY <1>1, <3>1 DEF At
    <2> QED
        BY <2>1
<1>3. PICK last \in Nat : last = Run(t, 1, Alnum)
    BY Classes, RunEnds
<1>4. last >= 1 /\ last <= 6 /\ At(t, last) \notin Alnum
    <2>1. 1 \in Nat /\ 1 <= Len(t) /\ NUL \notin Alnum
        BY <1>1, Classes
    <2>2. last >= 1 /\ last <= Len(t) /\ At(t, last) \notin Alnum
        BY <1>3, <2>1, RunEnds
    <2> QED
        BY <1>1, <2>2
<1>5. last = 6
    <2>1. last \notin 0..5
        BY <1>2, <1>4, Classes
    <2> QED
        BY <1>4, <2>1
<1>6. Scan(t, 0) = Word(t, 0)
    BY <1>2 DEF Scan
<1>7. Word(t, 0) = Type(0, 5)
    <2>1. 0 + 1 = 1 /\ last > 1 /\ last - 1 = 5
        BY <1>5
    <2> QED
        BY <1>3, <2>1 DEF Word, Alnum
<1>8. Piece(t, 0, 5) = t
    <2>1. Piece(t, 0, 5) = SubSeq(t, 1, Len(t))
        BY <1>1 DEF Piece
    <2> QED
        BY <2>1 DEF Text
<1> QED
    BY <1>1, <1>6, <1>7, <1>8, Typing

LEMMA SizeofToken ==
    ASSUME NEW t \in Text, t = SIZEOF
    PROVE  checkTokenType(t, 0) = Type(11, 5) /\ Piece(t, 0, 5) = t /\ Len(t) = 6
<1>1. Len(t) = 6 /\ Scan(t, 0).last = 5 /\ Piece(t, 0, 5) = t
    BY SizeofRead
<1>2. At(t, 5) \in Alnum
    <2>1. 5 \in 0..Len(t) - 1
        <3>1. \A n : n = 6 => 5 \in 0..n - 1
            OBVIOUS
        <3> QED
            BY <1>1, <3>1
    <2>2. At(t, 5) = "f"
        BY <2>1 DEF At, SIZEOF
    <2> QED
        BY <2>2 DEF Alnum, Alpha, Lower
<1>3. /\ Three(t, 5) \notin DOMAIN Operators3 /\ Two(t, 5) \notin DOMAIN Operators2
      /\ One(t, 5) \notin DOMAIN Operators1
    BY <1>2, OperatorOne, OperatorTwo, OperatorThree DEF One, Two, Three
<1>4. checkTokenType(t, 0) = Type(11, 5)
    BY <1>1, <1>3 DEF checkTokenType, Found, OperatorAt
<1> QED
    BY <1>1, <1>4

\* Every token within its element has the name of its text, or is misread.
LEMMA TokenLabelled ==
    ASSUME NEW t \in Text, NEW r \in 0..Len(t) - 1, t = SIZEOF => r = 0,
           NEW type, type = checkTokenType(t, r), type.last < Len(t)
    PROVE  Labelled(t, r, type)
<1>1. Len(t) \in Nat /\ r \in Nat /\ r < Len(t) /\ r \in Int
    BY DEF Text
<1>2. PICK found : found = Scan(t, r)
    OBVIOUS
<1>3. PICK k \in r..Len(t) + 1 : k = found.last
    BY <1>2, ScanStands DEF Stands
<1>4. type = OperatorAt(t, k, found) /\ k \in Nat
    BY <1>1, <1>2, <1>3 DEF checkTokenType, Found
<1>5. /\ Three(t, k) \in DOMAIN Operators3 =>
             type.last = k + 2 /\ At(t, k) \notin Alnum /\ At(t, k) # "." /\ At(t, k + 2) \in Joined
      /\ Three(t, k) \notin DOMAIN Operators3 /\ Two(t, k) \in DOMAIN Operators2 =>
             type.last = k + 1 /\ At(t, k) \notin Alnum /\ At(t, k) # "." /\ At(t, k + 1) \in Joined
      /\ One(t, k) \in DOMAIN Operators1 => At(t, k) \notin Alnum
    <2>1. ASSUME Three(t, k) \in DOMAIN Operators3
          PROVE  type.last = k + 2 /\ At(t, k) \notin Alnum /\ At(t, k) # "." /\ At(t, k + 2) \in Joined
        BY <1>4, <2>1, OperatorThree, Typing DEF OperatorAt, Three
    <2>2. ASSUME Three(t, k) \notin DOMAIN Operators3, Two(t, k) \in DOMAIN Operators2
          PROVE  type.last = k + 1 /\ At(t, k) \notin Alnum /\ At(t, k) # "." /\ At(t, k + 1) \in Joined
        <3>1. type = Type(Operators2[Two(t, k)], k + 1)
            BY <1>4, <2>2 DEF OperatorAt
        <3> QED
            BY <2>2, <3>1, OperatorTwo, Typing DEF Two
    <2>3. ASSUME One(t, k) \in DOMAIN Operators1 PROVE At(t, k) \notin Alnum
        BY <2>3, OperatorOne DEF One
    <2> QED
        BY <2>1, <2>2, <2>3
<1>6. Three(t, k) \notin DOMAIN Operators3 /\ Two(t, k) \notin DOMAIN Operators2 => type.last = k
    <2>1. ASSUME Three(t, k) \notin DOMAIN Operators3, Two(t, k) \notin DOMAIN Operators2
          PROVE  type.last = k
        <3>1. \/ type = Type(Operators1[One(t, k)], k)
              \/ type = Type(11, k) \/ type = found
            BY <1>4, <2>1 DEF OperatorAt
        <3> QED
            BY <1>3, <3>1, Typing
    <2> QED
        BY <2>1
<1>7. type.last \in {k, k + 1, k + 2}
    BY <1>5, <1>6
<1>8. k < Len(t)
    BY <1>1, <1>4, <1>7
<1>9. Read(t, r, found)
    BY <1>2, <1>3, <1>8, ScanRead
<1>10. CASE t = SIZEOF
    <2>1. type.num = 11 /\ type.last = 5 /\ r = 0 /\ Piece(t, 0, 5) = t
        BY <1>10, SizeofToken, Typing
    <2>2. ASSUME NEW next, Followed(t, 5, next) PROVE Known("sizeof", t, next)
        <3>1. Len(t) = 6 /\ 5 \in 0..Len(t) - 1
            <4>1. Len(t) = 6
                BY <1>10, SizeofToken
            <4>2. \A n : n = 6 => 5 \in 0..n - 1
                OBVIOUS
            <4> QED
                BY <4>1, <4>2
        <3>2. At(t, 5 + 1) = NUL
            <4>1. PICK n \in Int : n = 5 + 1 /\ n \notin 0..Len(t) - 1
                BY <3>1
            <4>2. At(t, n) = NUL
                BY <4>1, AtNul
            <4> QED
                BY <4>1, <4>2
        <3>3. next[1] \notin Alnum
            BY <2>2, <3>1, <3>2, Classes, FollowedNot
        <3> QED
            BY <1>10, <3>3 DEF Known
    <2> QED
        BY <2>1, <2>2, TokenNumbers DEF Labelled
<1>11. CASE t # SIZEOF /\ found = Type(-1, r) /\ At(t, r) \notin Alnum
    <2>1. k = r
        BY <1>3, <1>11, Typing
    <2> QED
        BY <1>4, <1>11, <2>1, OperatorRead
<1>12. CASE t # SIZEOF /\ At(t, k) \in Alnum /\ Labelled(t, r, found)
    <2>1. type = found
        BY <1>4, <1>5, <1>12 DEF OperatorAt
    <2> QED
        BY <1>12, <2>1
<1>13. CASE At(t, k) \notin Alnum /\ Taken(t, r, k)
    <2>1. PICK e \in k..Len(t) - 1 : e = type.last
        BY <1>1, <1>4, <1>7
    <2>2. (e = k \/ At(t, k) # ".") /\ At(t, e) \notin decimal
        BY <1>5, <1>6, <1>13, <2>1, Classes, JoinedNot
    <2> QED
        BY <1>13, <2>1, <2>2 DEF Taken, Labelled
<1> QED
    BY <1>3, <1>9, <1>10, <1>11, <1>12, <1>13 DEF Read

\* What is passed as a keyword is one, and a delimiter or the end follows it.
LEMMA KeywordIs ==
    ASSUME NEW t \in Text, NEW k \in 0..Len(t), checkKeywordPresent(t, k) # k
    PROVE  /\ isKeyword(SubSeq(t, k + 1, checkKeywordPresent(t, k)))
           /\ \/ At(t, checkKeywordPresent(t, k)) = NUL
              \/ checkDelimiter(At(t, checkKeywordPresent(t, k)))
<1> DEFINE ends == {j \in k..Len(t) : j - k > KEYWORD_MAX_SIZE
                                       \/ At(t, j) = NUL \/ checkDelimiter(At(t, j))}
<1>1. Len(t) \in Nat /\ k \in Nat
    BY DEF Text
<1>2. PICK last : last = CHOOSE j \in ends : \A m \in ends : j <= m
    OBVIOUS
<1>3. last \in ends
    <2>1. Len(t) \in ends
        BY <1>1, AtNul
    <2>2. ends \in SUBSET Nat
        BY <1>1
    <2> HIDE DEF ends
    <2> QED
        BY <1>2, <2>1, <2>2, Least
<1>4. checkKeywordPresent(t, k) = IF isKeyword(SubSeq(t, k + 1, last)) THEN last ELSE k
    BY <1>2 DEF checkKeywordPresent
<1>5. checkKeywordPresent(t, k) = last /\ isKeyword(SubSeq(t, k + 1, last))
    BY <1>4
<1>6. ~(last - k > KEYWORD_MAX_SIZE)
    <2>1. last \in Nat /\ k <= last /\ last <= Len(t)
        BY <1>1, <1>3
    <2>2. Len(SubSeq(t, k + 1, last)) = last - k
        BY <1>1, <2>1 DEF Text
    <2>3. Len(SubSeq(t, k + 1, last)) <= KEYWORD_MAX_SIZE
        BY <1>5 DEF isKeyword
    <2> QED
        BY <1>1, <2>1, <2>2, <2>3 DEF KEYWORD_MAX_SIZE
<1> QED
    BY <1>3, <1>5, <1>6

-----------------------------------------------------------------------------
(***************************************************************************)
(* The inductive invariant.                                                *)
(***************************************************************************)
begin == i - Len(cToken)
end(n) == printed[n].at + Len(printed[n].text)

\* Where the element ends there is nothing more to append to it.
AtEnd == At(input, i) = NUL \/ ~InElement

\* What each loop of main has made of the element and the cursors.
Cursors ==
    /\ cToken \in Text /\ Len(cToken) <= i /\ cTokenMaxLen \in Nat
    /\ pc \in {"start", "skip", "done", "overrun"} => cToken = <<>>
    /\ pc \in {"start", "skip", "append"} => current_index = 0
    /\ pc = "start" => IF i = 0 THEN rest_index = 0 ELSE AtEnd
    /\ pc = "skip" => rest_index = 0 \/ ~InElement
    /\ pc = "append" => rest_index = 0
    /\ pc = "match" =>
          /\ rest_index = startIndex /\ current_index = startIndex /\ AtEnd
          /\ startIndex < Len(cToken) \/ (cToken = <<>> /\ startIndex = 0)
    /\ pc = "reset" =>
          /\ rest_index = startIndex /\ startIndex <= Len(cToken) /\ AtEnd
          /\ startIndex # Len(cToken) =>
                Lost(SubSeq(cToken, startIndex + 1, Len(cToken)), startIndex)

\* Lines are of texts of the argument, in its order; those of the element are its pieces.
LineType == [name : Names, text : Text, at : Nat]
edge(n) == IF n > 0 /\ printed[n].at >= begin THEN end(n) ELSE begin
Ordered ==
    /\ printed \in Seq(LineType)
    /\ \A n \in 1..Len(printed) :
          /\ printed[n].text # <<>> /\ end(n) <= Len(input)
          /\ printed[n].text = SubSeq(input, printed[n].at + 1, end(n))
          /\ n > 1 => end(n - 1) <= printed[n].at
Behind == pc \notin {"match", "reset"} => \A n \in 1..Len(printed) : end(n) <= begin
Pieces ==
    pc \in {"match", "reset"} =>
        /\ \A n \in 1..Len(printed) :
              /\ printed[n].at >= begin => printed[n].at = edge(n - 1)
              /\ end(n) <= begin + startIndex
        /\ edge(Len(printed)) = begin + startIndex

IInv ==
    /\ input \in Inputs /\ TypeOK /\ Cursors /\ ClosedCommentsStayInside
    /\ Ordered /\ Behind /\ Pieces

-----------------------------------------------------------------------------
\* What the types say of the argument and the element.
LEMMA Typed ==
    ASSUME input \in Inputs, TypeOK, Cursors
    PROVE  /\ input \in Text /\ Len(input) \in Nat /\ i \in Nat /\ i <= Len(input)
           /\ cToken \in Text /\ Len(cToken) \in Nat /\ Len(cToken) <= i
           /\ begin \in Nat /\ begin + Len(cToken) = i
           /\ cToken = SubSeq(input, begin + 1, i)
           /\ startIndex \in Nat /\ rest_index \in Nat /\ current_index \in Nat
           /\ cToken = <<>> <=> Len(cToken) = 0
<1>1. input \in Text /\ Len(input) \in Nat /\ i \in Nat /\ i <= Len(input)
    BY TokenizerAssumption DEF Text, TypeOK
<1>2. cToken \in Text /\ Len(cToken) \in Nat /\ Len(cToken) <= i /\ (cToken = <<>> <=> Len(cToken) = 0)
    BY DEF Cursors, Text
<1>3. cToken = SubSeq(input, begin + 1, i)
    BY <1>1, <1>2 DEF TypeOK, begin
<1>4. startIndex \in Nat /\ rest_index \in Nat /\ current_index \in Nat
    BY <1>1 DEF TypeOK
<1>5. begin \in Nat /\ begin + Len(cToken) = i
    BY <1>1, <1>2 DEF begin
<1> QED
    BY <1>1, <1>2, <1>3, <1>4, <1>5

\* A line more, behind all others.
LEMMA AppendLine ==
    ASSUME input \in Text, Ordered, NEW name \in Names,
           NEW from \in Nat, NEW to \in Nat, from < to, to <= Len(input),
           NEW N \in Nat, N = Len(printed),
           \A n \in 1..Len(printed) : end(n) <= from,
           printed' = Append(printed, Line(name, from, to)), UNCHANGED input
    PROVE  /\ Ordered'
           /\ Len(printed') = N + 1
           /\ \A n \in 1..N : printed'[n] = printed[n] /\ end(n)' = end(n)
           /\ printed'[N + 1].at = from /\ end(N + 1)' = to
<1> DEFINE line == Line(name, from, to)
<1>1. Len(input) \in Nat /\ input \in Seq(STRING \ {NUL})
    BY DEF Text
<1>2. line.text \in Text /\ Len(line.text) = to - from
    BY <1>1 DEF Line, Text
<1>3. /\ line \in LineType /\ line.at = from /\ line.text = SubSeq(input, from + 1, to)
      /\ line.at + Len(line.text) = to /\ line.text # <<>>
    <2>1. line.at = from /\ line.text = SubSeq(input, from + 1, to) /\ line.name = name
        BY DEF Line
    <2>2. line \in LineType
        BY <1>2 DEF Line, LineType
    <2> HIDE DEF line
    <2>3. Len(line.text) = to - from
        BY <1>2
    <2>4. line.text # <<>>
        BY <2>3
    <2>5. line.at + Len(line.text) = to
        BY <2>1, <2>3
    <2> QED
        BY <2>1, <2>2, <2>4, <2>5
<1> HIDE DEF line
<1>4. printed \in Seq(LineType) /\ N \in Nat
    BY DEF Ordered
<1>5. /\ printed' \in Seq(LineType) /\ Len(printed') = N + 1
      /\ \A n \in 1..N : printed'[n] = printed[n]
      /\ printed'[N + 1] = line
    <2>1. printed' = Append(printed, line)
        BY DEF line
    <2> QED
        BY <1>3, <1>4, <2>1, AppendProperties
<1>6. \A n \in 1..N : end(n)' = end(n)
    BY <1>5 DEF end
<1>7. end(N + 1)' = to
    BY <1>3, <1>5 DEF end
<1>8. ASSUME NEW n \in 1..N + 1
      PROVE  /\ printed'[n].text # <<>> /\ end(n)' <= Len(input)
             /\ printed'[n].text = SubSeq(input, printed'[n].at + 1, end(n)')
             /\ n > 1 => end(n - 1)' <= printed'[n].at
    <2>1. CASE n \in 1..N
        <3>1. /\ printed[n].text # <<>> /\ end(n) <= Len(input)
              /\ printed[n].text = SubSeq(input, printed[n].at + 1, end(n))
              /\ n > 1 => end(n - 1) <= printed[n].at
            BY <2>1 DEF Ordered
        <3>2. n > 1 => n - 1 \in 1..N
            BY <1>4, <2>1
        <3> QED
            BY <1>5, <1>6, <2>1, <3>1, <3>2
    <2>2. CASE n = N + 1
        <3>1. n > 1 => n - 1 \in 1..N
            BY <1>4, <2>2
        <3>2. n > 1 => end(n - 1)' <= from
            BY <1>6, <3>1
        <3> QED
            BY <1>3, <1>5, <1>7, <2>2, <3>2
    <2> QED
        BY <1>4, <2>1, <2>2
<1>9. Ordered'
    BY <1>5, <1>8 DEF Ordered
<1> QED
    BY <1>3, <1>4, <1>5, <1>6, <1>7, <1>9

\* What prints nothing keeps the order.
LEMMA OrderKept ==
    ASSUME Ordered, UNCHANGED <<input, printed>>
    PROVE  Ordered' /\ \A n : end(n)' = end(n)
BY DEF Ordered, end

\* Between elements a keyword is printed, or nothing is.
LEMMA PassInv ==
    ASSUME input \in Text, Ordered, NEW k \in 0..Len(input), cToken = <<>>, cToken' = <<>>,
           \A n \in 1..Len(printed) : end(n) <= k, PassKeyword(k), UNCHANGED input
    PROVE  i' \in k..Len(input) /\ Ordered' /\ \A n \in 1..Len(printed') : end(n)' <= i'
<1> DEFINE last == checkKeywordPresent(input, k)
<1>1. last \in k..Len(input) /\ Len(input) \in Nat
    BY KeywordEnds DEF Text
<1>2. /\ i' = last
      /\ printed' = IF last = k THEN printed ELSE Append(printed, Line("C Keyword", k, last))
    BY DEF PassKeyword
<1> HIDE DEF last
<1>3. CASE last = k
    <2>1. printed' = printed
        BY <1>2, <1>3
    <2>2. Ordered' /\ \A n : end(n)' = end(n)
        BY <2>1, OrderKept
    <2> QED
        BY <1>1, <1>2, <1>3, <2>1, <2>2
<1>4. CASE last # k
    <2>0. PICK N \in Nat : N = Len(printed)
        BY DEF Ordered
    <2>1. printed' = Append(printed, Line("C Keyword", k, last))
        BY <1>2, <1>4
    <2>2. "C Keyword" \in Names
        BY DEF Names
    <2>3. last \in Nat /\ k \in Nat /\ k < last /\ last <= Len(input)
        BY <1>1, <1>4
    <2>4. /\ Ordered' /\ Len(printed') = N + 1
          /\ \A n \in 1..N : end(n)' = end(n)
          /\ end(N + 1)' = last
        BY <2>0, <2>1, <2>2, <2>3, AppendLine
    <2>5. ASSUME NEW n \in 1..Len(printed') PROVE end(n)' <= last
        <3>1. CASE n \in 1..N
            <4>1. end(n)' = end(n) /\ end(n) <= k
                BY <2>0, <2>4, <3>1
            <4>2. end(n) \in Int
                <5>1. printed[n] \in LineType
                    BY <2>0, <3>1 DEF Ordered
                <5>2. printed[n].at \in Nat /\ printed[n].text \in Text
                    BY <5>1 DEF LineType
                <5> QED
                    BY <5>2 DEF end, Text
            <4> QED
                BY <2>3, <4>1, <4>2
        <3>2. CASE n = N + 1
            BY <2>3, <2>4, <3>2
        <3> QED
            BY <2>4, <3>1, <3>2
    <2> QED
        BY <1>1, <1>2, <2>4, <2>5
<1> QED
    BY <1>3, <1>4

\* An empty element.
LEMMA Elements ==
    <<>> \in Text /\ Len(<<>>) = 0 /\ \A s \in Text, a \in Nat : SubSeq(s, a + 1, a) = <<>>
<1>1. <<>> \in Text /\ Len(<<>>) = 0
    BY DEF Text
<1>2. \A s \in Text, a \in Nat : SubSeq(s, a + 1, a) = <<>>
    BY DEF Text
<1> QED
    BY <1>1, <1>2

\* One character more.
LEMMA LongerElement ==
    ASSUME NEW s \in Text, NEW a \in Nat, NEW b \in Nat, a <= b, b < Len(s)
    PROVE  /\ At(s, b) \in STRING \ {NUL}
           /\ Append(SubSeq(s, a + 1, b), At(s, b)) = SubSeq(s, a + 1, b + 1)
<1>1. Len(s) \in Nat /\ At(s, b) = s[b + 1] /\ b + 1 \in 1..Len(s)
    BY DEF Text, At
<1>2. At(s, b) \in STRING \ {NUL}
    BY <1>1 DEF Text
<1> DEFINE u == SubSeq(s, a + 1, b)
           v == SubSeq(s, a + 1, b + 1)
<1>3. /\ u \in Text /\ Len(u) = b - a
      /\ \A n \in 1..b - a : u[n] = s[a + n]
    BY <1>1 DEF Text
<1>4. /\ v \in Text /\ Len(v) = b + 1 - a
      /\ \A n \in 1..b + 1 - a : v[n] = s[a + n]
    BY <1>1 DEF Text
<1> HIDE DEF u, v
<1> DEFINE w == Append(u, At(s, b))
<1>5. /\ w \in Text /\ Len(w) = b + 1 - a
      /\ \A n \in 1..b - a : w[n] = u[n]
      /\ w[b - a + 1] = At(s, b)
    <2>1. /\ Append(u, At(s, b)) \in Seq(STRING \ {NUL})
          /\ Len(Append(u, At(s, b))) = Len(u) + 1
          /\ \A n \in 1..Len(u) : Append(u, At(s, b))[n] = u[n]
          /\ Append(u, At(s, b))[Len(u) + 1] = At(s, b)
        BY <1>2, <1>3, AppendProperties DEF Text
    <2> QED
        BY <1>3, <2>1 DEF Text
<1> HIDE DEF w
<1>6. ASSUME NEW n \in 1..b + 1 - a PROVE w[n] = v[n]
    <2>1. CASE n \in 1..b - a
        BY <1>3, <1>4, <1>5, <2>1
    <2>2. CASE n = b - a + 1
        <3>1. a + n = b + 1
            BY <2>2
        <3> QED
            BY <1>1, <1>4, <1>5, <2>2, <3>1
    <2> QED
        BY <2>1, <2>2
<1>7. w = v
    BY <1>4, <1>5, <1>6, SeqEqual DEF Text
<1> QED
    BY <1>2, <1>7 DEF w, u, v

-----------------------------------------------------------------------------
(***************************************************************************)
(* The steps.                                                              *)
(***************************************************************************)
LEMMA InitInv == Init => IInv
<1> SUFFICES ASSUME Init PROVE IInv
    OBVIOUS
<1>1. input \in Text /\ Len(input) \in Nat
    BY TokenizerAssumption DEF Init, Text
<1>2. /\ pc = "start" /\ i = 0 /\ cToken = <<>> /\ cTokenMaxLen = INIT_TOKEN_LEN
      /\ current_index = 0 /\ rest_index = 0 /\ startIndex = 0 /\ printed = <<>>
    BY DEF Init
<1>3. SubSeq(input, 0 - 0 + 1, 0) = <<>> /\ Len(cToken) = 0
    BY <1>1, <1>2, Elements
<1>4. TypeOK
    BY <1>1, <1>2, <1>3, TokenizerAssumption DEF TypeOK
<1>5. Cursors
    BY <1>2, <1>3, Elements, TokenizerAssumption DEF Cursors
<1>6. Ordered /\ Behind /\ Pieces
    <2>1. Len(printed) = 0 /\ printed \in Seq(LineType)
        BY <1>2
    <2> QED
        BY <1>2, <2>1 DEF Ordered, Behind, Pieces
<1>7. ClosedCommentsStayInside
    BY <1>2 DEF ClosedCommentsStayInside
<1> QED
    BY <1>4, <1>5, <1>6, <1>7 DEF Init, IInv

\* Between elements only i moves, and rest_index may be cleared.
LEMMA Between ==
    ASSUME IInv, cToken = <<>>, i' \in 0..Len(input), rest_index' \in {rest_index, 0},
           pc' \in {"start", "skip", "append", "match", "reset", "done", "overrun"},
           UNCHANGED <<input, cToken, cTokenMaxLen, current_index, startIndex>>
    PROVE  TypeOK' /\ begin' = i'
<1> USE DEF IInv
<1>1. input \in Text /\ Len(input) \in Nat
    BY Typed
<1>2. i' \in Nat /\ i' <= Len(input) /\ Len(cToken') = 0
    BY <1>1, Elements
<1>3. i' - Len(cToken') = i'
    <2>1. \A a \in Nat, b \in Nat : b = 0 => a - b = a
        OBVIOUS
    <2>2. Len(cToken') \in Nat
        BY <1>2
    <2> QED
        BY <1>2, <2>1, <2>2
<1>4. cToken' = SubSeq(input', i' - Len(cToken') + 1, i')
    BY <1>1, <1>2, <1>3, Elements
<1>5. /\ Len(cToken') + 1 <= cTokenMaxLen' /\ current_index' \in 0..Len(input') + 1
      /\ startIndex' \in 0..Len(input')
    BY DEF TypeOK
<1>6. rest_index' \in 0..Len(input')
    BY <1>1 DEF TypeOK
<1>7. TypeOK'
    BY <1>4, <1>5, <1>6 DEF TypeOK
<1> QED
    BY <1>3, <1>7 DEF begin

\* A keyword at the very beginning, if there is one.
LEMMA StartStep == ASSUME IInv, Start PROVE IInv'
<1> USE DEF IInv
<1>1. /\ input \in Text /\ Len(input) \in Nat /\ i \in Nat /\ i <= Len(input)
      /\ begin \in Nat /\ begin + Len(cToken) = i
    BY Typed
<1>2. /\ pc = "start" /\ pc' = "skip" /\ cToken = <<>>
      /\ UNCHANGED <<input, cToken, cTokenMaxLen, current_index, rest_index, startIndex>>
    BY DEF Start, Cursors
<1>3. Len(cToken) = 0 /\ begin = i
    BY <1>1, <1>2, Elements
<1>4. \A n \in 1..Len(printed) : end(n) <= i
    BY <1>2, <1>3 DEF Behind
<1>5. /\ i' \in i..Len(input) /\ Ordered' /\ \A n \in 1..Len(printed') : end(n)' <= i'
      /\ i = 0 \/ i' = i
    <2>1. CASE i = 0
        <3>1. PassKeyword(0) /\ 0 \in 0..Len(input) /\ cToken' = <<>>
            BY <1>1, <1>2, <2>1 DEF Start
        <3> QED
            BY <1>1, <1>2, <1>4, <2>1, <3>1, PassInv
    <2>2. CASE i # 0
        <3>1. UNCHANGED <<i, printed>>
            BY <2>2 DEF Start
        <3> QED
            BY <1>1, <1>2, <1>4, <3>1, OrderKept
    <2> QED
        BY <2>1, <2>2
<1>6. begin' = i' /\ TypeOK'
    <2>1. i' \in 0..Len(input)
        BY <1>1, <1>5
    <2> QED
        BY <1>2, <2>1, Between
<1>7. Cursors'
    <2>1. rest_index = 0 \/ (i' = i /\ ~InElement)
        <3>1. At(input, i) # NUL
            BY DEF Start
        <3>2. IF i = 0 THEN rest_index = 0 ELSE ~InElement
            BY <1>2, <3>1 DEF Cursors, AtEnd
        <3> QED
            BY <1>5, <3>2
    <2>2. i' = i => InElement' = InElement
        BY <1>2 DEF InElement, Comment
    <2> QED
        BY <1>2, <1>3, <1>5, <2>1, <2>2, Elements DEF Cursors
<1>8. Behind' /\ Pieces' /\ ClosedCommentsStayInside'
    BY <1>2, <1>5, <1>6 DEF Behind, Pieces, ClosedCommentsStayInside
<1> QED
    BY <1>2, <1>5, <1>6, <1>7, <1>8

LEMMA SkipDelimiterStep == ASSUME IInv, SkipDelimiter PROVE IInv'
<1> USE DEF IInv
<1>1. /\ input \in Text /\ Len(input) \in Nat /\ i \in Nat /\ i <= Len(input)
      /\ begin \in Nat /\ begin + Len(cToken) = i
    BY Typed
<1>2. /\ pc = "skip" /\ pc' = "skip" /\ cToken = <<>> /\ rest_index' = 0 /\ current_index = 0
      /\ UNCHANGED <<input, cToken, cTokenMaxLen, current_index, startIndex>>
    BY DEF SkipDelimiter, Cursors
<1>3. Len(cToken) = 0 /\ begin = i
    BY <1>1, <1>2, Elements
<1>4. i + 1 \in 0..Len(input) /\ PassKeyword(i + 1)
    <2>1. At(input, i) # NUL
        BY Chars DEF SkipDelimiter
    <2> QED
        BY <1>1, <2>1, AtNul DEF SkipDelimiter
<1>5. PICK k \in 0..Len(input) : k = i + 1
    BY <1>4
<1>6. \A n \in 1..Len(printed) : end(n) <= k
    <2>1. ASSUME NEW n \in 1..Len(printed) PROVE end(n) <= i /\ end(n) \in Int
        <3>1. printed[n] \in LineType
            BY DEF Ordered
        <3>2. printed[n].at \in Nat /\ printed[n].text \in Text
            BY <3>1 DEF LineType
        <3> QED
            BY <1>2, <1>3, <3>2 DEF Behind, end, Text
    <2> QED
        BY <1>1, <1>5, <2>1
<1>7. PassKeyword(k)
    BY <1>4, <1>5
<1>8. i' \in k..Len(input) /\ Ordered' /\ \A n \in 1..Len(printed') : end(n)' <= i'
    BY <1>1, <1>2, <1>6, <1>7, PassInv
<1>9. TypeOK' /\ begin' = i'
    BY <1>1, <1>2, <1>8, Between
<1>10. Cursors'
    <2>1. i' \in Nat
        BY <1>1, <1>8
    <2> QED
        BY <1>2, <1>3, <2>1, Elements DEF Cursors
<1>11. Behind' /\ Pieces' /\ ClosedCommentsStayInside'
    BY <1>2, <1>8, <1>9 DEF Behind, Pieces, ClosedCommentsStayInside
<1> QED
    BY <1>2, <1>8, <1>9, <1>10, <1>11

\* A comment is skipped, or it takes the scan beyond the argument: then it has no end.
LEMMA SkipStep ==
    ASSUME IInv, NEW n \in 1..2, NEW places \in SUBSET (i + 2..Len(input) - 1),
           pc = "skip", SkipTo(places, n),
           places = {} \/ (\E p \in places : p = Len(input) - 1 /\ n = 2 /\ \A q \in places : p <= q) =>
               Comment # 0 /\ Ends(i) = {}
    PROVE  IInv'
<1> USE DEF IInv
<1>1. /\ input \in Text /\ Len(input) \in Nat /\ i \in Nat /\ i <= Len(input)
      /\ begin \in Nat /\ begin + Len(cToken) = i
    BY Typed
<1>2. /\ cToken = <<>> /\ current_index = 0
      /\ UNCHANGED <<input, cToken, cTokenMaxLen, current_index, startIndex, printed>>
    BY DEF SkipTo, Cursors
<1>3. Len(cToken) = 0 /\ begin = i
    BY <1>1, <1>2, Elements
<1>4. Ordered' /\ \A m : end(m)' = end(m)
    BY <1>2, OrderKept
<1>5. \A m \in 1..Len(printed) : end(m) <= i /\ end(m) \in Int
    <2> SUFFICES ASSUME NEW m \in 1..Len(printed) PROVE end(m) <= i /\ end(m) \in Int
        OBVIOUS
    <2>1. printed[m] \in LineType
        BY DEF Ordered
    <2>2. printed[m].at \in Nat /\ printed[m].text \in Text
        BY <2>1 DEF LineType
    <2> QED
        BY <1>3, <2>2 DEF Behind, end, Text
<1>6. CASE /\ pc' = "overrun" /\ UNCHANGED <<i, rest_index>>
           /\ Comment # 0 /\ Ends(i) = {}
    <2>1. i' \in 0..Len(input)
        BY <1>1, <1>6
    <2>2. TypeOK' /\ begin' = i'
        BY <1>2, <1>6, <2>1, Between
    <2>3. Cursors'
        BY <1>2, <1>3, <1>6 DEF Cursors
    <2>4. Behind' /\ Pieces'
        BY <1>2, <1>4, <1>5, <1>6, <2>2 DEF Behind, Pieces
    <2>5. ClosedCommentsStayInside'
        BY <1>2, <1>6 DEF ClosedCommentsStayInside, Comment, Ends
    <2> QED
        BY <1>2, <1>4, <2>2, <2>3, <2>4, <2>5
<1>7. CASE pc' = "skip" /\ i' \in i..Len(input) /\ rest_index' = 0
    <2>1. i' \in 0..Len(input) /\ i' \in Nat /\ i <= i'
        BY <1>1, <1>7
    <2>2. TypeOK' /\ begin' = i'
        BY <1>2, <1>7, <2>1, Between
    <2>3. Cursors'
        BY <1>2, <1>3, <1>7, <2>1, Elements DEF Cursors
    <2>4. \A m \in 1..Len(printed') : end(m)' <= i'
        BY <1>1, <1>2, <1>4, <1>5, <2>1
    <2>5. Behind' /\ Pieces' /\ ClosedCommentsStayInside'
        BY <1>7, <2>2, <2>4 DEF Behind, Pieces, ClosedCommentsStayInside
    <2> QED
        BY <1>2, <1>4, <2>2, <2>3, <2>5
<1> DEFINE first == CHOOSE p \in places : \A q \in places : p <= q
<1>8. CASE places = {}
    BY <1>6, <1>8 DEF SkipTo
<1>9. CASE places # {}
    <2>1. places \in SUBSET Nat
        BY <1>1
    <2>2. first \in places /\ \A q \in places : first <= q
        BY <1>9, <2>1, Least
    <2>3. IF n + first <= Len(input) THEN i' = n + first /\ rest_index' = 0 /\ UNCHANGED pc
          ELSE pc' = "overrun" /\ UNCHANGED <<i, rest_index>>
        BY <1>9 DEF SkipTo
    <2> HIDE DEF first
    <2>4. first \in i + 2..Len(input) - 1 /\ first \in Nat
        BY <1>1, <2>2
    <2>5. CASE n + first <= Len(input)
        <3>1. n + first \in i..Len(input)
            BY <1>1, <2>4, <2>5
        <3> QED
            BY <1>7, <2>3, <2>5, <3>1
    <2>6. CASE n + first > Len(input)
        <3>1. first = Len(input) - 1 /\ n = 2
            BY <1>1, <2>4, <2>6
        <3>2. ~(n + first <= Len(input))
            BY <1>1, <2>4, <2>6
        <3> QED
            BY <1>6, <2>2, <2>3, <3>1, <3>2
    <2> QED
        BY <1>1, <2>4, <2>5, <2>6
<1> QED
    BY <1>8, <1>9

LEMMA SkipBlockCommentStep == ASSUME IInv, SkipBlockComment PROVE IInv'
<1> DEFINE places == {j \in i + 2..Len(input) - 1 : At(input, j) = "*" \/ At(input, j + 1) = "\\"}
<1>1. /\ input \in Text /\ Len(input) \in Nat /\ i \in Nat /\ i <= Len(input)
    BY Typed DEF IInv
<1>2. pc = "skip" /\ Comment = 1 /\ SkipTo(places, 2)
    BY DEF SkipBlockComment
<1>3. checkComment(At(input, i), At(input, i + 1)) = 1
    BY <1>2 DEF Comment
<1>4. Comment # 0
    BY <1>2
<1>5. Ends(i) = {j \in i + 2..Len(input) - 2 : At(input, j) = "*" /\ At(input, j + 1) = "\\"}
    BY <1>3 DEF Ends
<1>6. ASSUME places = {} \/ \E p \in places : p = Len(input) - 1 /\ \A q \in places : p <= q
      PROVE  Ends(i) = {}
    <2>1. ASSUME NEW j \in Ends(i) PROVE FALSE
        <3>1. j \in i + 2..Len(input) - 2 /\ At(input, j) = "*"
            BY <1>5, <2>1
        <3>2. j \in places /\ j < Len(input) - 1
            BY <1>1, <3>1
        <3> HIDE DEF places
        <3> QED
            BY <1>1, <1>6, <3>1, <3>2
    <2> QED
        BY <2>1
<1>7. places \in SUBSET (i + 2..Len(input) - 1) /\ 2 \in 1..2
    OBVIOUS
<1> HIDE DEF places
<1> QED
    BY <1>2, <1>4, <1>6, <1>7, SkipStep

LEMMA SkipLineCommentStep == ASSUME IInv, SkipLineComment PROVE IInv'
<1> DEFINE places == {j \in i + 2..Len(input) - 1 : At(input, j) = "\n"}
<1>1. /\ input \in Text /\ Len(input) \in Nat /\ i \in Nat /\ i <= Len(input)
    BY Typed DEF IInv
<1>2. pc = "skip" /\ Comment = 2 /\ SkipTo(places, 1)
    BY DEF SkipLineComment
<1>3. checkComment(At(input, i), At(input, i + 1)) = 2
    BY <1>2 DEF Comment
<1>4. Comment # 0
    BY <1>2
<1>5. Ends(i) = places
    BY <1>3 DEF Ends
<1>6. places \in SUBSET (i + 2..Len(input) - 1) /\ 1 \in 1..2
    OBVIOUS
<1> HIDE DEF places
<1>7. places = {} => Ends(i) = {}
    BY <1>5
<1>8. ~(\E p \in places : p = Len(input) - 1 /\ 1 = 2 /\ \A q \in places : p <= q)
    OBVIOUS
<1> QED
    BY <1>2, <1>4, <1>6, <1>7, <1>8, SkipStep

\* What keeps the argument, the element, i and the output keeps what is said of them.
LEMMA Kept ==
    ASSUME IInv, UNCHANGED <<input, i, cToken, cTokenMaxLen, printed>>
    PROVE  /\ begin' = begin /\ InElement' = InElement /\ AtEnd' = AtEnd /\ Ordered'
           /\ \A n : end(n)' = end(n) /\ edge(n)' = edge(n)
<1>1. begin' = begin /\ \A n : end(n)' = end(n)
    BY DEF begin, end
<1>2. InElement' = InElement
    BY DEF InElement, Comment
<1>3. AtEnd' = AtEnd
    BY <1>2 DEF AtEnd
<1>4. Ordered'
    BY OrderKept DEF IInv
<1>5. \A n : edge(n)' = edge(n)
    BY <1>1 DEF edge
<1> QED
    BY <1>1, <1>2, <1>3, <1>4, <1>5

\* Only the place in the program changes.
LEMMA MoveStep == ASSUME IInv, Finish \/ EndSkip \/ EmptyElement PROVE IInv'
<1> USE DEF IInv
<1>1. UNCHANGED <<input, i, cToken, cTokenMaxLen, current_index, rest_index, startIndex, printed>>
    BY DEF Finish, EndSkip, EmptyElement
<1>2. \/ pc = "start" /\ pc' = "done"
      \/ pc = "skip" /\ pc' = "append" /\ InElement
      \/ pc = "match" /\ pc' = "reset" /\ cToken = <<>>
    BY DEF Finish, EndSkip, EmptyElement
<1>3. /\ begin' = begin /\ InElement' = InElement /\ AtEnd' = AtEnd /\ Ordered'
      /\ \A n : end(n)' = end(n) /\ edge(n)' = edge(n)
    BY <1>1, Kept
<1>4. TypeOK'
    BY <1>1, <1>2 DEF TypeOK
<1>5. ClosedCommentsStayInside'
    BY <1>2 DEF ClosedCommentsStayInside
<1>6. Behind'
    BY <1>1, <1>2, <1>3 DEF Behind
<1>7. Pieces'
    <2>1. CASE pc = "match" /\ pc' = "reset"
        <3>1. /\ \A n \in 1..Len(printed) :
                    /\ printed[n].at >= begin => printed[n].at = edge(n - 1)
                    /\ end(n) <= begin + startIndex
              /\ edge(Len(printed)) = begin + startIndex
            BY <2>1 DEF Pieces
        <3>2. edge(Len(printed))' = edge(Len(printed))
            BY <1>1, <1>3 DEF edge, end, begin
        <3>3. (begin + startIndex)' = begin + startIndex
            BY <1>1, <1>3
        <3> QED
            BY <1>1, <1>3, <3>1, <3>2, <3>3 DEF Pieces
    <2>2. CASE pc' \notin {"match", "reset"}
        BY <2>2 DEF Pieces
    <2> QED
        BY <1>2, <2>1, <2>2
<1>8. Cursors'
    <2>1. CASE pc = "start" /\ pc' = "done"
        BY <1>1, <2>1 DEF Cursors
    <2>2. CASE pc = "skip" /\ pc' = "append" /\ InElement
        BY <1>1, <2>2 DEF Cursors
    <2>3. CASE pc = "match" /\ pc' = "reset" /\ cToken = <<>>
        <3>1. rest_index = startIndex /\ AtEnd /\ startIndex = 0 /\ Len(cToken) = 0
            BY <2>3, Typed DEF Cursors
        <3>2. cToken \in Text /\ Len(cToken) <= i /\ cTokenMaxLen \in Nat
            BY DEF Cursors
        <3> QED
            BY <1>1, <1>3, <2>3, <3>1, <3>2 DEF Cursors
    <2> QED
        BY <1>2, <2>1, <2>2, <2>3
<1> QED
    BY <1>1, <1>3, <1>4, <1>5, <1>6, <1>7, <1>8

\* One character more, with room made for it.
LEMMA AppendCharStep == ASSUME IInv, AppendChar PROVE IInv'
<1> USE DEF IInv
<1>1. /\ input \in Text /\ Len(input) \in Nat /\ i \in Nat /\ i <= Len(input)
      /\ cToken \in Text /\ Len(cToken) \in Nat /\ Len(cToken) <= i
      /\ begin \in Nat /\ begin + Len(cToken) = i
      /\ cToken = SubSeq(input, begin + 1, i)
    BY Typed
<1>2. /\ pc = "append" /\ current_index = 0 /\ rest_index = 0 /\ At(input, i) # NUL
      /\ cToken' = Append(cToken, At(input, i)) /\ i' = i + 1
      /\ UNCHANGED <<input, pc, current_index, rest_index, startIndex, printed>>
    BY DEF AppendChar, Cursors
<1>3. i < Len(input)
    BY <1>1, <1>2, AtNul
<1>4. /\ At(input, i) \in STRING \ {NUL}
      /\ cToken' = SubSeq(input, begin + 1, i + 1)
    <2>1. begin <= i
        BY <1>1
    <2>2. /\ At(input, i) \in STRING \ {NUL}
          /\ Append(SubSeq(input, begin + 1, i), At(input, i)) = SubSeq(input, begin + 1, i + 1)
        BY <1>1, <1>3, <2>1, LongerElement
    <2>3. cToken' = Append(cToken, At(input, i))
        BY <1>2
    <2>4. Append(cToken, At(input, i)) = Append(SubSeq(input, begin + 1, i), At(input, i))
        BY <1>1
    <2> QED
        BY <2>2, <2>3, <2>4
<1>5. cToken' \in Text /\ Len(cToken') = Len(cToken) + 1
    <2>1. /\ Append(cToken, At(input, i)) \in Seq(STRING \ {NUL})
          /\ Len(Append(cToken, At(input, i))) = Len(cToken) + 1
        BY <1>1, <1>4, AppendProperties DEF Text
    <2> QED
        BY <1>2, <2>1 DEF Text
<1>6. begin' = begin
    BY <1>1, <1>2, <1>5 DEF begin
<1>7. cTokenMaxLen' \in Nat /\ Len(cToken) + 2 <= cTokenMaxLen'
    <2>1. cTokenMaxLen \in Nat /\ Len(cToken) + 1 <= cTokenMaxLen
        BY DEF Cursors, TypeOK
    <2>2. cTokenMaxLen' = IF Len(cToken) + 1 < cTokenMaxLen THEN cTokenMaxLen ELSE cTokenMaxLen * 2
        BY DEF AppendChar
    <2>3. \A n \in Nat, max \in Nat : n + 1 <= max =>
             (IF n + 1 < max THEN max ELSE max * 2) \in Nat
             /\ n + 2 <= (IF n + 1 < max THEN max ELSE max * 2)
        OBVIOUS
    <2> QED
        BY <1>1, <2>1, <2>2, <2>3
<1>8. TypeOK'
    <2>1. cToken' = SubSeq(input', i' - Len(cToken') + 1, i')
        <3>1. i' - Len(cToken') = begin
            BY <1>6 DEF begin
        <3> QED
            BY <1>2, <1>4, <3>1
    <2>2. i' \in 0..Len(input')
        BY <1>1, <1>2, <1>3
    <2>3. Len(cToken') + 1 <= cTokenMaxLen'
        BY <1>1, <1>5, <1>7
    <2>4. /\ current_index' \in 0..Len(input') + 1
          /\ startIndex' \in 0..Len(input') /\ rest_index' \in 0..Len(input')
        BY <1>2 DEF TypeOK
    <2> QED
        BY <1>2, <2>1, <2>2, <2>3, <2>4 DEF TypeOK
<1>9. Cursors'
    <2>1. Len(cToken') <= i'
        BY <1>1, <1>2, <1>5
    <2> QED
        BY <1>2, <1>5, <1>7, <2>1 DEF Cursors
<1>10. Ordered' /\ Behind' /\ Pieces'
    <2>1. Ordered' /\ \A n : end(n)' = end(n)
        BY <1>2, OrderKept
    <2> QED
        BY <1>2, <1>6, <2>1 DEF Behind, Pieces
<1>11. ClosedCommentsStayInside'
    BY <1>2 DEF ClosedCommentsStayInside
<1> QED
    BY <1>2, <1>8, <1>9, <1>10, <1>11

\* The element is whole, and its pieces are looked for from its beginning.
LEMMA EndElementStep == ASSUME IInv, EndElement PROVE IInv'
<1> USE DEF IInv
<1>1. /\ input \in Text /\ Len(input) \in Nat /\ begin \in Nat
      /\ Len(cToken) \in Nat /\ (cToken = <<>> <=> Len(cToken) = 0)
    BY Typed
<1>2. /\ pc = "append" /\ pc' = "match" /\ startIndex' = 0 /\ AtEnd
      /\ current_index = 0 /\ rest_index = 0
      /\ UNCHANGED <<input, i, cToken, cTokenMaxLen, current_index, rest_index, printed>>
    BY DEF EndElement, Cursors, AtEnd
<1>3. /\ begin' = begin /\ AtEnd' = AtEnd /\ Ordered'
      /\ \A n : end(n)' = end(n) /\ edge(n)' = edge(n)
    BY <1>2, Kept
<1>4. TypeOK'
    BY <1>1, <1>2 DEF TypeOK
<1>5. Cursors'
    <2>1. cToken \in Text /\ Len(cToken) <= i /\ cTokenMaxLen \in Nat
        BY DEF Cursors
    <2>2. startIndex' < Len(cToken) \/ (cToken = <<>> /\ startIndex' = 0)
        BY <1>1, <1>2
    <2> QED
        BY <1>2, <1>3, <2>1, <2>2 DEF Cursors
<1>6. Pieces'
    <2>1. ASSUME NEW n \in 1..Len(printed)
          PROVE  end(n) <= begin /\ printed[n].at < begin
        <3>1. printed[n] \in LineType /\ printed[n].text # <<>>
            BY DEF Ordered
        <3>2. printed[n].at \in Nat /\ printed[n].text \in Text /\ Len(printed[n].text) > 0
            BY <3>1 DEF LineType, Text
        <3>3. end(n) <= begin
            BY <1>2 DEF Behind
        <3> QED
            BY <1>1, <3>2, <3>3 DEF end, Text
    <2>2. PICK N \in Nat : N = Len(printed)
        BY DEF Ordered
    <2>3. ASSUME NEW n \in 0..N PROVE edge(n) = begin
        <3>1. n > 0 => ~(printed[n].at >= begin)
            <4>1. ASSUME n > 0 PROVE ~(printed[n].at >= begin)
                <5>1. n \in 1..Len(printed) /\ printed[n] \in LineType
                    BY <2>2, <4>1 DEF Ordered
                <5>2. printed[n].at \in Nat /\ printed[n].at < begin
                    BY <2>1, <5>1 DEF LineType
                <5> QED
                    BY <1>1, <5>2
            <4> QED
                BY <4>1
        <3> QED
            BY <3>1 DEF edge
    <2>4. edge(N)' = begin /\ Len(printed') = N /\ (begin + startIndex)' = begin
        BY <1>1, <1>2, <1>3, <2>2, <2>3
    <2>5. ASSUME NEW n \in 1..N
          PROVE  ~(printed'[n].at >= begin') /\ end(n)' <= begin
        <3>1. printed[n] \in LineType /\ n \in 1..Len(printed)
            BY <2>2 DEF Ordered
        <3>2. printed[n].at \in Nat /\ printed[n].at < begin /\ end(n) <= begin
            BY <2>1, <3>1 DEF LineType
        <3> QED
            BY <1>1, <1>2, <1>3, <3>2
    <2> QED
        BY <2>4, <2>5 DEF Pieces
<1>7. Behind' /\ ClosedCommentsStayInside'
    BY <1>2 DEF Behind, ClosedCommentsStayInside
<1> QED
    BY <1>2, <1>3, <1>4, <1>5, <1>6, <1>7

LEMMA ResetStep == ASSUME IInv, Reset PROVE IInv'
<1> USE DEF IInv
<1>1. /\ input \in Text /\ Len(input) \in Nat /\ i \in Nat /\ i <= Len(input)
      /\ Len(cToken) \in Nat /\ Len(cToken) <= i
      /\ begin \in Nat /\ begin + Len(cToken) = i /\ startIndex \in Nat /\ rest_index \in Nat
    BY Typed
<1>2. /\ pc = "reset" /\ pc' = "start" /\ cToken' = <<>> /\ current_index' = 0
      /\ UNCHANGED <<input, i, cTokenMaxLen, rest_index, startIndex, printed>>
    BY DEF Reset
<1>3. rest_index = startIndex /\ startIndex <= Len(cToken) /\ AtEnd /\ cTokenMaxLen \in Nat
    BY <1>2 DEF Cursors
<1>4. cToken' \in Text /\ Len(cToken') = 0 /\ begin' = i
    <2>1. Len(cToken') = 0
        BY <1>2, Elements
    <2>2. \A a \in Nat, b \in Nat : b = 0 => a - b = a
        OBVIOUS
    <2>3. Len(cToken') \in Nat
        BY <2>1
    <2>4. i' - Len(cToken') = i
        BY <1>1, <1>2, <2>1, <2>2, <2>3
    <2> QED
        BY <1>2, <2>1, <2>4, Elements DEF begin
<1>5. TypeOK'
    <2>1. cToken' = SubSeq(input', i' - Len(cToken') + 1, i')
        <3>1. i' - Len(cToken') = i
            BY <1>4 DEF begin
        <3> QED
            BY <1>1, <1>2, <3>1, Elements
    <2>2. Len(cToken') + 1 <= cTokenMaxLen'
        <3>1. Len(cToken) + 1 <= cTokenMaxLen
            BY DEF TypeOK
        <3> QED
            BY <1>1, <1>2, <1>3, <1>4, <3>1
    <2>3. current_index' \in 0..Len(input') + 1
        BY <1>1, <1>2
    <2>4. i' \in 0..Len(input') /\ startIndex' \in 0..Len(input') /\ rest_index' \in 0..Len(input')
        BY <1>2 DEF TypeOK
    <2> QED
        BY <1>2, <2>1, <2>2, <2>3, <2>4 DEF TypeOK
<1>6. Cursors'
    <2>1. AtEnd' = AtEnd
        BY <1>2 DEF AtEnd, InElement, Comment
    <2>2. i = 0 => rest_index = 0
        BY <1>1, <1>3
    <2>3. Len(cToken') <= i'
        BY <1>1, <1>2, <1>4
    <2> QED
        BY <1>2, <1>3, <1>4, <2>1, <2>2, <2>3 DEF Cursors
<1>7. Ordered' /\ Behind' /\ Pieces'
    <2>1. Ordered' /\ \A n : end(n)' = end(n)
        BY <1>2, OrderKept
    <2>2. ASSUME NEW n \in 1..Len(printed) PROVE end(n) <= i
        <3>1. printed[n] \in LineType
            BY DEF Ordered
        <3>2. printed[n].at \in Nat /\ printed[n].text \in Text
            BY <3>1 DEF LineType
        <3>3. end(n) \in Int
            BY <3>2 DEF end, Text
        <3>4. end(n) <= begin + startIndex
            BY <1>2 DEF Pieces
        <3> QED
            BY <1>1, <1>3, <3>3, <3>4
    <2> QED
        BY <1>2, <1>4, <2>1, <2>2 DEF Behind, Pieces
<1>8. ClosedCommentsStayInside'
    BY <1>2 DEF ClosedCommentsStayInside
<1> QED
    BY <1>2, <1>5, <1>6, <1>7, <1>8

\* A piece of the element, or the end of the loop over it.
LEMMA MatchStep == ASSUME IInv, Match PROVE IInv'
<1> USE DEF IInv
<1>1. /\ input \in Text /\ Len(input) \in Nat /\ i \in Nat /\ i <= Len(input)
      /\ cToken \in Text /\ Len(cToken) \in Nat /\ Len(cToken) <= i
      /\ begin \in Nat /\ begin + Len(cToken) = i
      /\ startIndex \in Nat /\ (cToken = <<>> <=> Len(cToken) = 0)
    BY Typed
<1>2. /\ pc = "match" /\ current_index < Len(cToken)
      /\ Matched(checkTokenType(cToken, rest_index), begin)
      /\ UNCHANGED <<input, i, cToken, cTokenMaxLen>>
    BY DEF Match, begin
<1>3. /\ rest_index = startIndex /\ current_index = startIndex /\ AtEnd /\ startIndex < Len(cToken)
      /\ cTokenMaxLen \in Nat
    BY <1>2 DEF Cursors
<1>4. PICK b \in Nat, r \in Nat, L \in Nat, N \in Nat :
        b = begin /\ r = startIndex /\ L = Len(cToken) /\ N = Len(printed)
    <2>1. Len(printed) \in Nat
        BY DEF Ordered
    <2> QED
        BY <1>1, <2>1
<1>5. b + L = i /\ b + L <= Len(input) /\ r < L /\ r \in 0..Len(cToken) - 1
    BY <1>1, <1>3, <1>4
<1> DEFINE type == checkTokenType(cToken, r)
<1>6. PICK num \in -1..46, last \in r..L + 1 :
        type.num = num /\ type.last = last /\ (last >= L => Lost(SubSeq(cToken, r + 1, L), r))
    BY <1>1, <1>4, <1>5, TokenStands
<1>7. Matched(type, b) /\ last \in Nat
    BY <1>2, <1>3, <1>4, <1>6
<1> HIDE DEF type
<1>8. AtEnd' = AtEnd /\ begin' = b /\ Len(cToken') = L /\ cToken' \in Text /\ i' = i
      /\ Len(input') = Len(input)
    BY <1>1, <1>2, <1>4 DEF AtEnd, InElement, Comment, begin
<1>9. /\ \A n \in 1..N : (printed[n].at >= b => printed[n].at = edge(n - 1)) /\ end(n) <= b + r
      /\ edge(N) = b + r
    BY <1>2, <1>4 DEF Pieces
<1>10. ASSUME startIndex' \in 0..L, current_index' \in 0..L + 1, rest_index' = startIndex',
              pc' \in {"match", "reset"}
       PROVE  TypeOK'
    <2>1. /\ cToken' = SubSeq(input', i' - Len(cToken') + 1, i')
          /\ i' \in 0..Len(input') /\ Len(cToken') + 1 <= cTokenMaxLen'
        BY <1>2 DEF TypeOK
    <2>2. startIndex' \in 0..Len(input') /\ current_index' \in 0..Len(input') + 1
        BY <1>1, <1>5, <1>8, <1>10
    <2> QED
        BY <1>10, <2>1, <2>2 DEF TypeOK
<1>11. CASE last < L
    <2> DEFINE name == getTokenName(num)
               from == b + r
               to == b + last + 1
    <2>1. /\ printed' = Append(printed, Line(name, from, to))
          /\ rest_index' = r + (last + 1 - r) /\ startIndex' = last + 1
          /\ current_index' = IF last + 1 = L THEN last ELSE last + 1
          /\ pc' = IF last + 1 < L THEN "match" ELSE "reset"
        BY <1>3, <1>4, <1>6, <1>7, <1>11 DEF Matched
    <2>2. name \in Names
        BY Named
    <2>3. from \in Nat /\ to \in Nat /\ from < to /\ to <= Len(input) /\ from >= b
        BY <1>1, <1>5, <1>6, <1>11
    <2>4. rest_index' = last + 1 /\ startIndex' = last + 1 /\ last + 1 <= L
          /\ current_index' \in {last, last + 1}
        BY <1>6, <1>11, <2>1
    <2>5. \A n \in 1..Len(printed) : end(n) <= from
        BY <1>4, <1>9
    <2> HIDE DEF name, from, to
    <2>6. /\ Ordered' /\ Len(printed') = N + 1
          /\ \A n \in 1..N : printed'[n] = printed[n] /\ end(n)' = end(n)
          /\ printed'[N + 1].at = from /\ end(N + 1)' = to
        BY <1>1, <1>2, <1>4, <2>1, <2>2, <2>3, <2>5, AppendLine
    <2>7. TypeOK'
        BY <1>6, <1>10, <2>1, <2>4
    <2>8. Cursors'
        <3>1. startIndex' < L \/ startIndex' = L
            BY <1>6, <2>4
        <3>2. pc' = "match" => startIndex' < L /\ current_index' = startIndex'
            BY <1>6, <2>1, <2>4
        <3>3. pc' = "reset" => startIndex' = L
            BY <1>6, <2>1, <2>4
        <3>4. pc' \in {"match", "reset"} /\ Len(cToken') <= i' /\ cTokenMaxLen' \in Nat
            BY <1>1, <1>2, <1>3, <1>4, <1>8, <2>1
        <3>5. startIndex' <= L
            BY <1>6, <2>4
        <3> QED
            BY <1>3, <1>8, <2>4, <3>2, <3>3, <3>4, <3>5 DEF Cursors
    <2>9. Pieces'
        <3>1. (begin + startIndex)' = to
            BY <1>8, <2>4 DEF to
        <3>2. edge(N + 1)' = to
            <4>1. N + 1 > 0 /\ printed'[N + 1].at >= begin'
                BY <1>8, <2>3, <2>6
            <4> QED
                BY <2>6, <4>1 DEF edge
        <3>3. \A n \in 0..N : edge(n)' = edge(n)
            BY <1>4, <1>8, <2>6 DEF edge
        <3>4. ASSUME NEW n \in 1..N + 1
              PROVE  /\ printed'[n].at >= begin' => printed'[n].at = edge(n - 1)'
                     /\ end(n)' <= to
            <4>1. CASE n = N + 1
                <5>1. n - 1 = N /\ edge(N)' = from
                    BY <1>9, <3>3, <4>1 DEF from
                <5> QED
                    BY <2>3, <2>6, <4>1, <5>1
            <4>2. CASE n \in 1..N
                <5>1. n - 1 \in 0..N
                    BY <4>2
                <5>2. /\ printed[n].at >= b => printed[n].at = edge(n - 1)
                      /\ end(n) <= from
                    BY <1>9, <4>2 DEF from
                <5>3. end(n) \in Int
                    <6>1. printed[n] \in LineType
                        BY <1>4, <4>2 DEF Ordered
                    <6>2. printed[n].at \in Nat /\ printed[n].text \in Text
                        BY <6>1 DEF LineType
                    <6> QED
                        BY <6>2 DEF end, Text
                <5>4. end(n) <= to
                    BY <2>3, <5>2, <5>3
                <5> QED
                    BY <1>8, <2>6, <3>3, <4>2, <5>1, <5>2, <5>4
            <4> QED
                BY <4>1, <4>2
        <3>5. edge(Len(printed))' = edge(N + 1)'
            BY <2>6 DEF edge, end, begin
        <3> QED
            BY <2>6, <3>1, <3>2, <3>4, <3>5 DEF Pieces
    <2>10. Behind' /\ ClosedCommentsStayInside'
        BY <2>1 DEF Behind, ClosedCommentsStayInside
    <2> QED
        BY <1>2, <2>6, <2>7, <2>8, <2>9, <2>10
<1>12. CASE last >= L
    <2>1. /\ current_index' = last /\ UNCHANGED <<printed, rest_index, startIndex>>
          /\ pc' = "reset"
        <3>1. ~(last < L) /\ ~(last + 1 < L)
            BY <1>6, <1>12
        <3> QED
            BY <1>3, <1>4, <1>6, <1>7, <3>1 DEF Matched
    <2>2. TypeOK'
        BY <1>3, <1>4, <1>5, <1>6, <1>10, <2>1
    <2>3. Ordered' /\ \A n : end(n)' = end(n) /\ edge(n)' = edge(n)
        BY <1>2, <2>1, Kept
    <2>4. Cursors'
        <3>1. /\ startIndex' = r /\ rest_index' = r /\ r <= L /\ Len(cToken') <= i'
              /\ cTokenMaxLen' \in Nat
            BY <1>1, <1>2, <1>3, <1>4, <1>5, <1>8, <2>1
        <3>2. Lost(SubSeq(cToken', r + 1, Len(cToken')), r)
            BY <1>2, <1>4, <1>6, <1>12
        <3> QED
            BY <1>3, <1>8, <2>1, <3>1, <3>2 DEF Cursors
    <2>5. Pieces'
        <3>1. edge(Len(printed))' = edge(N)
            BY <1>2, <1>4, <2>1 DEF edge, end, begin
        <3>2. (begin + startIndex)' = b + r
            BY <1>4, <1>8, <2>1
        <3> QED
            BY <1>4, <1>8, <1>9, <2>1, <2>3, <3>1, <3>2 DEF Pieces
    <2>6. Behind' /\ ClosedCommentsStayInside'
        BY <2>1 DEF Behind, ClosedCommentsStayInside
    <2> QED
        BY <1>2, <2>2, <2>3, <2>4, <2>5, <2>6
<1> QED
    BY <1>6, <1>11, <1>12

LEMMA NextInv == IInv /\ [Next]_vars => IInv'
<1> SUFFICES ASSUME IInv, [Next]_vars PROVE IInv'
    OBVIOUS
<1>1. CASE Next
    BY <1>1, StartStep, MoveStep, SkipDelimiterStep, SkipBlockCommentStep, SkipLineCommentStep,
       AppendCharStep, EndElementStep, MatchStep, ResetStep DEF Next
<1>2. CASE UNCHANGED vars
    <2>1. UNCHANGED <<input, pc, i, cToken, cTokenMaxLen, current_index, rest_index, startIndex,
                      printed>>
        BY <1>2 DEF vars
    <2>2. /\ begin' = begin /\ InElement' = InElement /\ AtEnd' = AtEnd /\ Ordered'
          /\ \A n : end(n)' = end(n) /\ edge(n)' = edge(n)
        BY <2>1, Kept
    <2>3. TypeOK' /\ Cursors' /\ ClosedCommentsStayInside'
        BY <2>1, <2>2 DEF IInv, TypeOK, Cursors, ClosedCommentsStayInside, Comment, Ends
    <2>4. Behind' /\ Pieces'
        <3>1. edge(Len(printed))' = edge(Len(printed))
            BY <2>1, <2>2 DEF edge, end, begin
        <3> QED
            BY <2>1, <2>2, <3>1 DEF IInv, Behind, Pieces
    <2> QED
        BY <2>1, <2>2, <2>3, <2>4 DEF IInv
<1> QED
    BY <1>1, <1>2

-----------------------------------------------------------------------------
(***************************************************************************)
(* The lines and their names.                                              *)
(***************************************************************************)
\* What comes behind a line in the argument.
After(k) == <<At(input, k), At(input, k + 1), At(input, k + 2)>>
LineFits(l, next) == Misread(l.text) \/ Known(l.name, l.text, next)
Labels ==
    /\ \A n \in 1..Len(printed) : LineFits(printed[n], After(end(n)))
    /\ pc = "match" /\ cToken = SIZEOF => startIndex = 0

\* A line more, that fits.
LEMMA AppendFits ==
    ASSUME input \in Text, Ordered, Labels, NEW name \in Names,
           NEW from \in Nat, NEW to \in Nat, from < to, to <= Len(input),
           printed' = Append(printed, Line(name, from, to)), UNCHANGED input,
           LineFits(Line(name, from, to), After(to))
    PROVE  \A n \in 1..Len(printed') : LineFits(printed'[n], After(end(n))')
<1>1. Len(input) \in Nat /\ input \in Seq(STRING \ {NUL})
    BY DEF Text
<1>2. PICK line : line = Line(name, from, to)
    OBVIOUS
<1>3. line.text \in Text /\ Len(line.text) = to - from /\ line.at = from
    BY <1>1, <1>2 DEF Line, Text
<1>4. line \in LineType /\ line.at + Len(line.text) = to
    BY <1>2, <1>3 DEF Line, LineType
<1>5. PICK N \in Nat : N = Len(printed)
    BY DEF Ordered
<1>6. /\ printed' \in Seq(LineType) /\ Len(printed') = N + 1
      /\ \A n \in 1..N : printed'[n] = printed[n]
      /\ printed'[N + 1] = line
    <2>1. printed' = Append(printed, line) /\ printed \in Seq(LineType)
        BY <1>2 DEF Ordered
    <2> QED
        BY <1>4, <1>5, <2>1, AppendProperties
<1>7. ASSUME NEW n \in 1..N PROVE LineFits(printed'[n], After(end(n))')
    <2>1. printed'[n] = printed[n] /\ end(n)' = end(n)
        BY <1>6 DEF end
    <2>2. After(end(n))' = After(end(n))
        BY <2>1 DEF After
    <2> QED
        BY <1>5, <2>1, <2>2 DEF Labels
<1>8. LineFits(printed'[N + 1], After(end(N + 1))')
    <2>1. end(N + 1)' = to
        BY <1>4, <1>6 DEF end
    <2>2. After(end(N + 1))' = After(to)
        BY <2>1 DEF After
    <2> QED
        BY <1>2, <1>6, <2>1, <2>2
<1>9. \A n \in 1..N + 1 : n \in 1..N \/ n = N + 1
    OBVIOUS
<1> QED
    BY <1>6, <1>7, <1>8, <1>9

\* A keyword fits.
LEMMA PassFits ==
    ASSUME input \in Text, Ordered, Labels, NEW k \in 0..Len(input), PassKeyword(k), UNCHANGED input
    PROVE  \A n \in 1..Len(printed') : LineFits(printed'[n], After(end(n))')
<1>1. PICK last \in k..Len(input) : last = checkKeywordPresent(input, k)
    BY KeywordEnds
<1>2. Len(input) \in Nat /\ k \in Nat /\ last \in Nat
    BY DEF Text
<1>3. printed' = IF last = k THEN printed ELSE Append(printed, Line("C Keyword", k, last))
    BY <1>1 DEF PassKeyword
<1>4. CASE last = k
    <2>1. printed' = printed
        BY <1>3, <1>4
    <2>2. \A n : After(end(n))' = After(end(n))
        BY <2>1 DEF end, After
    <2> QED
        BY <2>1, <2>2 DEF Labels
<1>5. CASE last # k
    <2>1. isKeyword(SubSeq(input, k + 1, last)) /\ (At(input, last) = NUL \/ checkDelimiter(At(input, last)))
        BY <1>1, <1>5, KeywordIs
    <2>2. LineFits(Line("C Keyword", k, last), After(last))
        BY <2>1 DEF LineFits, Line, Known, After
    <2>3. "C Keyword" \in Names /\ k < last /\ last <= Len(input)
        BY <1>2, <1>5 DEF Names
    <2>4. printed' = Append(printed, Line("C Keyword", k, last))
        BY <1>3, <1>5
    <2> QED
        BY <1>2, <2>2, <2>3, <2>4, AppendFits
<1> QED
    BY <1>4, <1>5

\* A piece of the element fits.
LEMMA MatchFits ==
    ASSUME IInv, Labels, Match
    PROVE  Labels'
<1> USE DEF IInv
<1>1. /\ input \in Text /\ Len(input) \in Nat /\ i \in Nat /\ i <= Len(input)
      /\ cToken \in Text /\ Len(cToken) \in Nat /\ Len(cToken) <= i
      /\ begin \in Nat /\ begin + Len(cToken) = i /\ cToken = SubSeq(input, begin + 1, i)
      /\ startIndex \in Nat /\ (cToken = <<>> <=> Len(cToken) = 0)
    BY Typed
<1>2. /\ pc = "match" /\ current_index < Len(cToken)
      /\ Matched(checkTokenType(cToken, rest_index), begin)
      /\ UNCHANGED <<input, i, cToken, cTokenMaxLen>>
    BY DEF Match, begin
<1>3. rest_index = startIndex /\ startIndex < Len(cToken) /\ AtEnd /\ current_index = startIndex
    BY <1>2 DEF Cursors
<1>4. PICK t \in Text, b \in Nat, r \in Nat, L \in Nat :
        t = cToken /\ b = begin /\ r = startIndex /\ L = Len(t)
    BY <1>1
<1>5. b + L = i /\ b + L <= Len(input) /\ r < L /\ r \in 0..Len(t) - 1
    BY <1>1, <1>3, <1>4
<1>6. PICK type : type = checkTokenType(t, r)
    OBVIOUS
<1>7. PICK num \in -1..46, last \in r..L + 1 : type.num = num /\ type.last = last
    BY <1>4, <1>5, <1>6, TokenStands
<1>8. Matched(type, b) /\ (t = SIZEOF => r = 0) /\ last \in Nat
    BY <1>2, <1>3, <1>4, <1>6, <1>7 DEF Labels
<1>9. pc' = "match" /\ cToken' = SIZEOF => startIndex' = 0
    <2>1. ASSUME pc' = "match", cToken' = SIZEOF PROVE FALSE
        <3>1. t = SIZEOF /\ r = 0
            BY <1>2, <1>4, <1>8, <2>1
        <3>2. checkTokenType(t, r) = Type(11, 5) /\ Len(t) = 6
            BY <3>1, SizeofToken
        <3>3. type.last = 5 /\ L = 6
            BY <1>4, <1>6, <3>2, Typing
        <3>4. last + 1 < L
            BY <1>4, <1>7, <1>8, <2>1 DEF Matched
        <3> QED
            BY <1>7, <3>3, <3>4
    <2> QED
        BY <2>1
<1>10. CASE last >= L
    <2>1. printed' = printed
        <3>1. ~(last < L)
            BY <1>7, <1>10
        <3> QED
            BY <1>4, <1>7, <1>8, <3>1 DEF Matched
    <2>2. \A n : After(end(n))' = After(end(n))
        BY <1>2, <2>1 DEF end, After
    <2> QED
        BY <1>2, <1>9, <2>1, <2>2 DEF Labels
<1>11. CASE last < L
    <2>1. PICK from \in Nat, to \in Nat, name \in Names :
            from = b + r /\ to = b + last + 1 /\ name = getTokenName(num)
        BY <1>7, <1>8, Named
    <2>2. printed' = Append(printed, Line(name, from, to))
        BY <1>4, <1>7, <1>8, <1>11, <2>1 DEF Matched
    <2>3. from < to /\ to <= Len(input) /\ last \in r..Len(t) - 1 /\ last \in 0..Len(t) - 1
        BY <1>4, <1>5, <1>7, <1>11, <2>1
    <2>4. Labelled(t, r, type)
        BY <1>4, <1>5, <1>6, <1>7, <1>8, <1>11, TokenLabelled
    \* The element's characters are the argument's.
    <2>5. \A j \in 0..L - 1 : At(t, j) = At(input, b + j)
        <3>1. ASSUME NEW j \in 0..L - 1 PROVE At(t, j) = At(input, b + j)
            <4>1. At(t, j) = t[j + 1]
                BY <1>4 DEF At
            <4>2. At(input, b + j) = input[b + j + 1]
                <5>1. b + j \in 0..Len(input) - 1
                    BY <1>1, <1>5
                <5> QED
                    BY <5>1 DEF At
            <4>3. t = SubSeq(input, b + 1, b + L)
                BY <1>1, <1>4, <1>5
            <4>4. t[j + 1] = input[b + j + 1]
                <5>1. j + 1 \in 1..L /\ b + 1 <= b + L /\ b + 1 + (j + 1) - 1 = b + j + 1
                    OBVIOUS
                <5> QED
                    BY <1>1, <1>5, <4>3, <5>1 DEF Text
            <4> QED
                BY <4>1, <4>2, <4>4
        <3> QED
            BY <3>1
    <2>6. SubSeq(input, from + 1, to) = Piece(t, r, last)
        <3>1. /\ SubSeq(input, from + 1, to) \in Seq(STRING \ {NUL})
              /\ Len(SubSeq(input, from + 1, to)) = to - from
              /\ \A n \in 1..to - from : SubSeq(input, from + 1, to)[n] = input[from + n]
            BY <1>1, <2>3 DEF Text
        <3>2. /\ Piece(t, r, last) \in Seq(STRING \ {NUL}) /\ Len(Piece(t, r, last)) = last + 1 - r
              /\ \A n \in 1..last + 1 - r : Piece(t, r, last)[n] = At(t, r + n - 1)
            <4>1. PICK m \in r..Len(t) - 1 : m = last
                BY <2>3
            <4>2. Piece(t, r, m) \in Text /\ Len(Piece(t, r, m)) = m + 1 - r
                BY PieceChars
            <4>3. \A n \in 1..m + 1 - r : Piece(t, r, m)[n] = At(t, r + n - 1)
                BY PieceChars
            <4> QED
                BY <4>1, <4>2, <4>3 DEF Text
        <3>3. to - from = last + 1 - r
            BY <1>8, <2>1
        <3>4. ASSUME NEW n \in 1..last + 1 - r
              PROVE  SubSeq(input, from + 1, to)[n] = Piece(t, r, last)[n]
            <4>1. r + n - 1 \in 0..L - 1 /\ b + (r + n - 1) = from + n - 1
                BY <1>5, <1>8, <1>11, <2>1
            <4>2. from + n - 1 \in 0..Len(input) - 1 /\ from + n - 1 + 1 = from + n
                BY <1>1, <1>5, <2>1, <4>1
            <4>3. At(input, from + n - 1) = input[from + n]
                BY <4>2 DEF At
            <4>4. At(t, r + n - 1) = At(input, from + n - 1)
                BY <2>5, <4>1
            <4> QED
                BY <3>1, <3>2, <3>3, <4>3, <4>4
        <3> QED
            BY <3>1, <3>2, <3>3, <3>4, SeqEqual
    <2>7. Followed(t, last, After(to))
        <3>1. b + (last + 1) = to /\ b + (last + 2) = to + 1 /\ b + (last + 3) = to + 2 /\ to + 0 = to
            BY <1>8, <2>1
        <3>2. Ending(At(input, i))
            BY <1>3 DEF AtEnd, InElement, Comment, checkComment, Ending
        <3>3. last + 1 < Len(t) => At(t, last + 1) = At(input, to)
            <4>1. last + 1 < Len(t) => last + 1 \in 0..L - 1
                BY <1>4, <1>8
            <4> QED
                BY <2>5, <3>1, <4>1
        <3>4. last + 2 < Len(t) => At(t, last + 2) = At(input, to + 1)
            <4>1. last + 2 < Len(t) => last + 2 \in 0..L - 1
                BY <1>4, <1>8
            <4> QED
                BY <2>5, <3>1, <4>1
        <3>5. last + 3 < Len(t) => At(t, last + 3) = At(input, to + 2)
            <4>1. last + 3 < Len(t) => last + 3 \in 0..L - 1
                BY <1>4, <1>8
            <4> QED
                BY <2>5, <3>1, <4>1
        <3>6. ~(last + 1 < Len(t)) => to = i
            BY <1>4, <1>5, <1>8, <1>11, <2>1
        <3>7. last + 2 = Len(t) => to + 1 = i
            BY <1>4, <1>5, <1>8, <2>1
        <3> QED
            BY <3>2, <3>3, <3>4, <3>5, <3>6, <3>7 DEF Followed, After
    <2>8. LineFits(Line(name, from, to), After(to))
        <3>1. Misread(Piece(t, r, last)) \/ Known(name, Piece(t, r, last), After(to))
            BY <1>7, <2>1, <2>4, <2>7 DEF Labelled
        <3>2. Line(name, from, to).text = Piece(t, r, last) /\ Line(name, from, to).name = name
            BY <2>6 DEF Line
        <3> QED
            BY <3>1, <3>2 DEF LineFits
    <2>9. \A n \in 1..Len(printed') : LineFits(printed'[n], After(end(n))')
        BY <1>1, <1>2, <2>2, <2>3, <2>8, AppendFits
    <2> QED
        BY <1>2, <1>9, <2>9 DEF Labels
<1> QED
    BY <1>7, <1>10, <1>11

LEMMA LabelsStep == IInv /\ Labels /\ [Next]_vars => Labels'
<1> SUFFICES ASSUME IInv, Labels, [Next]_vars PROVE Labels'
    OBVIOUS
<1>1. input \in Text /\ Len(input) \in Nat /\ i \in Nat /\ i <= Len(input) /\ Ordered
    BY Typed DEF IInv
<1>2. ASSUME UNCHANGED <<input, printed>>
      PROVE  \A n \in 1..Len(printed') : LineFits(printed'[n], After(end(n))')
    BY <1>2 DEF Labels, end, After
<1>3. CASE Match
    BY <1>3, MatchFits
<1>4. CASE Start
    <2>1. UNCHANGED input /\ pc' = "skip"
        BY <1>4 DEF Start
    <2>2. PassKeyword(0) \/ UNCHANGED printed
        BY <1>4 DEF Start
    <2>3. \A n \in 1..Len(printed') : LineFits(printed'[n], After(end(n))')
        BY <1>1, <1>2, <2>1, <2>2, PassFits
    <2> QED
        BY <2>1, <2>3 DEF Labels
<1>5. CASE SkipDelimiter
    <2>1. UNCHANGED <<input, pc>> /\ pc = "skip" /\ PassKeyword(i + 1) /\ At(input, i) # NUL
        BY <1>5, Chars DEF SkipDelimiter
    <2>2. PICK k \in 0..Len(input) : k = i + 1
        BY <1>1, <2>1, AtNul
    <2>3. PassKeyword(k)
        BY <2>1, <2>2
    <2>4. \A n \in 1..Len(printed') : LineFits(printed'[n], After(end(n))')
        BY <1>1, <2>1, <2>3, PassFits
    <2> QED
        BY <2>1, <2>4 DEF Labels
<1>6. CASE EndElement
    BY <1>2, <1>6 DEF EndElement, Labels
<1>7. CASE Finish \/ EndSkip \/ AppendChar \/ EmptyElement \/ Reset
    <2>1. UNCHANGED <<input, printed>> /\ pc' # "match"
        BY <1>7 DEF Finish, EndSkip, AppendChar, EmptyElement, Reset
    <2> QED
        BY <1>2, <2>1 DEF Labels
<1>8. CASE SkipBlockComment \/ SkipLineComment
    <2>1. UNCHANGED <<input, printed>> /\ pc' # "match"
        BY <1>8 DEF SkipBlockComment, SkipLineComment, SkipTo
    <2> QED
        BY <1>2, <2>1 DEF Labels
<1>9. CASE UNCHANGED vars
    BY <1>2, <1>9 DEF vars, Labels
<1> QED
    BY <1>3, <1>4, <1>5, <1>6, <1>7, <1>8, <1>9 DEF Next

-----------------------------------------------------------------------------
(***************************************************************************)
(* Why the next three characters tell that no longer token begins at the   *)
(* same place.  w is a longer text with the same beginning.                *)
(***************************************************************************)
Extends(w, t, next) ==
    /\ w \in Text /\ Len(w) > Len(t) /\ \A n \in 1..Len(t) : w[n] = t[n]
    /\ w[Len(t) + 1] = next[1]
    /\ Len(w) > Len(t) + 1 => w[Len(t) + 2] = next[2]
    /\ Len(w) > Len(t) + 2 => w[Len(t) + 3] = next[3]

\* What digits a text has where.
LEMMA DigitsAt ==
    ASSUME NEW t \in Text, NEW S, Digits(t, S)
    PROVE  Len(t) > 0 /\ \A n \in 1..Len(t) : t[n] \in S
<1>1. Len(t) > 0
    BY DEF Digits, Text
<1>2. \A n \in 1..Len(t) : t[n] \in S
    BY DEF Digits, ToSet, Text
<1> QED
    BY <1>1, <1>2

LEMMA RestAt ==
    ASSUME NEW t \in Text, NEW p \in 1..Len(t)
    PROVE  /\ Rest(t, p) \in Text /\ Len(Rest(t, p)) = Len(t) - p
           /\ \A n \in p + 1..Len(t) : Rest(t, p)[n - p] = t[n]
<1>1. Len(t) \in Nat /\ p \in Nat /\ p <= Len(t)
    BY DEF Text
<1>2. /\ Rest(t, p) \in Text /\ Len(Rest(t, p)) = Len(t) - p
      /\ \A n \in 1..Len(t) - p : Rest(t, p)[n] = t[p + n]
    BY <1>1 DEF Rest, Text
<1>3. ASSUME NEW n \in p + 1..Len(t) PROVE Rest(t, p)[n - p] = t[n]
    <2>1. n - p \in 1..Len(t) - p /\ p + (n - p) = n
        BY <1>1
    <2> QED
        BY <1>2, <2>1
<1> QED
    BY <1>2, <1>3

LEMMA FrontAt ==
    ASSUME NEW t \in Text, NEW p \in 1..Len(t)
    PROVE  /\ Front(SubSeq(t, 1, p)) \in Text /\ Len(Front(SubSeq(t, 1, p))) = p - 1
           /\ \A n \in 1..p - 1 : Front(SubSeq(t, 1, p))[n] = t[n]
<1>1. Len(t) \in Nat /\ p \in Nat /\ p <= Len(t)
    BY DEF Text
<1>2. /\ SubSeq(t, 1, p - 1) \in Text /\ Len(SubSeq(t, 1, p - 1)) = p - 1
      /\ \A n \in 1..p - 1 : SubSeq(t, 1, p - 1)[n] = t[n]
    BY <1>1 DEF Text
<1> QED
    BY <1>2, FrontOfSub

\* A fraction is digits around one point.
LEMMA FractionAt ==
    ASSUME NEW t \in Text, Fraction(t)
    PROVE  \E p \in 2..Len(t) - 1 : /\ t[p] = "."
                                    /\ \A n \in 1..Len(t) : n # p => t[n] \in decimal
<1>1. PICK p \in 1..Len(t) : /\ t[p] = "." /\ Digits(Front(SubSeq(t, 1, p)), decimal)
                             /\ Digits(Rest(t, p), decimal)
    BY DEF Fraction, Text
<1>2. Len(t) \in Nat /\ p \in Nat
    BY DEF Text
<1>3. p - 1 > 0 /\ \A n \in 1..p - 1 : t[n] \in decimal
    <2>1. PICK f \in Text : /\ f = Front(SubSeq(t, 1, p)) /\ Len(f) = p - 1
                            /\ \A n \in 1..p - 1 : f[n] = t[n]
        BY FrontAt
    <2>2. Len(f) > 0 /\ \A n \in 1..Len(f) : f[n] \in decimal
        BY <1>1, <2>1, DigitsAt
    <2> QED
        BY <2>1, <2>2
<1>4. Len(t) - p > 0 /\ \A n \in p + 1..Len(t) : t[n] \in decimal
    <2>1. Len(t) - p > 0 /\ \A n \in 1..Len(t) - p : Rest(t, p)[n] \in decimal
        BY <1>1, RestAt, DigitsAt
    <2>2. \A n \in p + 1..Len(t) : n - p \in 1..Len(t) - p
        BY <1>2
    <2> QED
        BY <1>1, <2>1, <2>2, RestAt
<1> QED
    BY <1>1, <1>2, <1>3, <1>4

\* An exponent: digits, or a minus and digits.
LEMMA PowerAt ==
    ASSUME NEW s \in Text, Power(s)
    PROVE  /\ Len(s) > 0 /\ \A n \in 2..Len(s) : s[n] \in decimal
           /\ s[1] \in decimal \/ (s[1] = "-" /\ Len(s) > 1)
<1>1. Len(s) \in Nat /\ (s = <<>> <=> Len(s) = 0)
    BY DEF Text
<1>2. CASE s # <<>> /\ s[1] = "-"
    <2>1. Digits(Tail(s), decimal)
        BY <1>2 DEF Power
    <2>2. /\ Tail(s) \in Text /\ Len(Tail(s)) = Len(s) - 1
          /\ \A n \in 1..Len(s) - 1 : Tail(s)[n] = s[n + 1]
        BY <1>1, <1>2 DEF Text
    <2>3. Len(s) - 1 > 0 /\ \A n \in 1..Len(s) - 1 : s[n + 1] \in decimal
        BY <2>1, <2>2, DigitsAt
    <2>4. ASSUME NEW n \in 2..Len(s) PROVE s[n] \in decimal
        <3>1. n - 1 \in 1..Len(s) - 1 /\ (n - 1) + 1 = n
            BY <1>1
        <3> QED
            BY <2>3, <3>1
    <2> QED
        BY <1>1, <1>2, <2>3, <2>4
<1>3. CASE ~(s # <<>> /\ s[1] = "-")
    <2>1. Digits(s, decimal)
        BY <1>3 DEF Power
    <2> QED
        BY <1>1, <2>1, DigitsAt
<1> QED
    BY <1>2, <1>3

\* A number with an exponent: a fraction in front of an e, and the exponent.
LEMMA ScientificAt ==
    ASSUME NEW t \in Text, Scientific(t)
    PROVE  \E p \in 2..Len(t), q \in 2..Len(t) - 1 :
              /\ p + 1 < q /\ t[p] = "." /\ t[q] = "e"
              /\ \A n \in 1..q - 1 : n # p => t[n] \in decimal
              /\ \A n \in q + 2..Len(t) : t[n] \in decimal
              /\ t[q + 1] \in decimal \/ (t[q + 1] = "-" /\ Len(t) > q + 1)
<1>1. PICK q \in 1..Len(t) :
        t[q] = "e" /\ Fraction(Front(SubSeq(t, 1, q))) /\ Power(Rest(t, q))
    BY DEF Scientific, Text
<1>2. Len(t) \in Nat /\ q \in Nat
    BY DEF Text
<1>3. PICK f \in Text : /\ f = Front(SubSeq(t, 1, q)) /\ Len(f) = q - 1
                        /\ \A n \in 1..q - 1 : f[n] = t[n]
    BY FrontAt
<1>4. PICK p \in 2..Len(f) - 1 : f[p] = "." /\ \A n \in 1..Len(f) : n # p => f[n] \in decimal
    BY <1>1, <1>3, FractionAt
<1>5. p + 1 < q /\ p \in 2..Len(t) /\ t[p] = "." /\ \A n \in 1..q - 1 : n # p => t[n] \in decimal
    BY <1>2, <1>3, <1>4
<1>6. PICK s \in Text : /\ s = Rest(t, q) /\ Len(s) = Len(t) - q
                        /\ \A n \in q + 1..Len(t) : s[n - q] = t[n]
    BY RestAt
<1>7. /\ Len(s) > 0 /\ \A n \in 2..Len(s) : s[n] \in decimal
      /\ s[1] \in decimal \/ (s[1] = "-" /\ Len(s) > 1)
    BY <1>1, <1>6, PowerAt
<1>8. ASSUME NEW n \in q + 2..Len(t) PROVE t[n] \in decimal
    <2>1. n - q \in 2..Len(s) /\ n \in q + 1..Len(t)
        BY <1>2, <1>6
    <2> QED
        BY <1>6, <1>7, <2>1
<1>9. s[1] = t[q + 1] /\ q < Len(t)
    <2>1. q + 1 \in q + 1..Len(t) /\ (q + 1) - q = 1
        BY <1>2, <1>6, <1>7
    <2> QED
        BY <1>2, <1>6, <2>1
<1>10. q \in 2..Len(t) - 1
    BY <1>2, <1>5, <1>9
<1>11. t[q + 1] \in decimal \/ (t[q + 1] = "-" /\ Len(t) > q + 1)
    BY <1>2, <1>6, <1>7, <1>9
<1> QED
    BY <1>1, <1>5, <1>8, <1>10, <1>11

\* An operator is a tuple of one, two or three characters, none of which is a delimiter.
LEMMA OperatorTuple ==
    ASSUME NEW w \in Text, w \in Operators
    PROVE  \/ Len(w) = 1 /\ w = <<w[1]>> /\ <<w[1]>> \in DOMAIN Operators1
           \/ Len(w) = 2 /\ w = <<w[1], w[2]>> /\ <<w[1], w[2]>> \in DOMAIN Operators2
           \/ Len(w) = 3 /\ w = <<w[1], w[2], w[3]>> /\ <<w[1], w[2], w[3]>> \in DOMAIN Operators3
<1>1. CASE w \in DOMAIN Operators1
    <2>1. Len(w) = 1
        BY <1>1, OperatorLengths
    <2>2. w = <<w[1]>>
        BY <2>1 DEF Text
    <2> QED
        BY <1>1, <2>1, <2>2
<1>2. CASE w \in DOMAIN Operators2
    <2>1. Len(w) = 2
        BY <1>2, OperatorLengths
    <2>2. w = <<w[1], w[2]>>
        BY <2>1 DEF Text
    <2> QED
        BY <1>2, <2>1, <2>2
<1>3. CASE w \in DOMAIN Operators3
    <2>1. Len(w) = 3
        BY <1>3, OperatorLengths
    <2>2. w = <<w[1], w[2], w[3]>>
        BY <2>1 DEF Text
    <2> QED
        BY <1>3, <2>1, <2>2
<1> QED
    BY <1>1, <1>2, <1>3 DEF Operators

LEMMA OperatorPrefix ==
    \A c, d, e : <<c, d, e>> \in DOMAIN Operators3 => <<c, d>> \in DOMAIN Operators2
BY DEF Operators3, Operators2, Table

LEMMA OperatorDelimiters ==
    /\ \A c : <<c>> \in DOMAIN Operators1 => ~checkDelimiter(c)
    /\ \A c, d : <<c, d>> \in DOMAIN Operators2 => ~checkDelimiter(c) /\ ~checkDelimiter(d)
    /\ \A c, d, e : <<c, d, e>> \in DOMAIN Operators3 =>
          ~checkDelimiter(c) /\ ~checkDelimiter(d) /\ ~checkDelimiter(e)
<1>1. \A c : <<c>> \in DOMAIN Operators1 =>
          c \in {"(", ")", "[", "]", ".", COMMA, "!", "~", "^", "|", "+", "/", "?", ":", "<",
                 ">", "=", "&", "-", "*"}
    BY DEF Operators1, Table
<1>2. ~checkDelimiter(COMMA)
    BY Zenon DEF checkDelimiter, COMMA
<1>3. \A c \in {"(", ")", "[", "]", ".", "!", "~", "^", "|", "+", "/", "?", ":", "<",
                ">", "=", "&", "-", "*"} : ~checkDelimiter(c)
    BY DEF checkDelimiter
<1>4. \A c, d : <<c, d>> \in DOMAIN Operators2 =>
          /\ c \in {"+", "-", "*", "/", "%", "<", ">", "=", "!", "|", "&", "^"}
          /\ d \in {"=", "|", "&", "+", "-", ">", "<"}
    BY DEF Operators2, Table
<1>5. \A c, d, e : <<c, d, e>> \in DOMAIN Operators3 =>
          c \in {"<", ">"} /\ d \in {"<", ">"} /\ e = "="
    BY DEF Operators3, Table
<1>6. ~checkDelimiter("%")
    BY DEF checkDelimiter
<1> QED
    BY <1>1, <1>2, <1>3, <1>4, <1>5, <1>6

\* Which kinds of token a text can be is told by its first characters.
LEMMA FirstOf ==
    ASSUME NEW w \in Text, Len(w) > 0
    PROVE  /\ w[1] \in Alpha /\ IsToken(w) => WordText(w)
           /\ w[1] \in decimal /\ IsToken(w) =>
                 Digits(w, decimal) \/ HexText(w) \/ FloatingPoint(w)
           /\ w[1] \notin Alnum /\ IsToken(w) => w \in Operators
           /\ FloatingPoint(w) => w[1] \in decimal
           /\ HexText(w) => /\ w[1] = "0" /\ Len(w) > 2 /\ w[2] \in {"x", "X"}
                             /\ \A n \in 3..Len(w) : w[n] \in hexadecimal
           /\ w \in Operators => w[1] \notin Alnum
<1>1. Len(w) \in Nat /\ DOMAIN w = 1..Len(w)
    BY DEF Text
<1>2. WordText(w) => w[1] \in Alpha
    BY DEF WordText
<1>3. Digits(w, decimal) => w[1] \in decimal
    BY DigitsAt
<1>4. FloatingPoint(w) => w[1] \in decimal
    <2>1. ASSUME Fraction(w) PROVE w[1] \in decimal
        <3>1. PICK p \in 2..Len(w) - 1 : \A n \in 1..Len(w) : n # p => w[n] \in decimal
            BY <2>1, FractionAt
        <3> QED
            BY <1>1, <3>1
    <2>2. ASSUME Scientific(w) PROVE w[1] \in decimal
        <3>1. PICK p \in 2..Len(w), q \in 2..Len(w) - 1 :
                \A n \in 1..q - 1 : n # p => w[n] \in decimal
            BY <2>2, ScientificAt
        <3> QED
            BY <1>1, <3>1
    <2> QED
        BY <2>1, <2>2 DEF FloatingPoint
<1>5. ASSUME HexText(w)
      PROVE  /\ w[1] = "0" /\ Len(w) > 2 /\ w[2] \in {"x", "X"}
             /\ \A n \in 3..Len(w) : w[n] \in hexadecimal
    <2>1. Len(w) > 2
        <3>1. Rest(w, 2) # <<>>
            BY <1>5 DEF HexText, Digits
        <3>2. Len(w) <= 2 => Rest(w, 2) = <<>>
            BY <1>1 DEF Rest, Text
        <3> QED
            BY <1>1, <3>1, <3>2
    <2>2. SubSeq(w, 1, 2)[1] = w[1] /\ SubSeq(w, 1, 2)[2] = w[2]
        BY <1>1, <2>1 DEF Text
    <2>3. w[1] = "0" /\ w[2] \in {"x", "X"}
        <3>1. PICK u : u = SubSeq(w, 1, 2)
            OBVIOUS
        <3>2. u = <<"0", "x">> \/ u = <<"0", "X">>
            BY <1>5, <3>1 DEF HexText
        <3>3. u[1] = "0" /\ u[2] \in {"x", "X"}
            BY <3>2
        <3> QED
            BY <2>2, <3>1, <3>3
    <2>4. PICK p \in 1..Len(w) : p = 2
        BY <1>1, <2>1
    <2>5. /\ Rest(w, p) \in Text /\ Len(Rest(w, p)) = Len(w) - p
          /\ \A n \in p + 1..Len(w) : Rest(w, p)[n - p] = w[n]
        BY RestAt
    <2>6. \A n \in 1..Len(w) - p : Rest(w, p)[n] \in hexadecimal
        BY <1>5, <2>4, <2>5, DigitsAt DEF HexText
    <2>7. ASSUME NEW n \in 3..Len(w) PROVE w[n] \in hexadecimal
        <3>1. n - p \in 1..Len(w) - p /\ n \in p + 1..Len(w)
            BY <1>1, <2>4
        <3> QED
            BY <2>5, <2>6, <3>1
    <2> QED
        BY <2>1, <2>3, <2>7
<1>6. w \in Operators => w[1] \notin Alnum
    BY OperatorTuple, OperatorOne, OperatorTwo, OperatorThree
<1>7. "0" \in decimal /\ (\A c \in decimal : c \notin Alpha) /\ decimal \subseteq Alnum /\ Alpha \subseteq Alnum
    BY Chars, Classes
<1> QED
    BY <1>2, <1>3, <1>4, <1>5, <1>6, <1>7 DEF IsToken

\* No token has a delimiter.
LEMMA TokenChars ==
    ASSUME NEW w \in Text, Len(w) > 0, IsToken(w), NEW m \in 1..Len(w)
    PROVE  ~checkDelimiter(w[m])
<1>1. Len(w) \in Nat /\ \A c : checkDelimiter(c) => c \notin Alnum /\ c # "." /\ c # "-"
    BY EndingNot DEF Text, Ending
<1>2. CASE w \in Operators
    <2>1. CASE Len(w) = 1 /\ <<w[1]>> \in DOMAIN Operators1
        <3>1. m = 1
            BY <2>1
        <3> QED
            BY <2>1, <3>1, OperatorDelimiters
    <2>2. CASE Len(w) = 2 /\ <<w[1], w[2]>> \in DOMAIN Operators2
        <3>1. m = 1 \/ m = 2
            BY <2>2
        <3> QED
            BY <2>2, <3>1, OperatorDelimiters
    <2>3. CASE Len(w) = 3 /\ <<w[1], w[2], w[3]>> \in DOMAIN Operators3
        <3>1. m = 1 \/ m = 2 \/ m = 3
            BY <2>3
        <3> QED
            BY <2>3, <3>1, OperatorDelimiters
    <2> QED
        BY <1>2, <2>1, <2>2, <2>3, OperatorTuple
<1>3. CASE WordText(w)
    BY <1>1, <1>3, DigitsAt DEF WordText, Alnum
<1>4. CASE Digits(w, decimal)
    BY <1>1, <1>4, DigitsAt, Classes
<1>5. CASE HexText(w)
    <2>1. w[m] \in hexadecimal \cup {"0", "x", "X"}
        BY <1>1, <1>5, FirstOf
    <2> QED
        BY <1>1, <2>1, Classes
<1>6. CASE Fraction(w)
    BY <1>1, <1>6, FractionAt, Classes
<1>7. CASE Scientific(w)
    <2>1. w[m] \in decimal \cup {".", "e", "-"}
        <3>1. PICK p \in 2..Len(w), q \in 2..Len(w) - 1 :
                /\ w[p] = "." /\ w[q] = "e"
                /\ \A n \in 1..q - 1 : n # p => w[n] \in decimal
                /\ \A n \in q + 2..Len(w) : w[n] \in decimal
                /\ w[q + 1] \in decimal \/ w[q + 1] = "-"
            BY <1>7, ScientificAt
        <3>2. m \in 1..q - 1 \/ m = q \/ m = q + 1 \/ m \in q + 2..Len(w)
            BY <1>1
        <3> QED
            BY <3>1, <3>2
    <2> QED
        BY <1>1, <2>1, Classes
<1> QED
    BY <1>2, <1>3, <1>4, <1>5, <1>6, <1>7 DEF IsToken, FloatingPoint

\* A word with a letter or digit less, and an operator.
LEMMA WordEnds ==
    ASSUME NEW t \in Text, Len(t) > 0, t[1] \in Alpha, NEW next, next[1] \notin Alnum,
           NEW w, Extends(w, t, next)
    PROVE  ~IsToken(w)
<1>1. w \in Text /\ Len(t) \in Nat /\ Len(w) \in Nat /\ Len(w) > Len(t) /\ w[1] = t[1]
    BY DEF Extends, Text
<1>2. Len(t) + 1 \in 1..Len(w) /\ w[Len(t) + 1] \notin Alnum
    BY <1>1 DEF Extends
<1>3. ASSUME WordText(w) PROVE FALSE
    BY <1>1, <1>2, <1>3, DigitsAt DEF WordText, Alnum
<1> QED
    BY <1>1, <1>3, FirstOf

LEMMA OperatorEnds ==
    ASSUME NEW t \in Text, Len(t) > 0, t[1] \notin Alnum, NEW next,
           Append(t, next[1]) \notin Operators, NEW w, Extends(w, t, next)
    PROVE  ~IsToken(w)
<1>1. w \in Text /\ Len(t) \in Nat /\ Len(w) \in Nat /\ Len(w) > Len(t) /\ w[1] = t[1]
    BY DEF Extends, Text
<1>2. SUFFICES ASSUME w \in Operators PROVE FALSE
    BY <1>1, FirstOf
<1>3. next[1] \in STRING \ {NUL}
    BY <1>1 DEF Extends, Text
<1>4. CASE Len(w) = Len(t) + 1
    <2>1. w = Append(t, next[1])
        <3>1. /\ Append(t, next[1]) \in Text /\ Len(Append(t, next[1])) = Len(t) + 1
              /\ \A n \in 1..Len(t) : Append(t, next[1])[n] = t[n]
              /\ Append(t, next[1])[Len(t) + 1] = next[1]
            BY <1>1, <1>3, AppendProperties DEF Text
        <3>2. \A n \in 1..Len(w) : n \in 1..Len(t) \/ n = Len(t) + 1
            BY <1>1, <1>4
        <3>3. \A n \in 1..Len(w) : w[n] = Append(t, next[1])[n]
            BY <3>1, <3>2 DEF Extends
        <3> QED
            BY <1>1, <1>4, <3>1, <3>3, SeqEqual DEF Text
    <2> QED
        BY <1>2, <2>1
<1>5. CASE Len(w) # Len(t) + 1
    <2>1. Len(w) = 3 /\ Len(t) = 1 /\ <<w[1], w[2], w[3]>> \in DOMAIN Operators3
        <3>1. PICK m \in Nat, n \in Nat : m = Len(t) /\ n = Len(w) /\ m > 0 /\ n > m /\ n # m + 1
            BY <1>1, <1>5
        <3>2. n # 1 /\ n # 2
            BY <3>1
        <3>3. n = 3 /\ <<w[1], w[2], w[3]>> \in DOMAIN Operators3
            BY <1>1, <1>2, <3>1, <3>2, OperatorTuple
        <3>4. m = 1
            BY <3>1, <3>3
        <3> QED
            BY <3>1, <3>3, <3>4
    <2>2. w[2] = next[1]
        BY <2>1 DEF Extends
    <2>3. t = <<w[1]>>
        BY <1>1, <2>1 DEF Text
    <2>4. Append(t, next[1]) = <<w[1], w[2]>>
        BY <2>2, <2>3, AppendTuples
    <2>5. <<w[1], w[2]>> \in DOMAIN Operators2
        BY <2>1, OperatorPrefix
    <2> QED
        BY <2>4, <2>5 DEF Operators
<1> QED
    BY <1>4, <1>5

\* An integer, which only a point and a digit would make longer.
LEMMA IntegerEnds ==
    ASSUME NEW t \in Text, Digits(t, decimal), t # <<"0">>, NEW next, next[1] \notin decimal,
           ~(next[1] = "." /\ next[2] \in decimal), NEW w, Extends(w, t, next)
    PROVE  ~IsToken(w)
<1>1. /\ w \in Text /\ Len(t) \in Nat /\ Len(w) \in Nat /\ Len(w) > Len(t) /\ Len(t) > 0
      /\ \A n \in 1..Len(t) : w[n] = t[n] /\ w[n] \in decimal
    BY DigitsAt DEF Extends, Text
<1>2. PICK m \in 1..Len(w) : /\ m = Len(t) + 1 /\ w[m] = next[1]
                             /\ (Len(w) > m => w[m + 1] = next[2])
    <2>1. (Len(t) + 1) + 1 = Len(t) + 2
        BY <1>1
    <2> QED
        BY <1>1, <2>1 DEF Extends
<1>3. ~Digits(w, decimal)
    BY <1>1, <1>2, DigitsAt
<1>4. ~HexText(w)
    <2>1. ASSUME HexText(w) PROVE FALSE
        <3>1. w[1] = "0" /\ w[2] \in {"x", "X"}
            BY <1>1, <2>1, FirstOf
        <3>2. Len(t) = 1
            <4>1. w[2] \notin decimal
                BY <3>1 DEF decimal, octal
            <4>2. PICK n \in Nat : n = Len(t) /\ n > 0
                BY <1>1
            <4>3. n >= 2 => w[2] \in decimal
                BY <1>1, <4>2
            <4>4. ~(n >= 2) => n = 1
                BY <4>2
            <4> QED
                BY <4>1, <4>2, <4>3, <4>4
        <3>3. t = <<"0">>
            BY <1>1, <3>1, <3>2 DEF Text
        <3> QED
            BY <3>3
    <2> QED
        BY <2>1
<1>5. ~Fraction(w)
    <2>1. ASSUME NEW p \in 2..Len(w) - 1, w[p] = ".",
                 \A n \in 1..Len(w) : n # p => w[n] \in decimal
          PROVE  FALSE
        <3>1. p = m
            BY <1>2, <2>1
        <3>2. m + 1 \in 1..Len(w) /\ m + 1 # p /\ Len(w) > m
            BY <1>1, <1>2, <3>1
        <3> QED
            BY <1>2, <2>1, <3>1, <3>2
    <2> QED
        BY <1>1, <2>1, FractionAt
<1>6. ~Scientific(w)
    <2>1. ASSUME NEW p \in 2..Len(w), NEW q \in 2..Len(w) - 1, p + 1 < q, w[p] = ".", w[q] = "e",
                 \A n \in 1..q - 1 : n # p => w[n] \in decimal
          PROVE  FALSE
        <3>1. "." \notin decimal /\ "e" \notin decimal
            BY DEF decimal, octal
        <3>2. p >= m
            BY <1>1, <1>2, <2>1, <3>1
        <3>3. m \in 1..q - 1
            BY <1>1, <1>2, <2>1, <3>2
        <3>4. p = m
            BY <1>2, <2>1, <3>3
        <3>5. m + 1 \in 1..q - 1 /\ m + 1 # p /\ Len(w) > m
            BY <1>1, <1>2, <2>1, <3>4
        <3> QED
            BY <1>2, <2>1, <3>4, <3>5
    <2> QED
        BY <1>1, <2>1, ScientificAt
<1>7. w[1] \in decimal
    BY <1>1
<1> QED
    BY <1>1, <1>3, <1>4, <1>5, <1>6, <1>7, FirstOf DEF FloatingPoint

LEMMA HexEnds ==
    ASSUME NEW t \in Text, Len(t) > 0, HexText(t), NEW next, next[1] \notin hexadecimal,
           NEW w, Extends(w, t, next)
    PROVE  ~IsToken(w)
<1>1. Len(t) \in Nat /\ t[1] = "0" /\ Len(t) > 2 /\ t[2] \in {"x", "X"}
    BY FirstOf DEF Text
<1>2. /\ w \in Text /\ Len(w) \in Nat /\ Len(w) > Len(t) /\ w[1] = "0" /\ w[2] = t[2]
      /\ w[Len(t) + 1] = next[1]
    BY <1>1 DEF Extends, Text
<1>3. w[2] \notin decimal /\ w[2] # "." /\ w[1] \in decimal
    BY <1>1, <1>2 DEF decimal, octal
<1>4. ~Digits(w, decimal)
    BY <1>1, <1>2, <1>3, DigitsAt
<1>5. ~HexText(w)
    <2>1. Len(t) + 1 \in 3..Len(w)
        BY <1>1, <1>2
    <2> QED
        BY <1>2, <2>1, FirstOf
<1>6. ~Fraction(w)
    BY <1>1, <1>2, <1>3, FractionAt
<1>7. ~Scientific(w)
    <2>1. ASSUME NEW p \in 2..Len(w), NEW q \in 2..Len(w) - 1, p + 1 < q, w[p] = ".",
                 \A n \in 1..q - 1 : n # p => w[n] \in decimal
          PROVE  FALSE
        <3>1. 2 \in 1..q - 1 /\ 2 # p
            BY <1>3, <2>1
        <3> QED
            BY <1>3, <2>1, <3>1
    <2> QED
        BY <1>2, <2>1, ScientificAt
<1> QED
    BY <1>2, <1>3, <1>4, <1>5, <1>6, <1>7, FirstOf DEF FloatingPoint

\* A text with a point among digits at its beginning is a floating point number, or none.
LEMMA PointedToken ==
    ASSUME NEW w \in Text, NEW p \in 2..Len(w), w[p] = ".",
           \A n \in 1..p - 1 : w[n] \in decimal, IsToken(w)
    PROVE  FloatingPoint(w)
<1>1. Len(w) \in Nat /\ Len(w) > 0 /\ 1 \in 1..p - 1 /\ w[1] \in decimal /\ "." \notin decimal
    BY Chars DEF Text
<1>2. ~Digits(w, decimal)
    BY <1>1, DigitsAt
<1>3. w[2] \notin {"x", "X"}
    <2>1. p = 2 \/ 2 \in 1..p - 1
        BY <1>1
    <2>2. "x" \notin decimal /\ "X" \notin decimal
        BY DEF decimal, octal
    <2> QED
        BY <2>1, <2>2
<1> QED
    BY <1>1, <1>2, <1>3, FirstOf

LEMMA FractionEnds ==
    ASSUME NEW t \in Text, Fraction(t), NEW next, next[1] \notin decimal, ~Powered(next),
           NEW w, Extends(w, t, next)
    PROVE  ~IsToken(w)
<1>1. PICK p0 \in 2..Len(t) - 1 : t[p0] = "." /\ \A n \in 1..Len(t) : n # p0 => t[n] \in decimal
    BY FractionAt
<1>2. /\ w \in Text /\ Len(t) \in Nat /\ Len(w) \in Nat /\ Len(w) > Len(t)
      /\ w[p0] = "." /\ p0 \in 2..Len(w)
      /\ \A n \in 1..Len(t) : n # p0 => w[n] \in decimal
    BY <1>1 DEF Extends, Text
<1>3. PICK m \in 1..Len(w) : /\ m = Len(t) + 1 /\ w[m] = next[1]
                             /\ (Len(w) > m => w[m + 1] = next[2])
                             /\ (Len(w) > m + 1 => w[m + 2] = next[3])
    <2>1. (Len(t) + 1) + 1 = Len(t) + 2 /\ (Len(t) + 1) + 2 = Len(t) + 3
        BY <1>2
    <2> QED
        BY <1>2, <2>1 DEF Extends
<1>4. "." \notin decimal /\ "e" \notin decimal /\ "e" # "."
    BY DEF decimal, octal
<1>5. ~Fraction(w)
    <2>1. ASSUME NEW p \in 2..Len(w) - 1, \A n \in 1..Len(w) : n # p => w[n] \in decimal
          PROVE  FALSE
        <3>1. p = p0
            BY <1>2, <1>4, <2>1
        <3>2. m # p
            BY <1>1, <1>2, <1>3, <3>1
        <3> QED
            BY <1>3, <2>1, <3>2
    <2> QED
        BY <1>2, <2>1, FractionAt
<1>6. ~Scientific(w)
    <2>1. ASSUME NEW p \in 2..Len(w), NEW q \in 2..Len(w) - 1, p + 1 < q, w[p] = ".", w[q] = "e",
                 \A n \in 1..q - 1 : n # p => w[n] \in decimal,
                 \A n \in q + 2..Len(w) : w[n] \in decimal,
                 w[q + 1] \in decimal \/ (w[q + 1] = "-" /\ Len(w) > q + 1)
          PROVE  FALSE
        <3>1. q >= m
            BY <1>2, <1>3, <1>4, <2>1
        <3>2. p = p0
            <4>1. p0 \in 1..q - 1
                BY <1>1, <1>2, <1>3, <3>1
            <4> QED
                BY <1>2, <1>4, <2>1, <4>1
        <3>3. q = m
            <4>1. m # p
                BY <1>1, <1>2, <1>3, <3>2
            <4>2. m \notin 1..q - 1
                BY <1>3, <2>1, <4>1
            <4> QED
                BY <1>2, <1>3, <3>1, <4>2
        <3>4. next[1] = "e" /\ next[2] = w[q + 1]
            BY <1>2, <1>3, <2>1, <3>3
        <3>5. CASE w[q + 1] \in decimal
            BY <3>4, <3>5 DEF Powered
        <3>6. CASE w[q + 1] = "-" /\ Len(w) > q + 1
            <4>1. q + 2 \in q + 2..Len(w)
                BY <1>2, <3>6
            <4>2. next[3] \in decimal
                BY <1>3, <2>1, <3>3, <3>6, <4>1
            <4> QED
                BY <3>4, <3>6, <4>2 DEF Powered
        <3> QED
            BY <2>1, <3>5, <3>6
    <2> QED
        BY <1>2, <2>1, ScientificAt
<1>7. \A n \in 1..p0 - 1 : w[n] \in decimal
    BY <1>1, <1>2
<1> QED
    BY <1>2, <1>5, <1>6, <1>7, PointedToken DEF FloatingPoint

LEMMA ScientificEnds ==
    ASSUME NEW t \in Text, Scientific(t), NEW next, next[1] \notin decimal,
           NEW w, Extends(w, t, next)
    PROVE  ~IsToken(w)
<1>1. PICK p0 \in 2..Len(t), q0 \in 2..Len(t) - 1 :
        /\ p0 + 1 < q0 /\ t[p0] = "." /\ t[q0] = "e"
        /\ \A n \in 1..q0 - 1 : n # p0 => t[n] \in decimal
    BY ScientificAt
<1>2. /\ w \in Text /\ Len(t) \in Nat /\ Len(w) \in Nat /\ Len(w) > Len(t)
      /\ w[p0] = "." /\ p0 \in 2..Len(w) /\ w[q0] = "e"
      /\ \A n \in 1..q0 - 1 : n # p0 => w[n] \in decimal
    BY <1>1 DEF Extends, Text
<1>3. PICK m \in 1..Len(w) : m = Len(t) + 1 /\ w[m] = next[1]
    BY <1>2 DEF Extends
<1>4. "." \notin decimal /\ "e" \notin decimal /\ "e" # "."
    BY DEF decimal, octal
<1>5. ~Fraction(w)
    <2>1. ASSUME NEW p \in 2..Len(w) - 1, \A n \in 1..Len(w) : n # p => w[n] \in decimal
          PROVE  FALSE
        <3>1. p = p0
            BY <1>2, <1>4, <2>1
        <3>2. q0 # p /\ q0 \in 1..Len(w)
            BY <1>1, <1>2, <3>1
        <3> QED
            BY <1>2, <1>4, <2>1, <3>2
    <2> QED
        BY <1>2, <2>1, FractionAt
<1>6. ~Scientific(w)
    <2>1. ASSUME NEW p \in 2..Len(w), NEW q \in 2..Len(w) - 1, p + 1 < q, w[p] = ".", w[q] = "e",
                 \A n \in 1..q - 1 : n # p => w[n] \in decimal,
                 \A n \in q + 2..Len(w) : w[n] \in decimal
          PROVE  FALSE
        <3>1. q >= q0
            <4>1. q \in 1..q0 - 1 => q = p0
                BY <1>2, <1>4, <2>1
            <4>2. q \notin 1..q0 - 1
                BY <1>2, <1>4, <2>1, <4>1
            <4> QED
                BY <4>2
        <3>2. ~(q > q0)
            <4>1. q0 # p
                BY <1>2, <1>4, <2>1
            <4>2. q0 \notin 1..q - 1
                BY <1>2, <1>4, <2>1, <4>1
            <4> QED
                BY <4>2
        <3>3. m \in q + 2..Len(w)
            BY <1>1, <1>2, <1>3, <3>1, <3>2
        <3> QED
            BY <1>3, <2>1, <3>3
    <2> QED
        BY <1>2, <2>1, ScientificAt
<1>7. ~FloatingPoint(w)
    BY <1>5, <1>6 DEF FloatingPoint
<1>8. \A n \in 1..p0 - 1 : w[n] \in decimal
    BY <1>1, <1>2
<1> QED
    BY <1>2, <1>7, <1>8, PointedToken

\* What is known of a line is enough.
LEMMA KnownEnds ==
    ASSUME NEW t \in Text, Len(t) > 0, NEW name, NEW next, Known(name, t, next), ~Misread(t),
           ~(Digits(t, decimal) /\ Len(t) > 2 /\ t[1] = "0" /\ next[1] = "." /\ next[2] \in decimal),
           NEW w, Extends(w, t, next)
    PROVE  ~IsToken(w)
<1>1. t # <<"0">>
    BY DEF Misread
<1>2. Digits(t, octal) => Digits(t, decimal)
    BY Chars DEF Digits
<1>3. CASE Digits(t, decimal) /\ Whole(t, next)
    BY <1>1, <1>3, IntegerEnds DEF Whole
<1>4. CASE WordText(t) /\ next[1] \notin Alnum
    BY <1>4, WordEnds DEF WordText
<1>5. CASE t = SIZEOF /\ next[1] \notin Alnum
    <2>1. t[1] \in Alpha
        BY <1>5 DEF SIZEOF, Alpha, Lower
    <2> QED
        BY <1>5, <2>1, WordEnds
<1>6. CASE HexText(t) /\ next[1] \notin hexadecimal
    BY <1>6, HexEnds
<1>7. CASE next[1] \notin decimal /\ Scientific(t)
    BY <1>7, ScientificEnds
<1>8. CASE next[1] \notin decimal /\ Fraction(t) /\ ~Powered(next)
    BY <1>8, FractionEnds
<1>9. CASE t[1] \notin Alnum /\ Append(t, next[1]) \notin Operators
    BY <1>9, OperatorEnds
<1>10. CASE Operator(t, name) /\ Append(t, next[1]) \notin Operators
    <2>1. t \in Operators
        BY <1>10 DEF Operator, Operators
    <2> QED
        BY <1>9, <1>10, <2>1, FirstOf
<1>11. CASE next[1] = NUL \/ checkDelimiter(next[1])
    <2>1. /\ w \in Text /\ Len(t) + 1 \in 1..Len(w) /\ w[Len(t) + 1] = next[1] /\ Len(w) > 0
        BY DEF Extends, Text
    <2>2. w[Len(t) + 1] # NUL
        BY <2>1 DEF Text
    <2> QED
        BY <1>11, <2>1, <2>2, TokenChars
<1> QED
    BY <1>2, <1>3, <1>4, <1>5, <1>6, <1>7, <1>8, <1>9, <1>10, <1>11 DEF Known

LEMMA KnownLongest ==
    ASSUME input \in Text, NEW l, l.text \in Text, l.text # <<>>, l.at \in Nat,
           l.at + Len(l.text) <= Len(input),
           l.text = SubSeq(input, l.at + 1, l.at + Len(l.text)),
           Known(l.name, l.text, After(l.at + Len(l.text))), ~Misread(l.text)
    PROVE  Fits(l.name, l.text) /\ (Longest(l) \/ CutOff(l))
<1>1. Fits(l.name, l.text)
    BY DEF Known, Fits, FloatingPoint, Alnum
<1>a. PICK next : next = After(l.at + Len(l.text))
    OBVIOUS
<1>2. PICK t \in Text, a \in Nat, L \in Nat :
        /\ t = l.text /\ a = l.at /\ L = Len(t) /\ next = After(a + L)
    BY <1>a DEF Text
<1>3. /\ next[1] = At(input, a + L) /\ next[2] = At(input, a + L + 1)
      /\ next[3] = At(input, a + L + 2)
    BY <1>2 DEF After
<1>4. Len(input) \in Nat /\ L > 0 /\ a + L <= Len(input) /\ t = SubSeq(input, a + 1, a + L)
    BY <1>2 DEF Text
<1>5. \A n \in 1..L : t[n] = input[a + n]
    <2>1. ASSUME NEW n \in 1..L PROVE SubSeq(input, a + 1, a + L)[n] = input[a + n]
        <3>1. /\ a + 1 \in Nat /\ a + L \in Nat /\ n \in 1..(a + L) - (a + 1) + 1
              /\ (a + 1) + n - 1 = a + n
            OBVIOUS
        <3> QED
            BY <1>4, <3>1 DEF Text
    <2> QED
        BY <1>4, <2>1
<1>6. ASSUME ~CutOff(l), NEW k \in a + L + 1..Len(input), IsToken(SubSeq(input, a + 1, k))
      PROVE  FALSE
    <2>1. PICK w : w = SubSeq(input, a + 1, k)
        OBVIOUS
    <2>2. /\ w \in Text /\ Len(w) = k - a /\ \A n \in 1..k - a : w[n] = input[a + n]
        <3>1. k \in Nat /\ k <= Len(input) /\ a + 1 <= k /\ k - (a + 1) + 1 = k - a
            BY <1>4
        <3>2. /\ SubSeq(input, a + 1, k) \in Seq(STRING \ {NUL}) /\ Len(SubSeq(input, a + 1, k)) = k - a
              /\ \A n \in 1..k - a : SubSeq(input, a + 1, k)[n] = input[(a + 1) + n - 1]
            BY <1>4, <3>1 DEF Text
        <3>3. ASSUME NEW n \in 1..k - a PROVE (a + 1) + n - 1 = a + n
            BY <3>1
        <3> QED
            BY <2>1, <3>2, <3>3 DEF Text
    <2>3. Extends(w, t, next)
        <3>1. Len(w) > L /\ \A n \in 1..L : w[n] = t[n]
            BY <1>5, <2>2
        <3>2. \A n \in Nat : a + n < k => At(input, a + n) = w[n + 1]
            <4>1. ASSUME NEW n \in Nat, a + n < k PROVE At(input, a + n) = w[n + 1]
                <5>1. /\ a + n \in 0..Len(input) - 1 /\ n + 1 \in 1..k - a
                      /\ (a + n) + 1 = a + (n + 1)
                    BY <1>4, <4>1
                <5> QED
                    BY <2>2, <5>1 DEF At
            <4> QED
                BY <4>1
        <3>3. w[L + 1] = next[1]
            BY <1>3, <3>2
        <3>4. Len(w) > L + 1 => w[L + 2] = next[2]
            <4>1. Len(w) > L + 1 => a + (L + 1) < k
                BY <2>2
            <4>2. PICK n \in Nat : n = L + 1 /\ a + n = a + L + 1 /\ n + 1 = L + 2
                OBVIOUS
            <4>3. Len(w) > L + 1 => At(input, a + n) = w[n + 1]
                BY <3>2, <4>1, <4>2
            <4> QED
                BY <1>3, <4>2, <4>3
        <3>5. Len(w) > L + 2 => w[L + 3] = next[3]
            <4>1. Len(w) > L + 2 => a + (L + 2) < k
                BY <2>2
            <4>2. PICK n \in Nat : n = L + 2 /\ a + n = a + L + 2 /\ n + 1 = L + 3
                OBVIOUS
            <4>3. Len(w) > L + 2 => At(input, a + n) = w[n + 1]
                BY <3>2, <4>1, <4>2
            <4> QED
                BY <1>3, <4>2, <4>3
        <3> QED
            BY <1>2, <2>2, <3>1, <3>3, <3>4, <3>5 DEF Extends
    <2>4. ~(Digits(t, decimal) /\ Len(t) > 2 /\ t[1] = "0" /\ next[1] = "." /\ next[2] \in decimal)
        BY <1>2, <1>3, <1>6 DEF CutOff
    <2>5. Known(l.name, t, next) /\ ~Misread(t) /\ Len(t) > 0
        BY <1>2, <1>4
    <2> QED
        BY <1>6, <2>1, <2>3, <2>4, <2>5, KnownEnds
<1> QED
    BY <1>1, <1>2, <1>6 DEF Longest

-----------------------------------------------------------------------------
(***************************************************************************)
(* That the scan comes to an end.                                          *)
(***************************************************************************)
\* What is left to do at one place of the argument: behind an element the scan is at its
\* start again, but with a delimiter, a comment or the NUL in front of it.
Order == [start |-> 4, skip |-> 8, append |-> 7, match |-> 6, reset |-> 5, done |-> 0, overrun |-> 0]
Rank ==
    IF pc = "start" /\ ~AtEnd THEN 9
    ELSE IF pc = "skip" /\ ~InElement THEN 3
    ELSE Order[pc]

\* The scan moves on in the argument, or at its place, or in the element.
Nearer ==
    \/ i < i'
    \/ i' = i /\ Rank' < Rank
    \/ i' = i /\ Rank' = Rank /\ cToken' = cToken /\ startIndex < startIndex'

\* The only label at which no guard might hold.
MatchGoesOn == pc = "match" => current_index < Len(cToken) \/ cToken = <<>>

LEMMA Ranks ==
    /\ pc = "start" => Rank = IF AtEnd THEN 4 ELSE 9
    /\ pc = "skip" => Rank = IF InElement THEN 8 ELSE 3
    /\ pc = "append" => Rank = 7
    /\ pc = "match" => Rank = 6
    /\ pc = "reset" => Rank = 5
    /\ pc \in {"done", "overrun"} => Rank = 0
BY DEF Rank, Order

LEMMA RanksNext ==
    /\ pc' = "start" => Rank' = IF AtEnd' THEN 4 ELSE 9
    /\ pc' = "skip" => Rank' = IF InElement' THEN 8 ELSE 3
    /\ pc' = "append" => Rank' = 7
    /\ pc' = "match" => Rank' = 6
    /\ pc' = "reset" => Rank' = 5
    /\ pc' \in {"done", "overrun"} => Rank' = 0
BY DEF Rank, Order

\* At the same place of the same argument the two tests of what is there are the same.
LEMMA SamePlace ==
    ASSUME UNCHANGED <<input, i>>
    PROVE  InElement' = InElement /\ AtEnd' = AtEnd
BY DEF InElement, Comment, AtEnd

LEMMA StartAdvances == ASSUME IInv, Start PROVE Nearer
<1>1. /\ input \in Text /\ Len(input) \in Nat /\ i \in Nat
      /\ pc = "start" /\ pc' = "skip" /\ input' = input /\ At(input, i) # NUL
      /\ i # 0 => ~InElement /\ i' = i
    BY Typed DEF IInv, Start, Cursors, AtEnd
<1>2. i' \in Nat /\ i <= i'
    <2>1. CASE i # 0
        BY <1>1, <2>1
    <2>2. CASE i = 0
        <3>1. PassKeyword(0) /\ 0 \in 0..Len(input)
            BY <1>1, <2>2 DEF Start
        <3>2. i' \in 0..Len(input)
            BY <1>1, <3>1, KeywordEnds DEF PassKeyword
        <3> QED
            BY <2>2, <3>2
    <2> QED
        BY <2>1, <2>2
<1>3. CASE i' = i
    <2>1. InElement' = InElement /\ AtEnd = ~InElement
        BY <1>1, <1>3, SamePlace DEF AtEnd
    <2>2. Rank = (IF AtEnd THEN 4 ELSE 9) /\ Rank' = (IF InElement' THEN 8 ELSE 3)
        BY <1>1, Ranks, RanksNext
    <2>3. CASE InElement
        <3>1. Rank = 9 /\ Rank' = 8
            BY <2>1, <2>2, <2>3
        <3> QED
            BY <1>3, <3>1 DEF Nearer
    <2>4. CASE ~InElement
        <3>1. Rank = 4 /\ Rank' = 3
            BY <2>1, <2>2, <2>4
        <3> QED
            BY <1>3, <3>1 DEF Nearer
    <2> QED
        BY <2>3, <2>4
<1> QED
    BY <1>1, <1>2, <1>3 DEF Nearer

LEMMA SkipAdvances ==
    ASSUME IInv, SkipDelimiter \/ SkipBlockComment \/ SkipLineComment
    PROVE  Nearer
<1>1. input \in Text /\ Len(input) \in Nat /\ i \in Nat /\ i <= Len(input)
    BY Typed DEF IInv
<1>2. ASSUME SkipDelimiter PROVE i < i'
    <2>1. i + 1 \in 0..Len(input)
        <3>1. At(input, i) # NUL
            BY <1>2, Chars DEF SkipDelimiter
        <3> QED
            BY <1>1, <3>1, AtNul
    <2>2. PICK k \in 0..Len(input) : k = i + 1
        BY <2>1
    <2>3. i' \in k..Len(input)
        BY <1>1, <1>2, <2>2, KeywordEnds DEF SkipDelimiter, PassKeyword
    <2> QED
        BY <1>1, <2>2, <2>3
<1>3. ASSUME NEW n \in 1..2, NEW places \in SUBSET (i + 2..Len(input) - 1), SkipTo(places, n),
             pc = "skip", Comment # 0
      PROVE  Nearer
    <2> DEFINE first == CHOOSE p \in places : \A q \in places : p <= q
    <2>1. CASE pc' = "overrun" /\ i' = i
        <3>1. Rank = 3 /\ Rank' = 0
            BY <1>3, <2>1, Ranks, RanksNext DEF InElement
        <3> QED
            BY <2>1, <3>1 DEF Nearer
    <2>2. CASE places # {} /\ i' = n + first
        <3>1. first \in places
            <4>1. places \in SUBSET Nat
                BY <1>1
            <4> QED
                BY <2>2, <4>1, Least
        <3> HIDE DEF first
        <3>2. first \in i + 2..Len(input) - 1
            BY <3>1
        <3> QED
            BY <1>1, <2>2, <3>2 DEF Nearer
    <2>3. (pc' = "overrun" /\ i' = i) \/ (places # {} /\ i' = n + first)
        BY <1>3 DEF SkipTo
    <2> QED
        BY <2>1, <2>2, <2>3
<1>4. CASE SkipBlockComment
    BY <1>3, <1>4 DEF SkipBlockComment
<1>5. CASE SkipLineComment
    BY <1>3, <1>5 DEF SkipLineComment
<1> QED
    BY <1>2, <1>4, <1>5 DEF Nearer

LEMMA MoveAdvances ==
    ASSUME IInv, Finish \/ EndSkip \/ EndElement \/ EmptyElement \/ Reset
    PROVE  Nearer
<1>1. i' = i /\ input' = input
    BY DEF Finish, EndSkip, EndElement, EmptyElement, Reset
<1>2. AtEnd' = AtEnd
    BY <1>1, SamePlace
<1>3. CASE Finish
    <2>1. Rank = 4 /\ Rank' = 0
        BY <1>3, Ranks, RanksNext DEF Finish, AtEnd
    <2> QED
        BY <1>1, <2>1 DEF Nearer
<1>4. CASE EndSkip
    <2>1. Rank = 8 /\ Rank' = 7
        BY <1>4, Ranks, RanksNext DEF EndSkip
    <2> QED
        BY <1>1, <2>1 DEF Nearer
<1>5. CASE EndElement
    <2>1. Rank = 7 /\ Rank' = 6
        BY <1>5, Ranks, RanksNext DEF EndElement
    <2> QED
        BY <1>1, <2>1 DEF Nearer
<1>6. CASE EmptyElement
    <2>1. Rank = 6 /\ Rank' = 5
        BY <1>6, Ranks, RanksNext DEF EmptyElement
    <2> QED
        BY <1>1, <2>1 DEF Nearer
<1>7. CASE Reset
    <2>1. AtEnd
        BY <1>7 DEF Reset, IInv, Cursors
    <2>2. Rank = 5 /\ Rank' = 4
        BY <1>2, <1>7, <2>1, Ranks, RanksNext DEF Reset
    <2> QED
        BY <1>1, <2>2 DEF Nearer
<1> QED
    BY <1>3, <1>4, <1>5, <1>6, <1>7

LEMMA MatchAdvances == ASSUME IInv, Match PROVE Nearer
<1>1. /\ cToken \in Text /\ Len(cToken) \in Nat /\ startIndex \in Nat
      /\ pc = "match" /\ i' = i /\ cToken' = cToken
      /\ rest_index = startIndex /\ current_index = startIndex /\ startIndex < Len(cToken)
    BY Typed DEF IInv, Match, Cursors
<1>2. PICK r \in 0..Len(cToken) - 1 : r = startIndex /\ r = rest_index
    BY <1>1
<1> DEFINE type == checkTokenType(cToken, r)
<1>3. PICK last \in r..Len(cToken) + 1 : type.last = last
    BY <1>1, <1>2, TokenStands
<1>4. /\ last < Len(cToken) => startIndex' = last + 1
      /\ pc' = IF last + 1 < Len(cToken) THEN "match" ELSE "reset"
    <2> HIDE DEF type
    <2>1. Matched(type, i - Len(cToken))
        BY <1>2 DEF Match, type
    <2> QED
        BY <1>3, <2>1 DEF Matched
<1>5. Rank = 6 /\ (pc' = "reset" => Rank' = 5) /\ (pc' = "match" => Rank' = 6)
    BY <1>1, Ranks, RanksNext
<1>6. last \in Nat /\ startIndex <= last
    BY <1>1, <1>2, <1>3
<1>7. CASE pc' = "reset"
    BY <1>1, <1>5, <1>7 DEF Nearer
<1>8. CASE last + 1 < Len(cToken)
    <2>1. startIndex' = last + 1 /\ startIndex < last + 1 /\ Rank' = Rank
        BY <1>1, <1>4, <1>5, <1>6, <1>8
    <2> QED
        BY <1>1, <2>1 DEF Nearer
<1> QED
    BY <1>4, <1>7, <1>8

-----------------------------------------------------------------------------
(***************************************************************************)
(* Theorems.                                                               *)
(***************************************************************************)
\* The cursors, the element and the lines printed for it keep in step, whatever the
\* argument.
THEOREM Inductive == Spec => []IInv
BY InitInv, NextInv, PTL DEF Spec

\* Every variable keeps its type, and the element with its NUL fits what is allocated.
THEOREM TypeCorrect == Spec => []TypeOK
<1>1. IInv => TypeOK
    BY DEF IInv
<1> QED
    BY <1>1, Inductive, PTL

\* The lines are pieces of the argument in its order; those of an element are all of it,
\* without gap or repetition, but for what is known to be lost.
THEOREM PiecesSound == Spec => []ElementsTiled
<1>1. IInv => ElementsTiled
    <2> SUFFICES ASSUME IInv PROVE ElementsTiled
        OBVIOUS
    <2>1. DOMAIN printed = 1..Len(printed)
        BY DEF IInv, Ordered
    <2>2. \A n \in 1..Len(printed) :
             printed[n].text # <<>> /\ (n > 1 => end(n - 1) <= printed[n].at)
        BY DEF IInv, Ordered
    <2>3. pc = "match" => rest_index = startIndex /\ current_index = startIndex
        BY DEF IInv, Cursors
    <2>4. pc \in {"match", "reset"} =>
             /\ \A n \in 1..Len(printed) : printed[n].at >= begin => printed[n].at = edge(n - 1)
             /\ edge(Len(printed)) = begin + startIndex
        BY DEF IInv, Pieces
    <2>5. pc = "reset" /\ startIndex # Len(cToken) =>
             Lost(SubSeq(cToken, startIndex + 1, Len(cToken)), startIndex)
        BY DEF IInv, Cursors
    <2> QED
        BY <2>1, <2>2, <2>3, <2>4, <2>5 DEF ElementsTiled, edge, end, begin
<1> QED
    BY <1>1, Inductive, PTL

\* A comment with an end in the argument never takes the scan beyond the argument, for
\* every argument and every comment in it.
THEOREM CommentsSound == Spec => []ClosedCommentsStayInside
<1>1. IInv => ClosedCommentsStayInside
    BY DEF IInv
<1> QED
    BY <1>1, Inductive, PTL

\* Every line printed has the name of its text, and no longer token begins at its place in
\* the argument, but for the texts that are known to be misread and the numbers that are cut
\* off in front of a fraction, whatever the argument.
THEOREM LabelsSound == Spec => []LabelsFit
<1>1. Init => Labels
    BY DEF Init, Labels
<1>2. IInv /\ Labels => LabelsFit
    <2> SUFFICES ASSUME IInv, Labels, NEW l \in ToSet(printed), ~Misread(l.text)
                 PROVE  Fits(l.name, l.text) /\ (Longest(l) \/ CutOff(l))
        BY DEF LabelsFit
    <2>1. PICK n \in 1..Len(printed) : l = printed[n]
        BY DEF IInv, Ordered, ToSet
    <2>2. Known(l.name, l.text, After(end(n)))
        BY <2>1 DEF Labels, LineFits
    <2>3. /\ l.text \in Text /\ l.text # <<>> /\ l.at \in Nat /\ l.at + Len(l.text) <= Len(input)
          /\ l.text = SubSeq(input, l.at + 1, l.at + Len(l.text)) /\ end(n) = l.at + Len(l.text)
        <3>1. l \in LineType
            BY <2>1 DEF IInv, Ordered
        <3>2. l.text \in Text /\ l.at \in Nat
            BY <3>1 DEF LineType
        <3>3. end(n) = l.at + Len(l.text)
            BY <2>1 DEF end
        <3>4. l.text # <<>> /\ end(n) <= Len(input) /\ l.text = SubSeq(input, l.at + 1, end(n))
            BY <2>1 DEF IInv, Ordered
        <3> QED
            BY <3>2, <3>3, <3>4
    <2>4. input \in Text
        BY TokenizerAssumption DEF IInv, Text
    <2> QED
        BY <2>2, <2>3, <2>4, KnownLongest
<1> QED
    BY <1>1, <1>2, LabelsStep, Inductive, PTL DEF Spec

\* Every step brings the scan nearer to its end, and none waits for anything: i is at
\* most the length of the argument, startIndex that of the element, so that the scan of any
\* argument takes a bounded number of steps.
THEOREM StepsAdvance == Spec => []MatchGoesOn /\ [][Nearer]_vars
<1>1. IInv => MatchGoesOn
    <2> SUFFICES ASSUME IInv, pc = "match" PROVE current_index < Len(cToken) \/ cToken = <<>>
        BY DEF MatchGoesOn
    <2> QED
        BY DEF IInv, Cursors
<1>2. IInv /\ [Next]_vars => [Nearer]_vars
    <2> SUFFICES ASSUME IInv, Next PROVE Nearer
        OBVIOUS
    <2>1. CASE AppendChar
        BY <2>1, Typed DEF AppendChar, IInv, Nearer
    <2> QED
        BY <2>1, StartAdvances, SkipAdvances, MoveAdvances, MatchAdvances DEF Next
<1> QED
    BY <1>1, <1>2, Inductive, PTL DEF Spec
=============================================================================
