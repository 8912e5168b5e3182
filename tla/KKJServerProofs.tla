-------------------------- MODULE KKJServerProofs ---------------------------
(***************************************************************************)
(* Proofs about the joke server that do not look into the messages: types, *)
(* the chat's place in the protocol, which connections are open, what an   *)
(* error does, and that the jokes are those of the file.                   *)
(***************************************************************************)
EXTENDS KKJServer, FiniteSetTheorems, SequenceTheorems, TLAPS

-----------------------------------------------------------------------------
(***************************************************************************)
(* The file of jokes.  Nothing in this part speaks of pc.                  *)
(***************************************************************************)
Lines == Seq(STRING) \ {<<>>}

\* What getJokes has made of the lines before lineNum: two of them that are not empty are
\* a joke, and a last odd one is the setup of the next.
JokesRead ==
    /\ jokeFile \in Seq(Lines) /\ lineNum \in 1..Len(jokeFile) + 1
    /\ jokes \in Seq([setupLine : Seq(STRING), punchLine : Seq(STRING)])
    /\ jokesSize \in Nat /\ Len(jokes) < jokesSize
    /\ isJokeStarted \in BOOLEAN
    /\ setupLine \in Seq(STRING)
    /\ Count(lineNum - 1) = 2 * Len(jokes) + (IF isJokeStarted THEN 1 ELSE 0)
    /\ \A k \in Texts(lineNum - 1), j \in 1..Len(jokes) :
          /\ Count(k) = 2*j - 1 => jokes[j].setupLine = Text(jokeFile[k])
          /\ Count(k) = 2*j => jokes[j].punchLine = Text(jokeFile[k])
    /\ isJokeStarted =>
          \A k \in Texts(lineNum - 1) :
             Count(k) = Count(lineNum - 1) => setupLine = Text(jokeFile[k])

\* A line's text is what is before the first place from which the rest is an end of line.
LEMMA TextIs ==
    ASSUME NEW line \in Lines, NEW n \in 0..Len(line), SubSeq(line, n + 1, Len(line)) \in Ends,
           \A m \in 0..n - 1 : SubSeq(line, m + 1, Len(line)) \notin Ends
    PROVE  Text(line) = SubSeq(line, 1, n)
<1> DEFINE cuts == {m \in 0..Len(line) : SubSeq(line, m + 1, Len(line)) \in Ends}
           least == CHOOSE m \in cuts : \A k \in cuts : m <= k
<1>1. Len(line) \in Nat /\ n \in cuts /\ \A m \in cuts : m \in Nat /\ n <= m
    BY DEF Lines
<1>2. Text(line) = SubSeq(line, 1, least)
    BY DEF Text
<1>3. least = n
    <2> HIDE DEF cuts
    <2>1. least \in cuts /\ \A k \in cuts : least <= k
        BY <1>1
    <2> HIDE DEF least
    <2> QED
        BY <1>1, <2>1
<1> QED
    BY <1>2, <1>3

\* removeNewline takes off the end of a line, whichever it is, and nothing else.
LEMMA LineText ==
    ASSUME NEW line \in Lines
    PROVE  removeNewline(line) = Text(line) /\ Text(line) \in Seq(STRING)
<1> DEFINE L == Len(line)
<1>1. line \in Seq(STRING) /\ L \in Nat /\ L >= 1
    BY DEF Lines
<1>2. /\ Len(<<"\r", "\n">>) = 2 /\ Len(<<"\n">>) = 1 /\ Len(<<>>) = 0
      /\ <<"\r", "\n">>[1] = "\r" /\ <<"\r", "\n">>[2] = "\n" /\ <<"\n">>[1] = "\n"
    OBVIOUS
<1> DEFINE Chars == STRING \cup {"\r", "\n"}
<1>7. \A s, t \in Seq(Chars) : Len(s) = Len(t) /\ (\A i \in 1..Len(s) : s[i] = t[i]) => s = t
    BY SeqEqual
<1>8. <<"\r", "\n">> \in Seq(Chars) /\ <<"\n">> \in Seq(Chars)
    OBVIOUS
<1>9. \A s \in Seq(STRING) : s \in Seq(Chars)
    BY SeqMonotonic
<1> HIDE DEF Chars
<1>3. \A n \in 0..L :
        LET rest == SubSeq(line, n + 1, L)
        IN  rest \in Seq(STRING) /\ Len(rest) = L - n
            /\ \A i \in 1..L - n : rest[i] = line[n + i]
    BY <1>1
<1> HIDE DEF L
<1>4. \A n \in 0..L : SubSeq(line, n + 1, L) \in Ends <=>
        \/ n = L
        \/ n = L - 1 /\ line[L] = "\n"
        \/ n = L - 2 /\ line[L - 1] = "\r" /\ line[L] = "\n"
    <2> SUFFICES ASSUME NEW n \in 0..L
                 PROVE  SubSeq(line, n + 1, L) \in Ends <=>
                            \/ n = L
                            \/ n = L - 1 /\ line[L] = "\n"
                            \/ n = L - 2 /\ line[L - 1] = "\r" /\ line[L] = "\n"
        OBVIOUS
    <2> DEFINE rest == SubSeq(line, n + 1, L)
    <2>1. rest \in Seq(STRING) /\ Len(rest) = L - n /\ \A i \in 1..L - n : rest[i] = line[n + i]
        BY <1>3
    <2> HIDE DEF rest
    <2>2. rest = <<>> <=> n = L
        BY <1>1, <2>1
    <2>3. rest = <<"\n">> <=> n = L - 1 /\ line[L] = "\n"
        <3>1. ASSUME rest = <<"\n">> PROVE n = L - 1 /\ line[L] = "\n"
            <4>1. L - n = 1 /\ n + 1 = L
                BY <1>1, <1>2, <2>1, <3>1
            <4> QED
                BY <1>1, <1>2, <2>1, <3>1, <4>1
        <3>2. ASSUME n = L - 1, line[L] = "\n" PROVE rest = <<"\n">>
            <4>1. Len(rest) = 1 /\ rest[1] = line[L]
                <5>1. L - n = 1 /\ n + 1 = L
                    BY <1>1, <3>2
                <5> QED
                    BY <2>1, <5>1
            <4>2. \A i \in 1..1 : rest[i] = <<"\n">>[i]
                BY <1>2, <3>2, <4>1
            <4> QED
                BY <1>2, <1>7, <1>8, <1>9, <2>1, <4>1, <4>2
        <3> QED
            BY <3>1, <3>2
    <2>4. rest = <<"\r", "\n">> <=> n = L - 2 /\ line[L - 1] = "\r" /\ line[L] = "\n"
        <3>1. ASSUME rest = <<"\r", "\n">>
              PROVE  n = L - 2 /\ line[L - 1] = "\r" /\ line[L] = "\n"
            <4>1. L - n = 2 /\ n + 1 = L - 1 /\ n + 2 = L
                BY <1>1, <1>2, <2>1, <3>1
            <4> QED
                BY <1>1, <1>2, <2>1, <3>1, <4>1
        <3>2. ASSUME n = L - 2, line[L - 1] = "\r", line[L] = "\n" PROVE rest = <<"\r", "\n">>
            <4>1. Len(rest) = 2 /\ rest[1] = line[L - 1] /\ rest[2] = line[L]
                <5>1. L - n = 2 /\ n + 1 = L - 1 /\ n + 2 = L
                    BY <1>1, <3>2
                <5> QED
                    BY <2>1, <5>1
            <4>2. \A i \in 1..2 : rest[i] = <<"\r", "\n">>[i]
                BY <1>2, <3>2, <4>1
            <4> QED
                BY <1>2, <1>7, <1>8, <1>9, <2>1, <4>1, <4>2
        <3> QED
            BY <3>1, <3>2
    <2> QED
        BY <2>2, <2>3, <2>4 DEF rest, Ends
<1>5. CASE L > 1 /\ line[L - 1] = "\r" /\ line[L] = "\n"
    <2>1. SubSeq(line, L - 1, L) = <<"\r", "\n">>
        <3>1. L - 2 \in 0..L /\ (L - 2) + 1 = L - 1 /\ L - 2 # L /\ L - 2 # L - 1
            BY <1>1, <1>5
        <3>2. SubSeq(line, L - 1, L) \in Ends
            BY <1>4, <1>5, <3>1
        <3>3. Len(SubSeq(line, L - 1, L)) = 2
            BY <1>1, <1>3, <3>1
        <3> DEFINE rest == SubSeq(line, L - 1, L)
        <3> HIDE DEF rest
        <3>4. rest \in {<<>>, <<"\n">>, <<"\r", "\n">>} /\ Len(rest) = 2
            BY <3>2, <3>3 DEF Ends, rest
        <3>5. rest = <<"\r", "\n">>
            BY <3>4
        <3> QED
            BY <3>5 DEF rest
    <2>2. removeNewline(line) = SubSeq(line, 1, L - 2)
        <3>1. removeNewline(line) = Front(Front(line))
            BY <1>5, <2>1 DEF removeNewline, L
        <3>2. Front(line) = SubSeq(line, 1, L - 1) /\ Len(SubSeq(line, 1, L - 1)) = L - 1
            <4>1. Len(SubSeq(line, 1, L - 1)) = L - 1
                BY <1>1
            <4> QED
                BY <4>1 DEF Front, L
        <3>3. Front(Front(line)) = SubSeq(SubSeq(line, 1, L - 1), 1, L - 2)
            BY <1>1, <3>2 DEF Front
        <3>4. SubSeq(SubSeq(line, 1, L - 1), 1, L - 2) = SubSeq(line, 1, L - 2)
            BY <1>1, <1>5
        <3> QED
            BY <3>1, <3>3, <3>4
    <2>3. Text(line) = SubSeq(line, 1, L - 2)
        <3>1. L - 2 \in 0..L /\ \A m \in 0..(L - 2) - 1 : m \in 0..L /\ m # L /\ m # L - 1 /\ m # L - 2
            BY <1>1, <1>5
        <3> QED
            BY <1>4, <1>5, <3>1, TextIs DEF L
    <2>4. SubSeq(line, 1, L - 2) \in Seq(STRING)
        BY <1>1 DEF L
    <2> QED
        BY <2>2, <2>3, <2>4
<1>6. CASE ~(L > 1 /\ line[L - 1] = "\r" /\ line[L] = "\n")
    <2>1. ~(L > 1 /\ SubSeq(line, L - 1, L) = <<"\r", "\n">>)
        <3>1. ASSUME L > 1 PROVE LET rest == SubSeq(line, L - 1, L)
                                 IN  rest[1] = line[L-1] /\ rest[2] = line[L]
            BY <1>1, <3>1
        <3> QED
            BY <1>2, <1>6, <3>1
    <2>2. Last(line) = line[L]
        BY DEF Last, L
    <2>3. CASE line[L] = "\n"
        <3>1. removeNewline(line) = SubSeq(line, 1, L - 1)
            BY <2>1, <2>2, <2>3 DEF removeNewline, Front, L
        <3>2. L - 1 \in 0..L /\ (L - 1) + 1 = L
              /\ \A m \in 0..(L - 1) - 1 : m \in 0..L /\ m # L /\ m # L - 1
            BY <1>1
        <3>3. SubSeq(line, (L - 1) + 1, L) \in Ends
            BY <1>4, <2>3, <3>2
        <3>4. \A m \in 0..(L - 1) - 1 : SubSeq(line, m + 1, L) \notin Ends
            <4>1. \A m \in 0..(L - 1) - 1 : m = L - 2 => L > 1
                BY <1>1
            <4> QED
                BY <1>4, <1>6, <3>2, <4>1
        <3>5. Text(line) = SubSeq(line, 1, L - 1)
            BY <3>2, <3>3, <3>4, TextIs DEF L
        <3>6. SubSeq(line, 1, L - 1) \in Seq(STRING)
            BY <1>1 DEF L
        <3> QED
            BY <3>1, <3>5, <3>6
    <2>4. CASE line[L] # "\n"
        <3>1. removeNewline(line) = line
            BY <2>1, <2>2, <2>4 DEF removeNewline, L
        <3>2. L \in 0..L /\ \A m \in 0..L - 1 : m \in 0..L /\ m # L
            BY <1>1
        <3>3. Text(line) = SubSeq(line, 1, L)
            BY <1>1, <1>4, <2>4, <3>2, TextIs DEF L
        <3>4. SubSeq(line, 1, L) = line
            BY <1>1 DEF L
        <3> QED
            BY <1>1, <3>1, <3>3, <3>4
    <2> QED
        BY <2>3, <2>4
<1> QED
    BY <1>5, <1>6

\* The lines that are not empty are counted one at a time.
LEMMA CountNext ==
    ASSUME NEW n \in Nat
    PROVE  /\ IsFiniteSet(Texts(n)) /\ Count(n) \in Nat
           /\ \A k \in 0..n : Count(k) <= Count(n)
           /\ Texts(n + 1) = IF Text(jokeFile[n + 1]) # <<>> THEN Texts(n) \cup {n + 1} ELSE Texts(n)
           /\ Count(n + 1) = IF Text(jokeFile[n + 1]) # <<>> THEN Count(n) + 1 ELSE Count(n)
<1>1. ASSUME NEW k \in Nat PROVE IsFiniteSet(Texts(k))
    <2>1. IsFiniteSet(1..k) /\ Texts(k) \in SUBSET (1..k)
        BY FS_Interval DEF Texts
    <2> QED
        BY <2>1, FS_Subset
<1>2. \A k \in 0..n : Texts(k) \in SUBSET Texts(n)
    BY DEF Texts
<1>3. \A k \in 0..n : Count(k) <= Count(n)
    BY <1>1, <1>2, FS_Subset DEF Count
<1>4. Texts(n + 1) = IF Text(jokeFile[n + 1]) # <<>> THEN Texts(n) \cup {n + 1} ELSE Texts(n)
    BY DEF Texts
<1>5. n + 1 \notin Texts(n)
    BY DEF Texts
<1>6. Count(n + 1) = IF Text(jokeFile[n + 1]) # <<>> THEN Count(n) + 1 ELSE Count(n)
    BY <1>1, <1>4, <1>5, FS_AddElement DEF Count
<1> QED
    BY <1>1, <1>3, <1>4, <1>6, FS_CardinalityType DEF Count

\* Before the first line there are no jokes.
LEMMA JokesInit == JokeFileInit => JokesRead
<1> SUFFICES ASSUME JokeFileInit PROVE JokesRead
    OBVIOUS
<1>1. /\ jokeFile \in Seq(Lines) /\ lineNum = 1 /\ jokes = <<>> /\ jokesSize = INIT_NUM_JOKES
      /\ isJokeStarted = FALSE /\ setupLine = <<>> /\ INIT_NUM_JOKES \in Nat \ {0}
    BY JokeFileAssumption DEF JokeFileInit, Lines
<1>2. Texts(0) = {}
    BY DEF Texts
<1>3. Count(0) = 0
    BY <1>2, FS_EmptySet DEF Count
<1>4. lineNum - 1 = 0 /\ lineNum \in 1..Len(jokeFile) + 1 /\ Len(jokes) = 0
    BY <1>1
<1>5. <<>> \in Seq(STRING) /\ <<>> \in Seq([setupLine : Seq(STRING), punchLine : Seq(STRING)])
    OBVIOUS
<1>6. Texts(lineNum - 1) = {} /\ Count(lineNum - 1) = 0
    BY <1>2, <1>3, <1>4
<1>7. ~isJokeStarted /\ isJokeStarted \in BOOLEAN
    BY <1>1
<1>8. /\ jokes \in Seq([setupLine : Seq(STRING), punchLine : Seq(STRING)])
      /\ setupLine \in Seq(STRING)
    BY <1>1, <1>5
<1>9. /\ jokesSize \in Nat /\ Len(jokes) < jokesSize
      /\ Count(lineNum - 1) = 2 * Len(jokes) + (IF isJokeStarted THEN 1 ELSE 0)
    BY <1>1, <1>4, <1>6, <1>7
<1> QED
    BY <1>1, <1>4, <1>6, <1>7, <1>8, <1>9 DEF JokesRead

\* Reading a line, of whichever kind, keeps it so.
LEMMA JokesStep ==
    ASSUME JokesRead, BlankLine \/ SetupLine \/ PunchLine PROVE JokesRead'
<1> DEFINE n == lineNum - 1
           line == jokeFile[lineNum]
<1>1. /\ lineNum \in 1..Len(jokeFile) /\ lineNum' = lineNum + 1
      /\ UNCHANGED <<jokeFile, numJokes>>
    BY DEF JokesRead, BlankLine, SetupLine, PunchLine, GetLine
<1>2. /\ jokeFile \in Seq(Lines) /\ n \in Nat /\ lineNum = n + 1 /\ line \in Lines
      /\ lineNum' - 1 = n + 1 /\ lineNum' \in 1..Len(jokeFile) + 1
    BY <1>1 DEF JokesRead
<1>3. Line = Text(line) /\ Line \in Seq(STRING)
    BY <1>2, LineText DEF Line
<1>4. /\ Count(n) \in Nat /\ \A k \in 0..n : Count(k) <= Count(n)
      /\ Texts(n + 1) = IF Line # <<>> THEN Texts(n) \cup {n + 1} ELSE Texts(n)
      /\ Count(n + 1) = IF Line # <<>> THEN Count(n) + 1 ELSE Count(n)
    BY <1>2, <1>3, CountNext
<1>5. /\ \A k : Texts(k)' = Texts(k)
      /\ \A k : Count(k)' = Count(k)
    BY <1>1 DEF Texts, Count
<1>6. \A k \in Texts(n) : k \in 1..n /\ k # n + 1 /\ Count(k) \in Nat /\ Count(k) <= Count(n)
    <2>1. \A k \in Texts(n) : k \in 1..n
        BY DEF Texts
    <2>2. \A k \in Nat : Count(k) \in Nat
        BY CountNext
    <2> HIDE DEF n
    <2> QED
        BY <1>2, <1>4, <2>1, <2>2
<1>7. /\ jokes \in Seq([setupLine : Seq(STRING), punchLine : Seq(STRING)])
      /\ jokesSize \in Nat /\ Len(jokes) < jokesSize /\ Len(jokes) \in Nat
      /\ isJokeStarted \in BOOLEAN /\ setupLine \in Seq(STRING)
      /\ Count(n) = 2 * Len(jokes) + (IF isJokeStarted THEN 1 ELSE 0)
      /\ \A k \in Texts(n), j \in 1..Len(jokes) :
            /\ Count(k) = 2*j - 1 => jokes[j].setupLine = Text(jokeFile[k])
            /\ Count(k) = 2*j => jokes[j].punchLine = Text(jokeFile[k])
      /\ isJokeStarted => \A k \in Texts(n) : Count(k) = Count(n) => setupLine = Text(jokeFile[k])
    <2>1. \A r \in Seq([setupLine : Seq(STRING), punchLine : Seq(STRING)]) : Len(r) \in Nat
        OBVIOUS
    <2>2. Len(jokes) \in Nat
        BY <2>1 DEF JokesRead
    <2> QED
        BY <2>2, Zenon DEF JokesRead
<1> HIDE DEF n
<1>8. CASE BlankLine
    <2>1. Line = <<>> /\ UNCHANGED <<jokes, jokesSize, isJokeStarted, setupLine>>
        BY <1>8 DEF BlankLine
    <2> QED
        BY <1>1, <1>2, <1>4, <1>5, <1>7, <2>1 DEF JokesRead
<1>9. CASE SetupLine
    <2>1. /\ Line # <<>> /\ ~isJokeStarted /\ setupLine' = Line /\ isJokeStarted' = TRUE
          /\ UNCHANGED <<jokes, jokesSize>>
        BY <1>9 DEF SetupLine
    <2>2. Count(n + 1) = 2 * Len(jokes) + 1
        BY <1>4, <1>7, <2>1
    <2>3. \A k \in Texts(n + 1) : Count(k) = Count(n + 1) => k = n + 1
        BY <1>4, <1>6, <2>1
    <2>4. \A k \in Texts(n + 1), j \in 1..Len(jokes) :
            /\ Count(k) = 2*j - 1 => jokes[j].setupLine = Text(jokeFile[k])
            /\ Count(k) = 2*j => jokes[j].punchLine = Text(jokeFile[k])
        <3>1. \A j \in 1..Len(jokes) : Count(n + 1) # 2*j - 1 /\ Count(n + 1) # 2*j
            BY <1>7, <2>2
        <3> QED
            BY <1>4, <1>7, <3>1
    <2>5. \A k \in Texts(n + 1) : Count(k) = Count(n + 1) => setupLine' = Text(jokeFile[k])
        BY <1>2, <1>3, <2>1, <2>3
    <2> QED
        BY <1>1, <1>2, <1>3, <1>5, <1>7, <2>1, <2>2, <2>4, <2>5 DEF JokesRead
<1>10. CASE PunchLine
    <2> DEFINE joke == [setupLine |-> setupLine, punchLine |-> Line]
               c == Len(jokes)
    <2>1. /\ Line # <<>> /\ isJokeStarted /\ isJokeStarted' = FALSE
          /\ jokes' = Append(jokes, joke) /\ setupLine' = setupLine
          /\ jokesSize' = IF Len(jokes) + 1 < jokesSize THEN jokesSize ELSE jokesSize * 2
        BY <1>10 DEF PunchLine
    <2>2. joke \in [setupLine : Seq(STRING), punchLine : Seq(STRING)]
        BY <1>3, <1>7
    <2>3. /\ jokes' \in Seq([setupLine : Seq(STRING), punchLine : Seq(STRING)])
          /\ Len(jokes') = c + 1 /\ jokes'[c + 1] = joke
          /\ \A j \in 1..c : jokes'[j] = jokes[j]
        BY <1>7, <2>1, <2>2
    <2>4. joke.setupLine = setupLine /\ joke.punchLine = Line
        OBVIOUS
    <2>5. c \in Nat /\ Count(n) = 2*c + 1 /\ Count(n + 1) = 2*(c + 1)
        BY <1>4, <1>7, <2>1
    <2> HIDE DEF c, joke
    <2>6. jokesSize' \in Nat /\ Len(jokes') < jokesSize'
        BY <1>7, <2>1, <2>3, <2>5 DEF c
    <2>7. ASSUME NEW k \in Texts(n + 1), NEW j \in 1..c + 1
          PROVE  /\ Count(k) = 2*j - 1 => jokes'[j].setupLine = Text(jokeFile[k])
                 /\ Count(k) = 2*j => jokes'[j].punchLine = Text(jokeFile[k])
        <3>1. CASE k = n + 1
            <4>1. Count(k) # 2*j - 1
                BY <2>5, <3>1
            <4>2. Count(k) = 2*j => j = c + 1
                BY <2>5, <3>1
            <4> QED
                BY <1>2, <1>3, <2>3, <2>4, <3>1, <4>1, <4>2
        <3>2. CASE k # n + 1
            <4>1. k \in Texts(n) /\ Count(k) \in Nat /\ Count(k) <= Count(n)
                BY <1>4, <1>6, <2>1, <3>2
            <4>2. CASE j = c + 1
                <5>1. Count(k) # 2*j
                    BY <2>5, <4>1, <4>2
                <5>2. Count(k) = 2*j - 1 => setupLine = Text(jokeFile[k])
                    BY <1>7, <2>1, <2>5, <4>1, <4>2
                <5> QED
                    BY <2>3, <2>4, <4>2, <5>1, <5>2
            <4>3. CASE j # c + 1
                <5>1. j \in 1..c
                    BY <2>5, <4>3
                <5> QED
                    BY <1>7, <2>3, <4>1, <5>1 DEF c
            <4> QED
                BY <4>2, <4>3
        <3> QED
            BY <3>1, <3>2
    <2>8. /\ Count(lineNum - 1)' = 2 * Len(jokes')
          /\ \A k \in Texts(lineNum - 1)', j \in 1..Len(jokes') :
                /\ Count(k)' = 2*j - 1 => jokes'[j].setupLine = Text(jokeFile[k])'
                /\ Count(k)' = 2*j => jokes'[j].punchLine = Text(jokeFile[k])'
        BY <1>1, <1>2, <1>5, <2>3, <2>5, <2>7
    <2>9. /\ jokeFile' \in Seq(Lines) /\ lineNum' \in 1..Len(jokeFile') + 1
          /\ setupLine' \in Seq(STRING)
        BY <1>1, <1>2, <1>7, <2>1
    <2>10. ~isJokeStarted' /\ isJokeStarted' \in BOOLEAN
        BY <2>1
    <2>11. Count(lineNum - 1)' = 2 * Len(jokes') + (IF isJokeStarted' THEN 1 ELSE 0)
        <3>1. Len(jokes') \in Nat
            BY <2>3, <2>5
        <3> QED
            BY <2>8, <2>10, <3>1
    <2> QED
        BY <2>3, <2>6, <2>8, <2>9, <2>10, <2>11 DEF JokesRead
<1> QED
    BY <1>8, <1>9, <1>10

\* What does not touch the loader keeps what it has read.
LEMMA JokesKept == JokesRead /\ UNCHANGED loader => JokesRead'
<1> SUFFICES ASSUME JokesRead, UNCHANGED loader PROVE JokesRead'
    OBVIOUS
<1>1. UNCHANGED <<jokeFile, lineNum, jokes, jokesSize, isJokeStarted, setupLine>>
    BY DEF loader
<1>2. (\A k : Texts(k)' = Texts(k)) /\ (\A k : Count(k)' = Count(k))
    BY <1>1 DEF Texts, Count
<1>3. Texts(lineNum - 1)' = Texts(lineNum - 1) /\ Count(lineNum - 1)' = Count(lineNum - 1)
    BY <1>1 DEF Texts, Count
<1> QED
    BY <1>1, <1>2, <1>3 DEF JokesRead

-----------------------------------------------------------------------------
(***************************************************************************)
(* The server.                                                             *)
(***************************************************************************)
Words == DOMAIN strlen
Symbols == Words \cup {PIPE}
Reported == Codes({1, 3, 5})

-----------------------------------------------------------------------------
(***************************************************************************)
(* The inductive invariant.                                                *)
(***************************************************************************)
Typed ==
    /\ pc \in {"open", "load", "bind", "accept", "write", "read", "check", "killed", "exited",
              "divided"}
    /\ cur \in Clients \cup {Nobody} /\ msgNum \in 0..5
    /\ tokenNum \in 1..3 /\ status \in {"", "REG", "ERR"} /\ messageLen \in Int
    /\ buffer \in Seq(Symbols) /\ cToken \in Seq(Words) /\ resp \in Seq(Words \cup Reported)
    /\ open \in SUBSET Clients /\ backlog \in Seq(Clients)
    /\ inbox \in [Clients -> Seq(Symbols)]
    /\ peer \in [Clients -> {"none", "open", "closed", "aborted"}]
    /\ link \in [Clients -> {"up", "resetting", "reset"}]
    /\ sent \in [Clients -> Seq(Seq(Symbols))]
    /\ written \in [Clients -> 0..3]
    /\ errors \in [Clients -> Seq(Reported)]

\* What the server is at follows from how many messages it has written to the client.
Chatting == pc \in {"write", "read", "check", "killed", "divided"}
ChatInv ==
    /\ Chatting <=> cur # Nobody
    /\ Chatting => cur \in open
    /\ pc = "write" => msgNum = 2 * written[cur] /\ written[cur] <= 2
    /\ pc \in {"read", "check"} => msgNum = 2 * written[cur] - 1 /\ written[cur] >= 1

\* Before its chat nothing has passed between a client and the server.
Fresh(c) ==
    /\ written[c] = 0 /\ sent[c] = <<>> /\ inbox[c] = <<>> /\ errors[c] = <<>>
    /\ c \notin open
Waiting(c) == \E i \in DOMAIN backlog : backlog[i] = c
QueueInv ==
    /\ \A i, j \in DOMAIN backlog : backlog[i] = backlog[j] => i = j
    /\ \A c \in Clients : peer[c] = "none" => Fresh(c) /\ ~Waiting(c) /\ link[c] = "up"
    /\ \A c \in Clients : Waiting(c) => Fresh(c)

\* After it nothing passes any more.
HistoryInv ==
    /\ \A c \in Clients : Len(sent[c]) <= written[c]
    /\ \A c \in Clients : errors[c] # <<>> => c \notin open /\ Len(errors[c]) = 1
    /\ OnlyResetsLeak

\* The jokes have been read before anything else, and only a file without any is fatal.
Loaded ==
    /\ JokesRead
    /\ pc \notin {"open", "load", "exited"} =>
          lineNum = Len(jokeFile) + 1 /\ ~isJokeStarted /\ numJokes = Len(jokes)
    /\ pc = "divided" => numJokes = 0

IInv == Typed /\ ChatInv /\ QueueInv /\ HistoryInv /\ Loaded

-----------------------------------------------------------------------------
\* readSocket starts with nothing read.
LEMMA ResetTypes ==
    ASSUME ParserReset
    PROVE  /\ tokenNum' \in 1..3 /\ status' \in {"", "REG", "ERR"} /\ messageLen' \in Int
           /\ buffer' \in Seq(Symbols) /\ cToken' \in Seq(Words)
           /\ resp' \in Seq(Words \cup Reported)
<1>1. \A S : <<>> \in Seq(S)
    OBVIOUS
<1>2. buffer' = <<>> /\ cToken' = <<>> /\ resp' = <<>>
    BY DEF ParserReset
<1>3. buffer' \in Seq(Symbols) /\ cToken' \in Seq(Words) /\ resp' \in Seq(Words \cup Reported)
    BY <1>1, <1>2
<1>4. tokenNum' = 1 /\ messageLen' = -1
    BY DEF ParserReset
<1>5. tokenNum' \in 1..3 /\ messageLen' \in Int
    BY <1>4
<1>6. status' = ""
    BY DEF ParserReset
<1> QED
    BY <1>3, <1>5, <1>6

\* What leaves the loader alone keeps the jokes.
LEMMA LoadedKept ==
    ASSUME Loaded, UNCHANGED loader, pc \notin {"open", "load", "exited"},
           pc' = "divided" => numJokes = 0
    PROVE  Loaded'
<1>1. JokesRead'
    BY JokesKept DEF Loaded
<1>2. UNCHANGED <<jokeFile, lineNum, jokes, isJokeStarted, numJokes>>
    BY DEF loader
<1> QED
    BY <1>1, <1>2 DEF Loaded

\* At first nobody has connected and no joke has been read.
LEMMA InitInv == Init => IInv
<1> SUFFICES ASSUME Init PROVE IInv
    OBVIOUS
<1>6. /\ pc = "open" /\ cur = Nobody /\ msgNum = 0 /\ tokenNum = 1 /\ status = ""
      /\ messageLen = -1 /\ buffer = <<>> /\ cToken = <<>> /\ resp = <<>> /\ open = {}
      /\ backlog = <<>>
    BY DEF Init, JokeFileInit
<1>7. /\ inbox = [c \in Clients |-> <<>>] /\ peer = [c \in Clients |-> "none"]
      /\ link = [c \in Clients |-> "up"] /\ sent = [c \in Clients |-> <<>>]
      /\ written = [c \in Clients |-> 0] /\ errors = [c \in Clients |-> <<>>]
    BY DEF Init
<1>1. Typed
    <2>1. /\ inbox \in [Clients -> Seq(Symbols)] /\ sent \in [Clients -> Seq(Seq(Symbols))]
          /\ errors \in [Clients -> Seq(Reported)]
        BY <1>7
    <2>2. /\ peer \in [Clients -> {"none", "open", "closed", "aborted"}]
          /\ link \in [Clients -> {"up", "resetting", "reset"}]
          /\ written \in [Clients -> 0..3]
        BY <1>7
    <2>3. /\ buffer \in Seq(Symbols) /\ cToken \in Seq(Words) /\ resp \in Seq(Words \cup Reported)
          /\ backlog \in Seq(Clients)
        <3>1. \A S : <<>> \in Seq(S)
            OBVIOUS
        <3> QED
            BY <1>6, <3>1
    <2>4. messageLen \in Int /\ tokenNum \in 1..3 /\ msgNum \in 0..5
        <3>1. messageLen = -1 /\ tokenNum = 1 /\ msgNum = 0
            BY <1>6
        <3> QED
            BY <3>1
    <2>5. open \in SUBSET Clients /\ cur \in Clients \cup {Nobody}
        BY <1>6
    <2> QED
        BY <1>6, <2>1, <2>2, <2>3, <2>4, <2>5 DEF Typed
<1>2. Loaded
    BY <1>6, JokesInit DEF Init, Loaded
<1>3. ChatInv
    BY <1>6 DEF ChatInv, Chatting
<1>9. DOMAIN backlog = {}
    <2>1. \A t : t = <<>> => DOMAIN t = {}
        OBVIOUS
    <2> QED
        BY <1>6, <2>1
<1>8. \A c \in Clients : Fresh(c) /\ ~Waiting(c) /\ link[c] = "up"
    <2>1. \A c \in Clients : ~Waiting(c) /\ c \notin open
        BY <1>6, <1>9 DEF Waiting
    <2> QED
        BY <1>7, <2>1 DEF Fresh
<1>4. QueueInv
    <2>1. DOMAIN backlog = {}
        BY <1>9
    <2> QED
        BY <1>8, <2>1 DEF QueueInv
<1>5. HistoryInv
    <2>1. \A c \in Clients : Len(sent[c]) = 0 /\ written[c] = 0 /\ errors[c] = <<>>
        BY <1>7
    <2>2. OnlyResetsLeak
        BY <1>6 DEF OnlyResetsLeak
    <2>3. \A c \in Clients : Len(sent[c]) <= written[c]
        BY <2>1
    <2> QED
        BY <2>1, <2>2, <2>3 DEF HistoryInv
<1> QED
    BY <1>1, <1>2, <1>3, <1>4, <1>5 DEF IInv

\* Before the first connection only the loader moves.
LEMMA LoadStep ==
    ASSUME IInv, getJokes,
           UNCHANGED <<cur, msgNum, parser, open, backlog, inbox, peer, link, history>>
    PROVE  IInv'
<1> USE DEF IInv
<1>1. UNCHANGED <<cur, msgNum, buffer, tokenNum, status, cToken, messageLen, resp, open, backlog,
                  inbox, peer, link, sent, written, errors>>
    BY DEF parser, history
<1>2. pc \in {"open", "load", "bind"} /\ pc' \in {"load", "bind", "accept", "exited"}
    BY DEF getJokes, OpenFile, BlankLine, SetupLine, PunchLine, GetLine, EndOfLines, Bind
<1>3. Typed'
    BY <1>1, <1>2 DEF Typed
<1>4. ChatInv'
    BY <1>1, <1>2 DEF ChatInv, Chatting
<1>5. QueueInv'
    BY <1>1 DEF QueueInv, Fresh, Waiting
<1>6. HistoryInv'
    BY <1>1 DEF HistoryInv, OnlyResetsLeak
<1>7. Loaded'
    <2>1. CASE OpenFile
        <3>1. pc' \in {"load", "exited"} /\ UNCHANGED loader
            BY <2>1 DEF OpenFile
        <3>2. JokesRead'
            BY <3>1, JokesKept DEF Loaded
        <3> QED
            BY <3>1, <3>2 DEF Loaded
    <2>2. CASE BlankLine \/ SetupLine \/ PunchLine
        <3>1. pc = "load" /\ pc' = pc
            BY <2>2 DEF BlankLine, SetupLine, PunchLine, GetLine
        <3>2. JokesRead'
            BY <2>2, JokesStep DEF Loaded
        <3> QED
            BY <3>1, <3>2 DEF Loaded
    <2>3. CASE EndOfLines
        <3>1. /\ lineNum > Len(jokeFile) /\ pc' = (IF isJokeStarted THEN "exited" ELSE "bind")
              /\ numJokes' = (IF isJokeStarted THEN numJokes ELSE Len(jokes))
              /\ UNCHANGED <<jokeFile, lineNum, jokes, jokesSize, isJokeStarted, setupLine>>
            BY <2>3 DEF EndOfLines
        <3>2. (\A k : Texts(k)' = Texts(k)) /\ (\A k : Count(k)' = Count(k))
              /\ Texts(lineNum - 1)' = Texts(lineNum - 1) /\ Count(lineNum - 1)' = Count(lineNum - 1)
            BY <3>1 DEF Texts, Count
        <3>3. JokesRead'
            BY <3>1, <3>2 DEF Loaded, JokesRead
        <3>4. lineNum = Len(jokeFile) + 1 /\ isJokeStarted \in BOOLEAN
            BY <3>1 DEF Loaded, JokesRead
        <3> QED
            BY <3>1, <3>3, <3>4 DEF Loaded
    <2>4. CASE Bind
        <3>1. pc = "bind" /\ pc' \in {"accept", "exited"} /\ UNCHANGED loader
            BY <2>4 DEF Bind
        <3> QED
            BY <3>1, LoadedKept
    <2> QED
        BY <2>1, <2>2, <2>3, <2>4 DEF getJokes
<1> QED
    BY <1>3, <1>4, <1>5, <1>6, <1>7

\* The first of the backlog becomes the current client, or the descriptors are at an end.
LEMMA AcceptStep == IInv /\ Accept => IInv'
<1> SUFFICES ASSUME IInv, Accept PROVE IInv'
    OBVIOUS
<1> USE DEF IInv
<1>1. /\ pc = "accept" /\ backlog # <<>> /\ cur = Nobody
      /\ UNCHANGED <<buffer, tokenNum, status, cToken, messageLen, resp, inbox, peer, link,
                     sent, written, errors, loader>>
    BY DEF Accept, parser, history, ChatInv, Chatting, Typed
<1>2. CASE Cardinality(open) < OPEN_MAX
    <2> DEFINE h == Head(backlog)
    <2>1. /\ pc' = (IF numJokes = 0 THEN "divided" ELSE "write")
          /\ msgNum' = 0 /\ cur' = h /\ backlog' = Tail(backlog) /\ open' = open \cup {h}
        BY <1>2 DEF Accept
    <2>2. /\ h \in Clients /\ h # Nobody /\ h = backlog[1] /\ 1 \in DOMAIN backlog
          /\ backlog' \in Seq(Clients)
          /\ \A i \in DOMAIN backlog' : i + 1 \in DOMAIN backlog /\ i + 1 # 1
                                         /\ backlog'[i] = backlog[i + 1] /\ i \in Int
        <3>1. backlog \in Seq(Clients)
            BY DEF Typed
        <3>2. h = backlog[1] /\ 1 \in DOMAIN backlog /\ backlog' \in Seq(Clients) /\ h \in Clients
            BY <1>1, <2>1, <3>1
        <3>3. \A i \in DOMAIN backlog' : i + 1 \in DOMAIN backlog /\ i + 1 # 1
                                         /\ backlog'[i] = backlog[i + 1] /\ i \in Int
            BY <1>1, <2>1, <3>1
        <3> QED
            BY <3>2, <3>3, KKJAssumption
    <2> HIDE DEF h
    <2>3. Waiting(h) /\ Fresh(h)
        BY <2>2 DEF QueueInv, Waiting
    <2>4. \A c \in Clients : Waiting(c)' => Waiting(c) /\ c # h
        <3> SUFFICES ASSUME NEW c \in Clients, NEW i \in DOMAIN backlog', backlog'[i] = c
                     PROVE  Waiting(c) /\ c # h
            BY DEF Waiting
        <3>1. i + 1 \in DOMAIN backlog /\ backlog[i + 1] = c /\ i + 1 # 1
            BY <2>2
        <3> QED
            BY <2>2, <3>1 DEF QueueInv, Waiting
    <2>5. \A c \in Clients : Fresh(c) /\ c # h => Fresh(c)'
        BY <1>1, <2>1 DEF Fresh
    <2>6. Typed'
        <3>1. pc' \in {"divided", "write"} /\ cur' \in Clients /\ msgNum' \in 0..5
            BY <2>1, <2>2
        <3>2. open' \in SUBSET Clients
            BY <2>1, <2>2 DEF Typed
        <3> QED
            BY <1>1, <2>2, <3>1, <3>2 DEF Typed
    <2>7. ChatInv'
        BY <1>1, <2>1, <2>2, <2>3 DEF ChatInv, Chatting, Fresh
    <2>8. QueueInv'
        <3>1. \A i, j \in DOMAIN backlog' : backlog'[i] = backlog'[j] => i = j
            BY <2>2 DEF QueueInv
        <3>2. \A c \in Clients : peer'[c] = "none" => Fresh(c)' /\ ~Waiting(c)' /\ link'[c] = "up"
            BY <1>1, <2>2, <2>3, <2>4, <2>5 DEF QueueInv
        <3>3. \A c \in Clients : Waiting(c)' => Fresh(c)'
            BY <2>4, <2>5 DEF QueueInv
        <3> QED
            BY <3>1, <3>2, <3>3 DEF QueueInv
    <2>9. HistoryInv'
        <3>1. \A c \in Clients : Len(sent'[c]) <= written'[c]
            BY <1>1 DEF HistoryInv
        <3>2. \A c \in Clients : errors'[c] # <<>> => c \notin open' /\ Len(errors'[c]) = 1
            BY <1>1, <2>1, <2>3 DEF HistoryInv, Fresh
        <3>3. OnlyResetsLeak'
            <4>1. \A c \in open : link[c] = "reset" /\ peer[c] = "aborted"
                BY <1>1, KKJAssumption DEF HistoryInv, OnlyResetsLeak, Typed
            <4>2. \A c \in open' : c = cur' \/ c \in open
                BY <2>1
            <4>3. link' = link /\ peer' = peer
                BY <1>1
            <4> QED
                BY <4>1, <4>2, <4>3 DEF OnlyResetsLeak
        <3> QED
            BY <3>1, <3>2, <3>3 DEF HistoryInv
    <2>10. Loaded'
        BY <1>1, <2>1, LoadedKept
    <2> QED
        BY <2>6, <2>7, <2>8, <2>9, <2>10
<1>3. CASE ~(Cardinality(open) < OPEN_MAX)
    <2>1. pc' = "exited" /\ UNCHANGED <<cur, msgNum, backlog, open>>
        BY <1>3 DEF Accept
    <2>2. Typed'
        BY <1>1, <2>1 DEF Typed
    <2>3. ChatInv'
        BY <1>1, <2>1 DEF ChatInv, Chatting
    <2>4. QueueInv'
        BY <1>1, <2>1 DEF QueueInv, Fresh, Waiting
    <2>5. HistoryInv'
        BY <1>1, <2>1 DEF HistoryInv, OnlyResetsLeak
    <2>6. Loaded'
        BY <1>1, <2>1, LoadedKept
    <2> QED
        BY <2>2, <2>3, <2>4, <2>5, <2>6
<1> QED
    BY <1>2, <1>3

-----------------------------------------------------------------------------
\* The current client is one that is neither fresh nor waiting.
LEMMA Current ==
    ASSUME IInv, Chatting
    PROVE  /\ cur \in Clients /\ cur \in open /\ errors[cur] = <<>>
           /\ \A c \in Clients : Fresh(c) \/ Waiting(c) \/ peer[c] = "none" => c # cur
<1>1. cur \in Clients /\ cur \in open
    BY DEF IInv, ChatInv, Typed
<1>2. \A c \in Clients : Fresh(c) => c # cur
    BY <1>1 DEF Fresh
<1> QED
    BY <1>1, <1>2 DEF IInv, QueueInv, HistoryInv

\* A step inside a chat leaves everyone else alone.
LEMMA WithinChat ==
    ASSUME IInv, UNCHANGED <<loader, cur, open, backlog, peer, link, sent, written, errors>>,
           pc \in {"write", "read", "check"}, pc' \in {"write", "read", "check", "killed"},
           inbox' \in [Clients -> Seq(Symbols)],
           \A c \in Clients : c # cur => inbox'[c] = inbox[c],
           tokenNum' \in 1..3, status' \in {"", "REG", "ERR"}, messageLen' \in Int,
           buffer' \in Seq(Symbols), cToken' \in Seq(Words), resp' \in Seq(Words \cup Reported),
           msgNum' \in 0..5,
           pc' = "write" => msgNum' = 2 * written[cur] /\ written[cur] <= 2,
           pc' \in {"read", "check"} => msgNum' = 2 * written[cur] - 1 /\ written[cur] >= 1
    PROVE  IInv'
<1>1. /\ cur \in Clients /\ cur \in open
      /\ \A c \in Clients : Fresh(c) \/ Waiting(c) \/ peer[c] = "none" => c # cur
    BY Current DEF Chatting
<1>2. (\A c : Waiting(c)' = Waiting(c)) /\ \A c \in Clients : Fresh(c) => Fresh(c)'
    BY <1>1 DEF Waiting, Fresh
<1>3. Typed'
    BY DEF IInv, Typed
<1>4. ChatInv'
    BY DEF IInv, ChatInv, Chatting
<1>5. QueueInv'
    BY <1>1, <1>2 DEF IInv, QueueInv
<1>6. HistoryInv'
    BY DEF IInv, HistoryInv, OnlyResetsLeak
<1>7. Loaded'
    BY LoadedKept DEF IInv
<1> QED
    BY <1>3, <1>4, <1>5, <1>6, <1>7 DEF IInv

\* The end of a chat: the connection is closed, or lost to the client's reset; at most
\* an error has been written.
LEMMA ChatOver ==
    ASSUME IInv, pc \in {"write", "read", "check"},
           pc' = "accept", cur' = Nobody, msgNum' = 0, ParserReset,
           UNCHANGED <<loader, backlog, inbox, peer, sent, written>>,
           link' \in [Clients -> {"up", "resetting", "reset"}],
           \A c \in Clients : c # cur => link'[c] = link[c],
           errors' \in [Clients -> Seq(Reported)],
           \A c \in Clients : c # cur => errors'[c] = errors[c],
           errors'[cur] # <<>> => Len(errors'[cur]) = 1 /\ open' = open \ {cur},
           \/ open' = open \ {cur}
           \/ open' = open /\ link' = link /\ Broken(cur)
    PROVE  IInv'
<1>1. /\ cur \in Clients /\ cur \in open
      /\ \A c \in Clients : Fresh(c) \/ Waiting(c) \/ peer[c] = "none" => c # cur
    BY Current DEF Chatting
<1>2. (\A c : Waiting(c)' = Waiting(c)) /\ \A c \in Clients : Fresh(c) => Fresh(c)'
    BY <1>1 DEF Waiting, Fresh
<1>3. Typed'
    <2>2. /\ tokenNum' \in 1..3 /\ status' \in {"", "REG", "ERR"} /\ messageLen' \in Int
          /\ buffer' \in Seq(Symbols) /\ cToken' \in Seq(Words)
          /\ resp' \in Seq(Words \cup Reported)
        BY ResetTypes
    <2>4. open' \in SUBSET Clients
        BY DEF IInv, Typed
    <2>5. msgNum' \in 0..5
        OBVIOUS
    <2> QED
        BY <2>2, <2>4, <2>5 DEF IInv, Typed
<1>4. ChatInv'
    BY DEF ChatInv, Chatting
<1>5. QueueInv'
    BY <1>1, <1>2 DEF IInv, QueueInv
<1>6. HistoryInv'
    <2>1. \A c \in Clients : errors'[c] # <<>> => c \notin open' /\ Len(errors'[c]) = 1
        BY DEF IInv, HistoryInv
    <2>2. \A c \in open' : c \in Clients /\ link'[c] = "reset" /\ peer'[c] = "aborted"
        BY DEF IInv, HistoryInv, OnlyResetsLeak, Broken, Typed
    <2> QED
        BY <2>1, <2>2 DEF IInv, HistoryInv, OnlyResetsLeak
<1>7. Loaded'
    BY LoadedKept DEF IInv
<1> QED
    BY <1>3, <1>4, <1>5, <1>6, <1>7 DEF IInv

\* A message of the joke is the next one; a closed client answers it with a reset.
LEMMA WriteStep == IInv /\ WriteSocket => IInv'
<1> SUFFICES ASSUME IInv, WriteSocket PROVE IInv'
    OBVIOUS
<1>1. /\ pc = "write" /\ pc' = "read" /\ msgNum' = msgNum + 1
      /\ written' = [written EXCEPT ![cur] = @ + 1]
      /\ link' = [link EXCEPT ![cur] = IF peer[cur] = "open" THEN @ ELSE "resetting"]
      /\ UNCHANGED <<cur, open, backlog, inbox, peer, sent, errors, loader>>
    BY DEF WriteSocket, Wrote
<1>2. /\ cur \in Clients /\ cur \in open
      /\ \A c \in Clients : Fresh(c) \/ Waiting(c) \/ peer[c] = "none" => c # cur
    BY <1>1, Current DEF Chatting
<1>12. written \in [Clients -> 0..3]
    BY DEF IInv, Typed
<1>3. written[cur] \in Nat /\ written[cur] <= 2 /\ msgNum = 2 * written[cur]
    BY <1>1, <1>2, <1>12 DEF IInv, ChatInv
<1>4. /\ written' \in [Clients -> 0..3] /\ written'[cur] = written[cur] + 1
      /\ \A c \in Clients : c # cur => written'[c] = written[c]
    BY <1>1, <1>2, <1>3, <1>12
<1>5. /\ link' \in [Clients -> {"up", "resetting", "reset"}]
      /\ \A c \in Clients : c # cur => link'[c] = link[c]
    BY <1>1, <1>2 DEF IInv, Typed
<1>6. (\A c : Waiting(c)' = Waiting(c)) /\ \A c \in Clients : Fresh(c) => Fresh(c)'
    BY <1>1, <1>2, <1>4 DEF Waiting, Fresh
<1>7. Typed'
    <2>2. /\ tokenNum' \in 1..3 /\ status' \in {"", "REG", "ERR"} /\ messageLen' \in Int
          /\ buffer' \in Seq(Symbols) /\ cToken' \in Seq(Words)
          /\ resp' \in Seq(Words \cup Reported)
        BY ResetTypes DEF WriteSocket
    <2>4. msgNum' \in 0..5
        BY <1>1, <1>3
    <2> QED
        BY <1>1, <1>4, <1>5, <2>2, <2>4 DEF IInv, Typed
<1>8. ChatInv'
    BY <1>1, <1>2, <1>3, <1>4 DEF IInv, ChatInv, Chatting
<1>9. QueueInv'
    BY <1>1, <1>2, <1>5, <1>6 DEF IInv, QueueInv
<1>10. HistoryInv'
    <2>1. \A c \in Clients : Len(sent'[c]) <= written'[c]
        <3>3. sent \in [Clients -> Seq(Seq(Symbols))]
            BY DEF IInv, Typed
        <3>2. \A c \in Clients : Len(sent[c]) \in Nat
            BY <3>3
        <3>1. \A c \in Clients : Len(sent[c]) \in Nat /\ written[c] \in Nat /\ Len(sent[c]) <= written[c]
            BY <1>12, <3>2 DEF IInv, HistoryInv
        <3> QED
            BY <1>1, <1>3, <1>4, <3>1
    <2>2. OnlyResetsLeak'
        BY <1>1, <1>5 DEF IInv, HistoryInv, OnlyResetsLeak, Typed
    <2> QED
        BY <1>1, <2>1, <2>2 DEF IInv, HistoryInv
<1>11. Loaded'
    BY <1>1, LoadedKept DEF IInv
<1> QED
    BY <1>7, <1>8, <1>9, <1>10, <1>11 DEF IInv

\* The steps of readSocket that go on reading.
LEMMA ParserStep ==
    ASSUME IInv, Read \/ AppendToken \/ ParseStatus \/ ParseLength PROVE IInv'
<1>1. /\ pc = "read" /\ UNCHANGED <<pc, cur, msgNum, resp, open, backlog, peer, link, sent, written,
                                     errors, loader>>
    BY DEF Read, AppendToken, ParseStatus, ParseLength, Reading, Parsing, AtPipe, chat, history
<1>2. cur \in Clients
    BY <1>1, Current DEF Chatting
<1>3. /\ buffer \in Seq(Symbols) /\ cToken \in Seq(Words) /\ inbox \in [Clients -> Seq(Symbols)]
      /\ inbox[cur] \in Seq(Symbols)
      /\ tokenNum \in 1..3 /\ status \in {"", "REG", "ERR"} /\ messageLen \in Int
    BY <1>2 DEF IInv, Typed
<1>4. buffer # <<>> => Tail(buffer) \in Seq(Symbols) /\ Head(buffer) \in Symbols
    <2>1. buffer \in Seq(Symbols)
        BY <1>3
    <2> QED
        BY <2>1
<1>5. /\ buffer' \in Seq(Symbols) /\ cToken' \in Seq(Words)
      /\ tokenNum' \in 1..3 /\ status' \in {"", "REG", "ERR"} /\ messageLen' \in Int
      /\ inbox' \in [Clients -> Seq(Symbols)] /\ \A c \in Clients : c # cur => inbox'[c] = inbox[c]
    <2>1. CASE Read
        <3>1. PICK k \in 1..Len(inbox[cur]) :
                 /\ buffer' = SubSeq(inbox[cur], 1, k)
                 /\ inbox' = [inbox EXCEPT ![cur] = SubSeq(@, k + 1, Len(@))]
            BY <2>1 DEF Read
        <3>2. SubSeq(inbox[cur], 1, k) \in Seq(Symbols)
              /\ SubSeq(inbox[cur], k + 1, Len(inbox[cur])) \in Seq(Symbols)
            <4>1. inbox[cur] \in Seq(Symbols)
                BY <1>3
            <4> QED
                BY <4>1
        <3>3. UNCHANGED <<tokenNum, status, cToken, messageLen>>
            BY <2>1 DEF Read
        <3> QED
            BY <1>2, <1>3, <3>1, <3>2, <3>3
    <2>2. CASE AppendToken
        <3>1. /\ buffer # <<>> /\ Head(buffer) # PIPE /\ cToken' = Append(cToken, Head(buffer))
              /\ buffer' = Tail(buffer) /\ UNCHANGED <<tokenNum, status, messageLen, inbox>>
            BY <2>2 DEF AppendToken, Parsing
        <3>2. Head(buffer) \in Words
            BY <1>4, <3>1 DEF Symbols
        <3>3. cToken' \in Seq(Words)
            <4>1. cToken \in Seq(Words)
                BY <1>3
            <4> QED
                BY <3>1, <3>2, <4>1
        <3> QED
            BY <1>3, <1>4, <3>1, <3>3
    <2>3. CASE ParseStatus
        <3>1. /\ buffer # <<>> /\ cToken \in {<<"REG">>, <<"ERR">>} /\ status' = cToken[1]
              /\ cToken' = <<>> /\ buffer' = Tail(buffer) /\ tokenNum' = 2
              /\ UNCHANGED <<messageLen, inbox>>
            BY <2>3 DEF ParseStatus, AtPipe, Parsing
        <3>2. status' \in {"REG", "ERR"}
            BY <3>1
        <3>3. cToken' \in Seq(Words)
            BY <3>1
        <3>4. tokenNum' \in 1..3 /\ buffer' \in Seq(Symbols) /\ inbox' = inbox
            BY <1>4, <3>1
        <3> QED
            BY <1>3, <3>1, <3>2, <3>3, <3>4
    <2>4. CASE ParseLength
        <3>1. /\ buffer # <<>> /\ IsNumber(cToken) /\ messageLen' = strtol[cToken[1]]
              /\ cToken' = <<>> /\ buffer' = Tail(buffer) /\ tokenNum' = 3
              /\ UNCHANGED <<status, inbox>>
            BY <2>4 DEF ParseLength, AtPipe, Parsing
        <3>2. messageLen' \in Int
            BY <3>1, KKJAssumption DEF IsNumber
        <3>3. cToken' \in Seq(Words)
            BY <3>1
        <3>4. tokenNum' \in 1..3 /\ buffer' \in Seq(Symbols) /\ inbox' = inbox
            BY <1>4, <3>1
        <3> QED
            BY <1>3, <3>1, <3>2, <3>3, <3>4
    <2> QED
        BY <2>1, <2>2, <2>3, <2>4
<1>6. resp \in Seq(Words \cup Reported) /\ msgNum \in 0..5
      /\ msgNum = 2 * written[cur] - 1 /\ written[cur] >= 1
    BY <1>1 DEF IInv, Typed, ChatInv
<1> QED
    BY <1>1, <1>5, <1>6, WithinChat

\* readSocket returns a text, or the code of an error in message 1, 3 or 5.
LEMMA ReturnStep ==
    ASSUME IInv, ParseError \/ ParseText \/ msgFormatError PROVE IInv'
<1>1. /\ pc = "read" /\ pc' = "check"
      /\ UNCHANGED <<cur, msgNum, open, backlog, inbox, peer, link, sent, written, errors, loader>>
    BY DEF ParseError, ParseText, msgFormatError, AtPipe, Parsing, Returned, history
<1>2. msgNum \in 0..5 /\ msgNum = 2 * written[cur] - 1 /\ written[cur] >= 1
      /\ written[cur] \in 0..3
    BY <1>1, Current DEF IInv, Typed, ChatInv, Chatting
<1>3. \A what \in {"CT", "LN", "FT"} : errorCode(msgNum, what) \in Reported
    <2>1. msgNum \in {1, 3, 5}
        BY <1>2
    <2> QED
        BY <2>1 DEF Reported, Codes
<1>4. \A e : e \in Reported => <<e>> \in Seq(Words \cup Reported)
    OBVIOUS
<1>5. cToken \in Seq(Words \cup Reported)
    <2>1. cToken \in Seq(Words)
        BY DEF IInv, Typed
    <2> QED
        BY <2>1, SeqMonotonic
<1>6. PICK r \in Seq(Words \cup Reported) : Returned(r)
    <2>1. CASE ParseError
        BY <1>5, <2>1 DEF ParseError
    <2>2. CASE msgFormatError
        BY <1>3, <1>4, <2>2 DEF msgFormatError
    <2>3. CASE ParseText
        <3>1. PICK e \in checkErrorCode(cToken) : Returned(IF e = "" THEN cToken ELSE <<e>>)
            BY <2>3 DEF ParseText
        <3>2. e = "" \/ e \in Reported
            BY <1>3, <3>1 DEF checkErrorCode
        <3> QED
            BY <1>4, <1>5, <3>1, <3>2
    <2> QED
        BY <2>1, <2>2, <2>3
<1>7. /\ resp' = r /\ status' = ""
      /\ buffer' \in Seq(Symbols) /\ cToken' \in Seq(Words)
      /\ tokenNum' \in 1..3 /\ messageLen' \in Int
    <2>1. buffer' = <<>> /\ cToken' = <<>>
        BY <1>6 DEF Returned
    <2>2. \A S : <<>> \in Seq(S)
        OBVIOUS
    <2>3. tokenNum' = 1 /\ messageLen' = -1
        BY <1>6 DEF Returned
    <2>4. tokenNum' \in 1..3 /\ messageLen' \in Int
        BY <2>3
    <2> QED
        BY <1>6, <2>1, <2>2, <2>4 DEF Returned
<1>8. inbox \in [Clients -> Seq(Symbols)]
    BY DEF IInv, Typed
<1> QED
    BY <1>1, <1>2, <1>6, <1>7, <1>8, WithinChat

\* The next message of the joke, or death by SIGPIPE.
LEMMA ProceedStep ==
    ASSUME IInv, Proceed \/ SigPipe PROVE IInv'
<1>1. /\ pc \in {"write", "check"} /\ pc' \in {"write", "killed"}
      /\ UNCHANGED <<cur, buffer, tokenNum, status, cToken, messageLen, open, backlog, inbox, peer,
                     link, sent, written, errors, loader>>
    BY DEF Proceed, SigPipe, AboutToWrite, parser, history
<1>2. written[cur] \in 0..3 /\ msgNum \in 0..5
    BY <1>1, Current DEF IInv, Typed, Chatting
<1>3. CASE Proceed
    <2>1. pc = "check" /\ pc' = "write" /\ msgNum < 5 /\ msgNum' = msgNum + 1 /\ resp' = <<>>
        BY <1>3 DEF Proceed
    <2>2. msgNum = 2 * written[cur] - 1 /\ written[cur] >= 1
        BY <2>1 DEF IInv, ChatInv
    <2>3. msgNum' \in 0..5 /\ msgNum' = 2 * written[cur] /\ written[cur] <= 2
        BY <1>2, <2>1, <2>2
    <2>4. resp' \in Seq(Words \cup Reported)
        BY <2>1
    <2> QED
        BY <1>1, <2>1, <2>3, <2>4, WithinChat DEF IInv, Typed
<1>4. CASE SigPipe
    <2>1. pc' = "killed" /\ msgNum' = msgNum /\ resp' = resp
        BY <1>4 DEF SigPipe, parser
    <2> QED
        BY <1>1, <1>2, <2>1, WithinChat DEF IInv, Typed
<1> QED
    BY <1>3, <1>4

\* What a chat can end with.
LEMMA EndStep ==
    ASSUME IInv, WriteFails \/ ReadEnds \/ ErrorTold \/ SendErrorFails \/ JokeTold PROVE IInv'
<1>1. /\ pc \in {"write", "read", "check"} /\ pc' = "accept" /\ cur' = Nobody /\ msgNum' = 0
      /\ ParserReset
      /\ UNCHANGED <<loader, backlog, inbox, peer, link, sent, written, errors>>
      /\ \/ open' = open \ {cur}
         \/ open' = open /\ Broken(cur)
    BY DEF WriteFails, ReadEnds, ErrorTold, SendErrorFails, JokeTold, HangUp, Reading, history
<1>2. errors[cur] = <<>>
    BY <1>1, Current DEF Chatting
<1>3. /\ link \in [Clients -> {"up", "resetting", "reset"}]
      /\ errors \in [Clients -> Seq(Reported)]
    BY DEF IInv, Typed
<1> QED
    BY <1>1, <1>2, <1>3, ChatOver

\* An error is written to a client that has had none, and its connection is closed.
LEMMA ErrorStep == IInv /\ sendError => IInv'
<1> SUFFICES ASSUME IInv, sendError PROVE IInv'
    OBVIOUS
<1>1. /\ pc = "check" /\ pc' = "accept" /\ cur' = Nobody /\ msgNum' = 0
      /\ ParserReset /\ open' = open \ {cur}
      /\ errors' = [errors EXCEPT ![cur] = Append(@, resp[1])]
      /\ link' = [link EXCEPT ![cur] = IF peer[cur] = "open" THEN @ ELSE "resetting"]
      /\ UNCHANGED <<loader, backlog, inbox, peer, sent, written>>
    BY DEF sendError, HangUp, Wrote
<1>2. cur \in Clients /\ errors[cur] = <<>>
    BY <1>1, Current DEF Chatting
<1>3. /\ link \in [Clients -> {"up", "resetting", "reset"}]
      /\ errors \in [Clients -> Seq(Reported)]
    BY DEF IInv, Typed
<1>4. PICK e \in Reported : resp = <<e>>
    BY DEF sendError, Tells, Reported
<1>5. resp[1] \in Reported
    BY <1>4
<1>6. /\ errors' \in [Clients -> Seq(Reported)] /\ errors'[cur] = <<resp[1]>>
      /\ \A c \in Clients : c # cur => errors'[c] = errors[c]
    BY <1>1, <1>2, <1>3, <1>5
<1>7. Len(errors'[cur]) = 1
    BY <1>6
<1>8. /\ link' \in [Clients -> {"up", "resetting", "reset"}]
      /\ \A c \in Clients : c # cur => link'[c] = link[c]
    BY <1>1, <1>2, <1>3
<1> QED
    BY <1>1, <1>6, <1>7, <1>8, ChatOver

\* The clients' steps; only one whose chat has begun sends.
LEMMA ClientStep ==
    ASSUME IInv, NEW d \in Clients, Connect(d) \/ Send(d) \/ Leave(d) \/ ResetArrives(d)
    PROVE  IInv'
<1>1. /\ UNCHANGED <<pc, cur, msgNum, buffer, tokenNum, status, cToken, messageLen, resp, open,
                     written, errors, loader>>
    BY DEF Connect, Send, Leave, CloseEarly, Abort, ResetArrives, server, chat, parser, history
<1>2. Loaded'
    <2>1. JokesRead'
        BY <1>1, JokesKept DEF IInv, Loaded
    <2>2. UNCHANGED <<jokeFile, lineNum, jokes, isJokeStarted, numJokes>>
        BY <1>1 DEF loader
    <2> QED
        BY <1>1, <2>1, <2>2 DEF IInv, Loaded
<1>3. ChatInv'
    BY <1>1 DEF IInv, ChatInv, Chatting
<1>4. /\ inbox \in [Clients -> Seq(Symbols)]
      /\ peer \in [Clients -> {"none", "open", "closed", "aborted"}]
      /\ link \in [Clients -> {"up", "resetting", "reset"}]
      /\ sent \in [Clients -> Seq(Seq(Symbols))]
      /\ written \in [Clients -> 0..3] /\ backlog \in Seq(Clients)
    BY DEF IInv, Typed
<1>5. ASSUME backlog' \in Seq(Clients), inbox' \in [Clients -> Seq(Symbols)],
             peer' \in [Clients -> {"none", "open", "closed", "aborted"}],
             link' \in [Clients -> {"up", "resetting", "reset"}],
             sent' \in [Clients -> Seq(Seq(Symbols))]
      PROVE  Typed'
    BY <1>1, <1>5 DEF IInv, Typed
<1>6. CASE Connect(d)
    <2>1. /\ peer[d] = "none" /\ peer' = [peer EXCEPT ![d] = "open"]
          /\ backlog' = Append(backlog, d) /\ UNCHANGED <<inbox, link, sent>>
        BY <1>6 DEF Connect, history
    <2>2. /\ DOMAIN backlog' = DOMAIN backlog \cup {Len(backlog) + 1}
          /\ Len(backlog) + 1 \notin DOMAIN backlog /\ backlog'[Len(backlog) + 1] = d
          /\ \A i \in DOMAIN backlog : backlog'[i] = backlog[i]
          /\ backlog' \in Seq(Clients)
        BY <1>4, <2>1
    <2>3. peer'[d] = "open" /\ \A c \in Clients : c # d => peer'[c] = peer[c]
        BY <1>4, <2>1
    <2>4. Fresh(d) /\ ~Waiting(d)
        BY <2>1 DEF IInv, QueueInv
    <2>5. \A c : Waiting(c)' <=> Waiting(c) \/ c = d
        BY <2>2 DEF Waiting
    <2>6. \A c : Fresh(c)' <=> Fresh(c)
        BY <1>1, <2>1 DEF Fresh
    <2>7. Typed'
        BY <1>4, <1>5, <2>1, <2>2
    <2>8. QueueInv'
        <3>1. \A i, j \in DOMAIN backlog' : backlog'[i] = backlog'[j] => i = j
            <4>1. \A i \in DOMAIN backlog : backlog[i] # d
                BY <2>4 DEF Waiting
            <4> QED
                BY <2>2, <4>1 DEF IInv, QueueInv
        <3>2. \A c \in Clients : peer'[c] = "none" => Fresh(c)' /\ ~Waiting(c)' /\ link'[c] = "up"
            BY <2>1, <2>3, <2>5, <2>6 DEF IInv, QueueInv
        <3>3. \A c \in Clients : Waiting(c)' => Fresh(c)'
            BY <2>4, <2>5, <2>6 DEF IInv, QueueInv
        <3> QED
            BY <3>1, <3>2, <3>3 DEF QueueInv
    <2>9. HistoryInv'
        BY <1>1, <2>1, <2>3, <2>4 DEF IInv, HistoryInv, OnlyResetsLeak, Fresh, Typed
    <2> QED
        BY <1>2, <1>3, <2>7, <2>8, <2>9 DEF IInv
<1>7. CASE Send(d)
    <2>1. PICK m \in Messages[d][written[d]] :
             /\ inbox' = [inbox EXCEPT ![d] = @ \o m] /\ sent' = [sent EXCEPT ![d] = Append(@, m)]
        BY <1>7 DEF Send
    <2>2. peer[d] = "open" /\ Len(sent[d]) < written[d] /\ UNCHANGED <<backlog, peer, link>>
        BY <1>7 DEF Send
    <2>3. written[d] \in 1..3 /\ m \in Seq(Symbols) /\ Len(sent[d]) \in Nat
        <3>1. sent[d] \in Seq(Seq(Symbols)) /\ written[d] \in 0..3
            BY <1>4
        <3>2. Len(sent[d]) \in Nat /\ written[d] \in 1..3
            BY <2>2, <3>1
        <3> QED
            BY <2>1, <3>2, KKJAssumption DEF Symbols, Words
    <2>4. /\ inbox' \in [Clients -> Seq(Symbols)] /\ sent' \in [Clients -> Seq(Seq(Symbols))]
          /\ \A c \in Clients : c # d => inbox'[c] = inbox[c] /\ sent'[c] = sent[c]
          /\ Len(sent'[d]) = Len(sent[d]) + 1
        <3>1. inbox[d] \o m \in Seq(Symbols)
            <4>1. inbox[d] \in Seq(Symbols)
                BY <1>4
            <4> QED
                BY <2>3, <4>1
        <3>2. Append(sent[d], m) \in Seq(Seq(Symbols)) /\ Len(Append(sent[d], m)) = Len(sent[d]) + 1
            <4>1. sent[d] \in Seq(Seq(Symbols))
                BY <1>4
            <4> QED
                BY <2>3, <4>1
        <3> QED
            BY <1>4, <2>1, <3>1, <3>2
    <2>5. ~Fresh(d) /\ ~Waiting(d)
        BY <2>3 DEF Fresh, IInv, QueueInv
    <2>6. /\ \A c : Waiting(c)' = Waiting(c)
          /\ \A c \in Clients : Fresh(c) => Fresh(c)'
        BY <1>1, <2>2, <2>4, <2>5 DEF Fresh, Waiting
    <2>7. Typed'
        BY <1>4, <1>5, <2>2, <2>4
    <2>8. QueueInv'
        BY <2>2, <2>6 DEF IInv, QueueInv
    <2>9. HistoryInv'
        <3>1. \A c \in Clients : Len(sent'[c]) <= written'[c]
            <4>1. Len(sent[d]) + 1 <= written[d]
                BY <2>2, <2>3
            <4>2. \A c \in Clients : Len(sent[c]) <= written[c]
                BY DEF IInv, HistoryInv
            <4> QED
                BY <1>1, <2>4, <4>1, <4>2
        <3> QED
            BY <1>1, <2>2, <3>1 DEF IInv, HistoryInv, OnlyResetsLeak
    <2> QED
        BY <1>2, <1>3, <2>7, <2>8, <2>9 DEF IInv
<1>8. CASE Leave(d)
    <2>1. /\ peer[d] = "open" /\ peer' \in {[peer EXCEPT ![d] = "closed"], [peer EXCEPT ![d] = "aborted"]}
          /\ link' \in {link, [link EXCEPT ![d] = "resetting"]}
          /\ UNCHANGED <<backlog, inbox, sent>>
        BY <1>8 DEF Leave, CloseEarly, Abort, history
    <2>2. /\ peer' \in [Clients -> {"none", "open", "closed", "aborted"}]
          /\ link' \in [Clients -> {"up", "resetting", "reset"}]
          /\ peer'[d] # "none" /\ \A c \in Clients : c # d => peer'[c] = peer[c] /\ link'[c] = link[c]
        BY <1>4, <2>1
    <2>3. /\ \A c : Waiting(c)' = Waiting(c)
          /\ \A c : Fresh(c)' = Fresh(c)
        BY <1>1, <2>1 DEF Fresh, Waiting
    <2>4. Typed'
        BY <1>4, <1>5, <2>1, <2>2
    <2>5. QueueInv'
        BY <2>1, <2>2, <2>3 DEF IInv, QueueInv
    <2>6. HistoryInv'
        <3>1. OnlyResetsLeak'
            BY <1>1, <2>1, <2>2 DEF IInv, HistoryInv, OnlyResetsLeak, Typed
        <3> QED
            BY <1>1, <2>1, <3>1 DEF IInv, HistoryInv
    <2> QED
        BY <1>2, <1>3, <2>4, <2>5, <2>6 DEF IInv
<1>9. CASE ResetArrives(d)
    <2>1. /\ link[d] = "resetting" /\ link' = [link EXCEPT ![d] = "reset"]
          /\ inbox' \in {inbox, [inbox EXCEPT ![d] = <<>>]}
          /\ UNCHANGED <<backlog, peer, sent>>
        BY <1>9 DEF ResetArrives, history
    <2>2. /\ link' \in [Clients -> {"up", "resetting", "reset"}]
          /\ inbox' \in [Clients -> Seq(Symbols)]
          /\ \A c \in Clients : c # d => link'[c] = link[c]
          /\ \A c \in Clients : inbox[c] = <<>> => inbox'[c] = <<>>
        <3>1. <<>> \in Seq(Symbols)
            OBVIOUS
        <3> QED
            BY <1>4, <2>1, <3>1
    <2>3. /\ \A c : Waiting(c)' = Waiting(c)
          /\ \A c \in Clients : Fresh(c) => Fresh(c)'
        BY <1>1, <2>1, <2>2 DEF Fresh, Waiting
    <2>4. Typed'
        BY <1>4, <1>5, <2>1, <2>2
    <2>5. QueueInv'
        BY <2>1, <2>2, <2>3 DEF IInv, QueueInv
    <2>6. HistoryInv'
        <3>1. OnlyResetsLeak'
            BY <1>1, <2>1, <2>2 DEF IInv, HistoryInv, OnlyResetsLeak, Typed
        <3> QED
            BY <1>1, <2>1, <3>1 DEF IInv, HistoryInv
    <2> QED
        BY <1>2, <1>3, <2>4, <2>5, <2>6 DEF IInv
<1> QED
    BY <1>6, <1>7, <1>8, <1>9

-----------------------------------------------------------------------------
(***************************************************************************)
(* The theorems.                                                           *)
(***************************************************************************)
\* The server's state at every step of every chat: the message it is at, the one
\* connection it has open and who waits for the next, whatever clients there are and
\* whatever they send.
THEOREM Inductive == Spec => []IInv
<1>1. Init => IInv
    BY InitInv
<1>2. ASSUME IInv, [Next]_vars PROVE IInv'
    <2>1. CASE Server
        BY <1>2, <2>1, LoadStep, AcceptStep, WriteStep, ParserStep, ReturnStep, ProceedStep, EndStep,
           ErrorStep DEF Server
    <2>2. CASE \E c \in Clients : Connect(c) \/ Send(c) \/ Leave(c) \/ ResetArrives(c)
        BY <1>2, <2>2, ClientStep
    <2>3. CASE UNCHANGED vars
        <3>1. UNCHANGED <<pc, cur, msgNum, buffer, tokenNum, status, cToken, messageLen, resp, open,
                          backlog, inbox, peer, link, sent, written, errors, loader>>
            BY <2>3 DEF vars, server, chat, parser, history
        <3>2. Typed'
            BY <1>2, <3>1 DEF IInv, Typed
        <3>3. ChatInv'
            BY <1>2, <3>1 DEF IInv, ChatInv, Chatting
        <3>4. QueueInv'
            BY <1>2, <3>1 DEF IInv, QueueInv, Fresh, Waiting
        <3>5. HistoryInv'
            BY <1>2, <3>1 DEF IInv, HistoryInv, OnlyResetsLeak
        <3>6. Loaded'
            <4>1. JokesRead'
                BY <1>2, <3>1, JokesKept DEF IInv, Loaded
            <4>2. UNCHANGED <<jokeFile, lineNum, jokes, isJokeStarted, numJokes>>
                BY <3>1 DEF loader
            <4> QED
                BY <1>2, <3>1, <4>1, <4>2 DEF IInv, Loaded
        <3> QED
            BY <3>2, <3>3, <3>4, <3>5, <3>6 DEF IInv
    <2> QED
        BY <1>2, <2>1, <2>2, <2>3 DEF Next
<1> QED
    BY <1>1, <1>2, PTL DEF Spec

\* Every variable of the server and its clients keeps its type; above all the message's
\* number never leaves the protocol's six, the server's own even and the client's odd,
\* and a client is sent one error at most.
THEOREM TypeCorrect == Spec => []TypeOK
<1>1. IInv => TypeOK
    <2> SUFFICES ASSUME IInv PROVE TypeOK
        OBVIOUS
    <2>1. lineNum \in 1..Len(jokeFile) + 1 /\ isJokeStarted \in BOOLEAN
        BY DEF IInv, Loaded, JokesRead
    <2>2. /\ pc = "write" => msgNum \in {0, 2, 4}
          /\ pc \in {"read", "check"} => msgNum \in {1, 3, 5}
        <3>1. Chatting => written[cur] \in 0..3
            BY Current DEF IInv, Typed
        <3> QED
            BY <3>1 DEF IInv, ChatInv, Chatting
    <2>3. \A c \in Clients : Len(sent[c]) <= 3 /\ Len(errors[c]) <= 1
        <3>1. /\ written \in [Clients -> 0..3] /\ sent \in [Clients -> Seq(Seq(Symbols))]
              /\ errors \in [Clients -> Seq(Reported)]
            BY DEF IInv, Typed
        <3>2. \A c \in Clients : Len(sent[c]) \in Nat /\ written[c] \in 0..3 /\ Len(sent[c]) <= written[c]
            BY <3>1 DEF IInv, HistoryInv
        <3>3. \A c \in Clients : errors[c] = <<>> => Len(errors[c]) = 0
            OBVIOUS
        <3>4. \A c \in Clients : errors[c] # <<>> => Len(errors[c]) = 1
            BY DEF IInv, HistoryInv
        <3>5. \A c \in Clients : Len(sent[c]) <= 3
            BY <3>2
        <3>6. \A c \in Clients : Len(errors[c]) <= 1
            <4> SUFFICES ASSUME NEW c \in Clients PROVE Len(errors[c]) <= 1
                OBVIOUS
            <4>1. Len(errors[c]) = 0 \/ Len(errors[c]) = 1
                BY <3>3, <3>4
            <4>2. \A n \in {0, 1} : n <= 1
                OBVIOUS
            <4> QED
                BY <4>1, <4>2
        <3> QED
            BY <3>5, <3>6
    <2> QED
        BY <2>1, <2>2, <2>3 DEF IInv, Typed, TypeOK, Symbols, Words, Reported
<1> QED
    BY <1>1, Inductive, PTL

\* chatWithClient closes its connection on every way out but one: whatever is still open
\* beside the current client's was reset by its client before the server's write.
THEOREM LeaksAreResets == Spec => []OnlyResetsLeak
<1>1. IInv => OnlyResetsLeak
    BY DEF IInv, HistoryInv
<1> QED
    BY <1>1, Inductive, PTL

\* After sendError the connection is closed and nothing more is written to the client.
THEOREM ErrorsAreFinal == Spec => ErrorEndsChat
<1> DEFINE Final(c) ==
              /\ errors[c] # <<>> => UNCHANGED <<written[c], errors[c]>>
              /\ errors'[c] # errors[c] => c \notin open'
<1>1. ASSUME IInv, [Next]_vars PROVE \A c \in Clients : Final(c)
    <2> SUFFICES ASSUME NEW c \in Clients PROVE Final(c)
        OBVIOUS
    <2>1. written \in [Clients -> 0..3] /\ errors \in [Clients -> Seq(Reported)]
        BY <1>1 DEF IInv, Typed
    <2>2. Chatting /\ errors[c] # <<>> => c # cur
        BY <1>1, Current
    <2>3. CASE WriteSocket
        <3>1. written' = [written EXCEPT ![cur] = @ + 1] /\ errors' = errors /\ pc = "write"
            BY <2>3 DEF WriteSocket
        <3> QED
            BY <2>1, <2>2, <3>1 DEF Chatting
    <2>4. CASE sendError
        <3>1. /\ errors' = [errors EXCEPT ![cur] = Append(@, resp[1])] /\ written' = written
              /\ pc = "check" /\ open' = open \ {cur}
            BY <2>4 DEF sendError, HangUp
        <3> QED
            BY <2>1, <2>2, <3>1 DEF Chatting
    <2>5. CASE ~WriteSocket /\ ~sendError
        <3>1. written' = written /\ errors' = errors
            BY <1>1, <2>5 DEF Next, Server, Accept, WriteFails, SigPipe, Read, ReadEnds, AppendToken,
               ParseStatus, ParseLength, ParseError, ParseText, msgFormatError, ErrorTold,
               SendErrorFails, Proceed, JokeTold, Connect, Send, Leave, CloseEarly, Abort,
               ResetArrives, vars, history
        <3> QED
            BY <3>1
    <2> QED
        BY <2>3, <2>4, <2>5
<1>2. IInv /\ [Next]_vars => [\A c \in Clients : Final(c)]_vars
    BY <1>1
<1> QED
    BY <1>2, Inductive, PTL DEF Spec, ErrorEndsChat

\* getJokes makes of every file, with whichever line ends, the jokes that its lines are two
\* by two, and getRandJoke divides by zero for nothing but a file without jokes.
THEOREM JokesSound == Spec => []JokesArePairs
<1>1. IInv => JokesArePairs
    <2> SUFFICES ASSUME IInv, pc \in {"load", "bind", "accept", "divided"} PROVE JokesArePairs
        BY DEF JokesArePairs
    <2>1. JokesRead
        BY DEF IInv, Loaded
    <2> DEFINE n == lineNum - 1
    <2>2. n \in Nat /\ Len(jokes) \in Nat /\ isJokeStarted \in BOOLEAN
        BY <2>1 DEF JokesRead
    <2>3. Count(n) = 2 * Len(jokes) + (IF isJokeStarted THEN 1 ELSE 0)
        BY <2>1 DEF JokesRead
    <2>4. Len(jokes) < jokesSize
          /\ \A k \in Texts(n), j \in DOMAIN jokes :
                /\ Count(k) = 2*j - 1 => jokes[j].setupLine = Text(jokeFile[k])
                /\ Count(k) = 2*j => jokes[j].punchLine = Text(jokeFile[k])
        <3>1. DOMAIN jokes = 1..Len(jokes)
            BY <2>1 DEF JokesRead
        <3> QED
            BY <2>1, <3>1 DEF JokesRead
    <2>5. pc # "load" => n = Len(jokeFile) /\ ~isJokeStarted /\ numJokes = Len(jokes)
        <3>1. pc # "load" => pc \notin {"open", "load", "exited"}
            OBVIOUS
        <3>2. Len(jokeFile) \in Nat
            BY <2>1 DEF JokesRead
        <3> QED
            BY <3>1, <3>2 DEF IInv, Loaded
    <2>6. pc = "divided" => Texts(Len(jokeFile)) = {}
        <3> SUFFICES ASSUME pc = "divided" PROVE Texts(Len(jokeFile)) = {}
            OBVIOUS
        <3>1. numJokes = 0
            BY DEF IInv, Loaded
        <3>2. Count(n) = 0 /\ IsFiniteSet(Texts(n)) /\ n = Len(jokeFile)
            <4>1. n = Len(jokeFile) /\ ~isJokeStarted /\ Len(jokes) = 0
                BY <2>5, <3>1
            <4>2. Count(n) = 0
                BY <2>3, <4>1
            <4>3. IsFiniteSet(Texts(n))
                <5> HIDE DEF n
                <5> QED
                    BY <2>2, CountNext
            <4> QED
                BY <4>1, <4>2, <4>3
        <3> QED
            BY <3>2, FS_EmptySet DEF Count
    <2> HIDE DEF n
    <2>7. Len(jokes) = Count(n) \div 2
        BY <2>2, <2>3
    <2>8. pc # "load" => numJokes = Len(jokes) /\ 2 * numJokes = Count(Len(jokeFile))
        BY <2>2, <2>3, <2>5
    <2> QED
        BY <2>4, <2>6, <2>7, <2>8 DEF JokesArePairs, n
<1> QED
    BY <1>1, Inductive, PTL
=============================================================================
