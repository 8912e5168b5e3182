------------------------------ MODULE JokeFile ------------------------------
(***************************************************************************)
(* How the server of Asst3/Asst3.c gets its jokes: getJokes reads the file *)
(* line by line, and two lines that are not empty are a joke.  A line is   *)
(* what getline returns, the characters up to and with the end of the line.*)
(***************************************************************************)
EXTENDS Integers, Sequences, FiniteSets, SequencesExt

CONSTANTS
    Files,             \* what the file of jokes may hold: sequences of lines
    INIT_NUM_JOKES     \* places in the first array

\* A line has at least one character, its end.
ASSUME JokeFileAssumption ==
    /\ Files \subseteq Seq(Seq(STRING) \ {<<>>})
    /\ INIT_NUM_JOKES \in Nat \ {0}

VARIABLES
    pc,
    jokeFile, lineNum,               \* the file and the next line
    jokes, jokesSize,                \* the array, up to index i, and its places
    isJokeStarted, setupLine,        \* of currentJoke
    numJokes

loader == <<jokeFile, lineNum, jokes, jokesSize, isJokeStarted, setupLine, numJokes>>

JokeFileInit ==
    /\ pc = "open"
    /\ jokeFile \in Files /\ lineNum = 1
    /\ jokes = <<>> /\ jokesSize = INIT_NUM_JOKES
    /\ isJokeStarted = FALSE /\ setupLine = <<>>
    /\ numJokes = 0

\* Variant: only '\n' is taken off.
RemoveNewlineOnly(line) == IF Last(line) = "\n" THEN Front(line) ELSE line

removeNewline(line) ==
    IF Len(line) > 1 /\ SubSeq(line, Len(line) - 1, Len(line)) = <<"\r", "\n">>
    THEN Front(Front(line))
    ELSE IF Last(line) = "\n" THEN Front(line) ELSE line

\* fopen may fail.
OpenFile ==
    /\ pc = "open"
    /\ pc' \in {"load", "exited"}
    /\ UNCHANGED loader

Line == removeNewline(jokeFile[lineNum])

GetLine ==
    /\ pc = "load" /\ lineNum <= Len(jokeFile)
    /\ lineNum' = lineNum + 1
    /\ UNCHANGED <<pc, jokeFile, numJokes>>

BlankLine ==
    /\ GetLine /\ Line = <<>>
    /\ UNCHANGED <<jokes, jokesSize, isJokeStarted, setupLine>>

SetupLine ==
    /\ GetLine /\ Line # <<>> /\ ~isJokeStarted
    /\ setupLine' = Line /\ isJokeStarted' = TRUE
    /\ UNCHANGED <<jokes, jokesSize>>

\* appendJoke doubles the array when its last place would be taken.
PunchLine ==
    /\ GetLine /\ Line # <<>> /\ isJokeStarted
    /\ jokes' = Append(jokes, [setupLine |-> setupLine, punchLine |-> Line])
    /\ jokesSize' = IF Len(jokes) + 1 < jokesSize THEN jokesSize ELSE jokesSize * 2
    /\ isJokeStarted' = FALSE
    /\ UNCHANGED setupLine

\* An odd number of lines that are not blank ends the server.
EndOfLines ==
    /\ pc = "load" /\ lineNum > Len(jokeFile)
    /\ pc' = IF isJokeStarted THEN "exited" ELSE "bind"
    /\ numJokes' = IF isJokeStarted THEN numJokes ELSE Len(jokes)
    /\ UNCHANGED <<jokeFile, lineNum, jokes, jokesSize, isJokeStarted, setupLine>>

\* socket, bind and listen, of which bind may fail.
Bind ==
    /\ pc = "bind"
    /\ pc' \in {"accept", "exited"}
    /\ UNCHANGED loader

getJokes == OpenFile \/ BlankLine \/ SetupLine \/ PunchLine \/ EndOfLines \/ Bind

-----------------------------------------------------------------------------
\* A line is empty if nothing precedes its end, which "\r\n" is as much as "\n".
Ends == {<<>>, <<"\n">>, <<"\r", "\n">>}
Text(line) ==
    LET cuts == {n \in 0..Len(line) : SubSeq(line, n + 1, Len(line)) \in Ends}
    IN  SubSeq(line, 1, CHOOSE n \in cuts : \A m \in cuts : n <= m)

\* Of the first n lines those that are not empty, and how many they are.
Texts(n) == {k \in 1..n : Text(jokeFile[k]) # <<>>}
Count(n) == Cardinality(Texts(n))

\* The jokes are the lines that are not empty, two by two and in the order of the file,
\* in an array that has a place for each and one more, while they are read and whenever
\* the server is about to choose one; an odd number of such lines never gets as far, and
\* only a file without any makes the choice divide by zero.
JokesArePairs ==
    pc \in {"load", "bind", "accept", "divided"} =>
        /\ Len(jokes) = Count(lineNum - 1) \div 2 /\ Len(jokes) < jokesSize
        /\ \A k \in Texts(lineNum - 1), j \in DOMAIN jokes :
              /\ Count(k) = 2*j - 1 => jokes[j].setupLine = Text(jokeFile[k])
              /\ Count(k) = 2*j => jokes[j].punchLine = Text(jokeFile[k])
        /\ pc # "load" => numJokes = Len(jokes) /\ 2 * numJokes = Count(Len(jokeFile))
        /\ pc = "divided" => Texts(Len(jokeFile)) = {}
=============================================================================
