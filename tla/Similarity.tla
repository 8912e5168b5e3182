----------------------------- MODULE Similarity -----------------------------
(***************************************************************************)
(* From the text of the files to the lines of the output, in Asst2/Asst2.c.*)
(* Each fileHandler reads its file character by character into the list of *)
(* its node.  outputResults then makes the pairs (module Pairs), turns the *)
(* counts into frequencies, and for each pair builds a mean list and walks *)
(* it once with the list of either file.                                   *)
(*                                                                         *)
(* The threads of fileHandler share nothing, so their files are read one   *)
(* after the other; how the threads are run is the subject of Detector.    *)
(* The frequencies have the common denominator Whole, which keeps them and *)
(* their halves whole numbers.  Logarithms are not computed: terms records *)
(* the frequency in the file and the mean of which each is taken.          *)
(***************************************************************************)
EXTENDS Pairs, TokenList

CONSTANT Sources     \* the files of a run: for each, its characters, in list order

ASSUME SimilarityAssumption == Sources \subseteq Seq(Seq(STRING))

VARIABLES
    text,            \* what the files hold
    at, pos,         \* the file that is read, and the place in it
    cToken, numTokens,
    lists,           \* the list of tokens of each file
    pair,            \* the pair whose distance is computed, or 0
    mean,            \* its mean list
    node1, node2,    \* createMeanList: the walking pointers
    side,            \* the file of the pair that calculateKullbeckLeiblerDivergence gets
    head, meanHead,  \* its walking pointers
    terms            \* what its sum is made of, for either side

reader   == <<text, at, pos, cToken, numTokens>>
distance == <<pair, mean, node1, node2, side, head, meanHead, terms>>
vars == <<files, pc, array, printed, reader, lists, distance>>

NoTerms == <<<<>>, <<>>>>

Init ==
    /\ text \in Sources
    /\ files = [f \in DOMAIN text |-> 0]
    /\ lists = [f \in DOMAIN text |-> <<>>]
    /\ pc = "parse"
    /\ at = 1 /\ pos = 1 /\ cToken = <<>> /\ numTokens = 0
    /\ pair = 0 /\ mean = <<>> /\ node1 = 1 /\ node2 = 1
    /\ side = 1 /\ head = 1 /\ meanHead = 1 /\ terms = NoTerms
    /\ PairsInit

(***************************************************************************)
(* fileHandler                                                             *)
(***************************************************************************)
Reading == pc = "parse" /\ at <= Len(text) /\ pos <= Len(text[at])
Char == text[at][pos]

\* The token that is being read, if any, is inserted.
Flush ==
    IF cToken = <<>> THEN UNCHANGED <<lists, numTokens, cToken>>
    ELSE /\ lists' = [lists EXCEPT ![at] = insertToken(@, cToken)]
         /\ numTokens' = numTokens + 1
         /\ cToken' = <<>>

\* A delimiter; the end of a line is one.
EndToken ==
    /\ Reading /\ checkDelimiter(Char)
    /\ Flush
    /\ pos' = pos + 1
    /\ UNCHANGED <<files, pc, array, printed, text, at, distance>>

InToken ==
    /\ Reading /\ (isalpha(Char) \/ Char = "-")
    /\ cToken' = Append(cToken, tolower(Char))
    /\ pos' = pos + 1
    /\ UNCHANGED <<files, pc, array, printed, text, at, numTokens, lists, distance>>

\* Any other character neither belongs to a token nor ends one.
Ignored ==
    /\ Reading /\ ~checkDelimiter(Char) /\ ~isalpha(Char) /\ Char # "-"
    /\ pos' = pos + 1
    /\ UNCHANGED <<files, pc, array, printed, text, at, cToken, numTokens, lists, distance>>

EndOfFile ==
    /\ pc = "parse" /\ at <= Len(text) /\ pos > Len(text[at])
    /\ lists' = IF cToken = <<>> THEN lists
                ELSE [lists EXCEPT ![at] = insertToken(@, cToken)]
    /\ files' = [files EXCEPT ![at] = IF cToken = <<>> THEN numTokens ELSE numTokens + 1]
    /\ at' = at + 1 /\ pos' = 1 /\ numTokens' = 0 /\ cToken' = <<>>
    /\ UNCHANGED <<pc, array, printed, text, distance>>

\* The threads have been joined, and main calls outputResults.
AllRead ==
    /\ pc = "parse" /\ at > Len(text)
    /\ pc' = "size"
    /\ UNCHANGED <<files, array, printed, reader, lists, distance>>

MakePairs ==
    /\ Size \/ SizeTraps \/ Fill \/ NextFirst \/ FillDone
    /\ UNCHANGED <<reader, lists, distance>>

(***************************************************************************)
(* calculateProbabilities: val / totalTokens, of Whole.                    *)
(***************************************************************************)
Whole == 2 * FoldSeq(LAMBDA n, p : IF n = 0 THEN p ELSE n * p, 1, files)

calculateProbabilities ==
    /\ pc = "weigh"
    /\ lists' = [f \in DOMAIN lists |->
                    [i \in DOMAIN lists[f] |->
                        [lists[f][i] EXCEPT !.val = @ * (Whole \div files[f])]]]
    /\ pc' = "print"
    /\ UNCHANGED <<files, array, printed, reader, distance>>

(***************************************************************************)
(* calculateJensenShannonDistance, for the next line of the output.        *)
(***************************************************************************)
List(s) == lists[IF s = 1 THEN nodePairs[pair].node1 ELSE nodePairs[pair].node2]

NextPair ==
    /\ pc = "print" /\ Len(printed) < totalPairs
    /\ pair' \in NextLines
    /\ pc' = "mean"
    /\ UNCHANGED <<files, array, printed, reader, lists, mean, node1, node2, side, head,
                   meanHead, terms>>

\* One iteration of createMeanList: a token of either file that has one left.
MeanStep ==
    LET left1 == node1 <= Len(List(1))
        left2 == node2 <= Len(List(2))
        mean1 == IF left1 THEN insertMeanNode(mean, List(1)[node1]) ELSE mean
    IN  /\ pc = "mean" /\ (left1 \/ left2)
        /\ mean' = IF left2 THEN insertMeanNode(mean1, List(2)[node2]) ELSE mean1
        /\ node1' = IF left1 THEN node1 + 1 ELSE node1
        /\ node2' = IF left2 THEN node2 + 1 ELSE node2
        /\ UNCHANGED <<files, pc, array, printed, reader, lists, pair, side, head,
                       meanHead, terms>>

MeanDone ==
    /\ pc = "mean" /\ node1 > Len(List(1)) /\ node2 > Len(List(2))
    /\ mean' = [i \in DOMAIN mean |-> [mean[i] EXCEPT !.val = @ \div 2]]
    /\ pc' = "kld" /\ side' = 1 /\ head' = 1 /\ meanHead' = 1
    /\ UNCHANGED <<files, array, printed, reader, lists, pair, node1, node2, terms>>

(***************************************************************************)
(* calculateKullbeckLeiblerDivergence                                      *)
(***************************************************************************)
Walking == pc = "kld" /\ meanHead <= Len(mean) /\ head <= Len(List(side))
SameToken == mean[meanHead].name = List(side)[head].name

Weigh ==
    /\ Walking /\ SameToken
    /\ terms' = [terms EXCEPT ![side] =
                    Append(@, [name |-> mean[meanHead].name,
                               val |-> List(side)[head].val, mean |-> mean[meanHead].val])]
    /\ head' = head + 1 /\ meanHead' = meanHead + 1
    /\ UNCHANGED <<files, pc, array, printed, reader, lists, pair, mean, node1, node2, side>>

\* Variant: both walks go on past tokens that differ.
SkipBoth ==
    /\ Walking /\ ~SameToken
    /\ head' = head + 1 /\ meanHead' = meanHead + 1
    /\ UNCHANGED <<files, pc, array, printed, reader, lists, pair, mean, node1, node2,
                   side, terms>>

Skip ==
    /\ Walking /\ ~SameToken
    /\ meanHead' = meanHead + 1
    /\ UNCHANGED <<files, pc, array, printed, reader, lists, pair, mean, node1, node2,
                   side, head, terms>>

SecondFile ==
    /\ pc = "kld" /\ ~Walking /\ side = 1
    /\ side' = 2 /\ head' = 1 /\ meanHead' = 1
    /\ UNCHANGED <<files, pc, array, printed, reader, lists, pair, mean, node1, node2, terms>>

\* freeMeanList, and printResult.
printResult ==
    /\ pc = "kld" /\ ~Walking /\ side = 2
    /\ printed' = Append(printed, pair)
    /\ pair' = 0 /\ mean' = <<>> /\ node1' = 1 /\ node2' = 1
    /\ side' = 1 /\ head' = 1 /\ meanHead' = 1 /\ terms' = NoTerms
    /\ pc' = "print"
    /\ UNCHANGED <<files, array, reader, lists>>

Finish == PrintDone /\ UNCHANGED <<reader, lists, distance>>

Next ==
    \/ EndToken \/ InToken \/ Ignored \/ EndOfFile \/ AllRead
    \/ MakePairs \/ calculateProbabilities
    \/ NextPair \/ MeanStep \/ MeanDone
    \/ Weigh \/ Skip \/ SecondFile \/ printResult
    \/ Finish

Spec == Init /\ [][Next]_vars

-----------------------------------------------------------------------------
(***************************************************************************)
(* Properties.                                                             *)
(***************************************************************************)
\* Every variable keeps its type.
TypeOK ==
    /\ PairsTypeOK
    /\ pc \in {"parse", "size", "trapped", "fill", "overrun", "weigh", "print", "mean", "kld",
               "done"}
    /\ files \in [DOMAIN text -> Nat]
    /\ at \in 1..Len(text) + 1 /\ pos \in Nat /\ numTokens \in Nat
    /\ pair \in 0..Len(nodePairs) /\ (pc \in {"mean", "kld"} <=> pair # 0)
    /\ node1 \in Nat /\ node2 \in Nat /\ side \in 1..2 /\ head \in Nat /\ meanHead \in Nat
    /\ DOMAIN lists = DOMAIN text /\ DOMAIN terms = 1..2

\* The tokens of a text, told without a scan: the stretches between delimiters, in lower
\* case and without the characters that are neither letters nor hyphens.  Nth is the n-th
\* smallest of a set of numbers.
Stretches(t) ==
    {s \in (DOMAIN t) \X (DOMAIN t) :
        /\ s[1] <= s[2] /\ \A k \in s[1]..s[2] : ~checkDelimiter(t[k])
        /\ s[1] = 1 \/ checkDelimiter(t[s[1] - 1])
        /\ s[2] = Len(t) \/ checkDelimiter(t[s[2] + 1])}
Nth(S, n) == CHOOSE k \in {i \in S : Cardinality({j \in S : j <= i}) = n} : TRUE
Spelling(t, a, b) ==
    LET kept == {k \in a..b : isalpha(t[k]) \/ t[k] = "-"}
    IN  [n \in 1..Cardinality(kept) |-> tolower(t[Nth(kept, n)])]
TokenIn(t, s) == Spelling(t, s[1], s[2])
TokensOf(t) == {TokenIn(t, s) : s \in Stretches(t)} \ {<<>>}
Occurrences(t, name) == Cardinality({s \in Stretches(t) : TokenIn(t, s) = name})

\* A file that has been read has an alphabetical list, without repeats, of just its
\* tokens, each counted as often as it occurs, and the total is that of the counts.
TokensCounted ==
    pc \in {"parse", "size"} =>
        \A f \in 1..at - 1 :
            /\ Alphabetical(lists[f])
            /\ {lists[f][i].name : i \in DOMAIN lists[f]} = TokensOf(text[f])
            /\ \A i \in DOMAIN lists[f] :
                  lists[f][i].val = Occurrences(text[f], lists[f][i].name)
            /\ files[f] = Total(lists[f])

\* The mean list is alphabetical and gives each token of either file the mean of
\* its two frequencies, 0 in the file that lacks it.
MeanIsMean ==
    pc = "kld" =>
        /\ Alphabetical(mean)
        /\ \A name \in {n.name : n \in ToSet(mean) \cup ToSet(List(1)) \cup ToSet(List(2))} :
              2 * ValueOf(mean, name) = ValueOf(List(1), name) + ValueOf(List(2), name)

\* Once the sum for a file is finished, every token of the file has had its term, none
\* was passed over, their frequencies make up a whole, and each quotient whose logarithm
\* was taken is more than 0 and at most 2.
EveryTokenWeighed ==
    \A s \in 1..2 :
        pc = "kld" /\ (s < side \/ (s = side /\ ~Walking)) =>
            /\ [i \in DOMAIN terms[s] |-> [name |-> terms[s][i].name, val |-> terms[s][i].val]]
                  = List(s)
            /\ \A i \in DOMAIN terms[s] :
                  0 < terms[s][i].val /\ terms[s][i].val <= 2 * terms[s][i].mean
            /\ Total(terms[s]) = IF List(s) = <<>> THEN 0 ELSE Whole
=============================================================================
