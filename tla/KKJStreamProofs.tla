--------------------------- MODULE KKJStreamProofs --------------------------
(***************************************************************************)
(* Proofs about what the joke server makes of the messages: that the joke  *)
(* goes on only after the right answers, and that no client is refused     *)
(* whose messages are right, for every message that can be sent, every     *)
(* division of the stream into reads and every way a client may leave.     *)
(* And that the server waits for nobody but its clients.                   *)
(***************************************************************************)
EXTENDS KKJServerProofs

-----------------------------------------------------------------------------
(***************************************************************************)
(* The inductive invariant, beside the server's own: where the fields of   *)
(* readSocket, its buffer and the inbox stand in the client's message.     *)
(***************************************************************************)
\* What of the current message has been taken out of the buffer: a field of one word and
\* its pipe for each number that tokenNum has passed, and the words of cToken.
Taken == 2 * (tokenNum - 1) + Len(cToken)

\* The fields are those of message m, and buffer and inbox hold what comes next in it, as
\* far as a reset has left it.
Parsed(m) ==
    /\ tokenNum >= 2 => m[1] = status /\ m[2] = PIPE /\ status \in {"REG", "ERR"}
    /\ tokenNum = 3 => /\ status = "REG" /\ m[4] = PIPE
                       /\ m[3] \in DOMAIN strtol /\ messageLen = strtol[m[3]]
    /\ \A i \in 1..Len(cToken) : cToken[i] = m[2 * (tokenNum - 1) + i]
Follows(m) ==
    /\ Taken + Len(buffer) + Len(inbox[cur]) <= Len(m)
    /\ \A i \in 1..Len(buffer) : buffer[i] = m[Taken + i]
    /\ \A i \in 1..Len(inbox[cur]) : inbox[cur][i] = m[Taken + Len(buffer) + i]

\* Of the first n messages those that were sent have nothing behind their end; all that
\* were sent are what the protocol asks for.
WholeUpTo(c, n) == \A j \in 1..n : j <= Len(sent[c]) => Whole(2*j - 1, sent[c][j])
Compliant(c) == \A j \in DOMAIN sent[c] : Acceptable(2*j - 1, sent[c][j])

\* Nothing of the next message is there; or a pipe comes before it, and will be refused.
Between == tokenNum = 1 /\ cToken = <<>>
Idle ==
    /\ Between /\ buffer = <<>> /\ inbox[cur] = <<>>
    /\ Len(sent[cur]) = written[cur] - 1
Jammed ==
    /\ Between /\ ~Compliant(cur)
    /\ buffer # <<>> => buffer[1] = PIPE
    /\ buffer = <<>> /\ inbox[cur] # <<>> => inbox[cur][1] = PIPE
    /\ buffer = <<>> /\ inbox[cur] = <<>> => peer[cur] # "open"
Within ==
    /\ Len(sent[cur]) = written[cur]
    /\ Parsed(sent[cur][written[cur]]) /\ Follows(sent[cur][written[cur]])

\* What a whole message leaves behind when it is answered.
Left == inbox[cur] = <<>> \/ (inbox[cur] = <<PIPE>> /\ ~Compliant(cur))
Earned(c, k) ==
    WholeUpTo(c, k - 1) => k <= Len(sent[c]) /\ Answers(2*k - 1, sent[c][k])

AtWrite ==
    pc = "write" =>
        /\ WholeUpTo(cur, written[cur]) => Len(sent[cur]) = written[cur] /\ Left
        /\ written[cur] >= 1 => Earned(cur, written[cur])
AtRead ==
    pc = "read" /\ WholeUpTo(cur, written[cur] - 1) => Idle \/ Jammed \/ Within
AtCheck ==
    pc = "check" =>
        /\ Tells(0..5) => ~Compliant(cur)
        /\ ~Tells(0..5) =>
              /\ Earned(cur, written[cur])
              /\ written[cur] <= 2 /\ WholeUpTo(cur, written[cur]) => Left

\* A peer that may still send has had no reason to reset.
LinkInv == \A c \in Clients : link[c] # "up" => peer[c] # "open"
EarnedInv == \A c \in Clients : \A k \in 1..written[c] - 1 : Earned(c, k)
RefusedInv == \A c \in Clients : errors[c] # <<>> => ~Compliant(c)

StreamInv == LinkInv /\ EarnedInv /\ RefusedInv /\ AtWrite /\ AtRead /\ AtCheck

-----------------------------------------------------------------------------
(***************************************************************************)
(* The shape of messages.                                                  *)
(***************************************************************************)
\* A text of one word is as long as the word.
LEMMA LengthOfWord ==
    ASSUME NEW w
    PROVE  Length(<<w>>) = 0 + strlen[w]
<1> DEFINE t == <<w>>
           F(f) == [n \in 0..Len(t) |-> IF n = 0 THEN 0 ELSE f[n-1] + strlen[t[n]]]
           g == [n \in 0..Len(t) |-> IF n = 0 THEN 0 ELSE 0 + strlen[w]]
           h == CHOOSE f : f = F(f)
<1>1. Length(t) = h[Len(t)]
    BY DEF Length
<1>2. Len(t) = 1 /\ t[1] = w
    OBVIOUS
<1>3. g = F(g)
    <2>1. \A n \in 0..1 : g[n] = F(g)[n]
        <3>1. g[0] = 0 /\ g[1] = 0 + strlen[w]
            BY <1>2
        <3>2. F(g)[0] = 0 /\ F(g)[1] = g[0] + strlen[w]
            BY <1>2
        <3>3. \A n \in 0..1 : n = 0 \/ n = 1
            OBVIOUS
        <3> QED
            BY <3>1, <3>2, <3>3
    <2> QED
        BY <1>2, <2>1
<1>4. h = F(h)
    <2> HIDE DEF F, g
    <2> QED
        BY <1>3
<1> HIDE DEF h, t
<1>5. h[0] = 0 /\ h[1] = h[0] + strlen[w]
    BY <1>2, <1>4
<1> QED
    BY <1>1, <1>2, <1>5 DEF t

\* The fields of a good message, and that there is no more to it.
Fields(n, m) ==
    /\ m[1] = "REG" /\ m[2] = PIPE /\ m[4] = PIPE /\ m[6] = PIPE
    /\ m[3] \in DOMAIN strtol /\ m[5] \in Words /\ strtol[m[3]] = strlen[m[5]]
    /\ n = 1 => m[5] = WhosThere
    /\ n = 3 => m[5] = SetupWho
    /\ n = 5 => m[5] \in Punctuated

LEMMA AcceptableFields ==
    ASSUME NEW n, NEW m \in Seq(Symbols)
    PROVE  Acceptable(n, m) <=> Len(m) = 6 /\ Fields(n, m)
<1>1. ASSUME Acceptable(n, m) PROVE Len(m) = 6 /\ Fields(n, m)
    <2>1. PICK d \in DOMAIN strtol, t \in DOMAIN strlen :
             /\ m = <<"REG", PIPE, d, PIPE, t, PIPE>> /\ strtol[d] = strlen[t]
             /\ n = 1 => t = WhosThere
             /\ n = 3 => t = SetupWho
             /\ n = 5 => t \in Punctuated
        BY <1>1 DEF Acceptable
    <2>2. /\ Len(m) = 6 /\ m[1] = "REG" /\ m[2] = PIPE /\ m[3] = d /\ m[4] = PIPE /\ m[5] = t
          /\ m[6] = PIPE
        BY <2>1
    <2> QED
        BY <2>1, <2>2 DEF Fields, Words
<1>2. ASSUME Len(m) = 6, Fields(n, m) PROVE Acceptable(n, m)
    <2> DEFINE a == <<"REG", PIPE, m[3], PIPE, m[5], PIPE>>
    <2>1. /\ Len(a) = 6 /\ a[1] = "REG" /\ a[2] = PIPE /\ a[3] = m[3] /\ a[4] = PIPE
          /\ a[5] = m[5] /\ a[6] = PIPE
        OBVIOUS
    <2>2. a \in Seq(Symbols)
        <3>1. {"REG", PIPE, m[3], m[5]} \subseteq Symbols
            BY <1>2, KKJAssumption DEF Fields, Symbols, Words
        <3> QED
            BY <3>1
    <2>3. \A i \in 1..6 : m[i] = a[i]
        <3>1. \A i \in 1..6 : i = 1 \/ i = 2 \/ i = 3 \/ i = 4 \/ i = 5 \/ i = 6
            OBVIOUS
        <3> QED
            BY <1>2, <2>1, <3>1 DEF Fields
    <2> HIDE DEF a
    <2>4. m = a
        BY <1>2, <2>1, <2>2, <2>3, SeqEqual
    <2> QED
        BY <1>2, <2>4 DEF a, Acceptable, Fields, Words
<1> QED
    BY <1>1, <1>2

\* A surplus message is a good one with a pipe more.
LEMMA SurplusFields ==
    ASSUME NEW n, NEW m \in Seq(Symbols), Surplus(n, m)
    PROVE  Len(m) = 7 /\ Fields(n, m) /\ m[7] = PIPE
<1>1. m # <<>> /\ m[Len(m)] = PIPE /\ Acceptable(n, Front(m))
    BY DEF Surplus, Last
<1>2. Len(m) \in Nat /\ Len(m) >= 1
    BY <1>1
<1>3. /\ Front(m) \in Seq(Symbols) /\ Len(Front(m)) = Len(m) - 1
      /\ \A i \in 1..Len(m) - 1 : Front(m)[i] = m[i]
    <2>1. PICK k \in Nat : Len(m) = k + 1
        BY <1>2
    <2>2. /\ SubSeq(m, 1, k) \in Seq(Symbols) /\ Len(SubSeq(m, 1, k)) = k
          /\ \A i \in 1..k : SubSeq(m, 1, k)[i] = m[i]
        BY <2>1
    <2>3. Front(m) = SubSeq(m, 1, k) /\ Len(m) - 1 = k
        BY <2>1 DEF Front
    <2> QED
        BY <2>2, <2>3
<1>4. Len(Front(m)) = 6 /\ Fields(n, Front(m))
    BY <1>1, <1>3, AcceptableFields
<1>5. Len(m) = 7
    <2>1. Len(m) - 1 = 6
        BY <1>3, <1>4
    <2> QED
        BY <1>2, <2>1
<1>6. /\ m[1] = Front(m)[1] /\ m[2] = Front(m)[2] /\ m[3] = Front(m)[3] /\ m[4] = Front(m)[4]
      /\ m[5] = Front(m)[5] /\ m[6] = Front(m)[6]
    BY <1>3, <1>5
<1> QED
    BY <1>1, <1>4, <1>5, <1>6 DEF Fields

\* The codes are those of the client and those of the server, and none is a word of the joke.
LEMMA CodesDivide ==
    /\ Codes(0..5) = Codes({0, 2, 4}) \cup Reported
    /\ "" \notin Codes(0..5)
    /\ WhosThere \notin Codes(0..5) /\ SetupWho \notin Codes(0..5)
    /\ \A t \in Punctuated : t \notin Codes(0..5)
    /\ \A e \in Reported : e \in Codes(0..5)
<1>1. 0..5 = {0, 2, 4} \cup {1, 3, 5}
    OBVIOUS
<1>2. Codes(0..5) = Codes({0, 2, 4}) \cup Codes({1, 3, 5})
    BY <1>1 DEF Codes
<1>3. Codes(0..5) \cap ({"", WhosThere, SetupWho} \cup Punctuated) = {}
    BY CodesAssumption
<1> DEFINE All == Codes(0..5)
<1> HIDE DEF All
<1> QED
    BY <1>2, <1>3 DEF Reported

-----------------------------------------------------------------------------
(***************************************************************************)
(* readSocket within a message.                                            *)
(***************************************************************************)
\* At a pipe, when the message has a word and a pipe in this place, the field is the word.
LEMMA Field ==
    ASSUME Typed, NEW m \in Seq(Symbols), Parsed(m), Follows(m), buffer # <<>>, Head(buffer) = PIPE,
           m[2 * tokenNum - 1] \in Words, m[2 * tokenNum] = PIPE
    PROVE  cToken = <<m[2 * tokenNum - 1]>> /\ Len(cToken) = 1
<1> DEFINE o == 2 * (tokenNum - 1)
           p == Len(cToken)
<1>1. /\ tokenNum \in 1..3 /\ buffer \in Seq(Symbols) /\ cToken \in Seq(Words) /\ o \in Nat /\ p \in Nat
      /\ 2 * tokenNum - 1 = o + 1 /\ 2 * tokenNum = o + 2
    <2>1. tokenNum \in 1..3 /\ buffer \in Seq(Symbols) /\ cToken \in Seq(Words)
        BY DEF Typed
    <2>2. p \in Nat
        BY <2>1
    <2>3. o \in Nat /\ 2 * tokenNum - 1 = o + 1 /\ 2 * tokenNum = o + 2
        BY <2>1
    <2> QED
        BY <2>1, <2>2, <2>3
<1>2. PIPE \notin Words
    BY KKJAssumption DEF Words
<1>3. m[o + p + 1] = PIPE
    <2>1. 1 \in 1..Len(buffer) /\ buffer[1] = PIPE
        BY <1>1
    <2> QED
        BY <2>1 DEF Follows, Taken
<1>4. \A i \in 1..p : cToken[i] = m[o + i] /\ cToken[i] \in Words
    BY <1>1 DEF Parsed
<1>5. p # 0
    <2>1. p = 0 => o + p + 1 = o + 1
        BY <1>1
    <2> QED
        BY <1>1, <1>2, <1>3, <2>1
<1>6. ~(p >= 2)
    <2>1. p >= 2 => 2 \in 1..p
        BY <1>1
    <2> QED
        BY <1>1, <1>2, <1>4, <2>1
<1>7. p = 1
    <2>1. p \in Nat
        BY <1>1
    <2> HIDE DEF p
    <2> QED
        BY <1>5, <1>6, <2>1
<1>8. cToken[1] = m[o + 1]
    <2>1. 1 \in 1..p
        BY <1>7
    <2> QED
        BY <1>4, <2>1
<1>9. cToken = <<cToken[1]>>
    BY <1>1, <1>7
<1> QED
    BY <1>1, <1>7, <1>8, <1>9

\* One symbol is taken out of the buffer, and it is the message's next.
LEMMA TakeOne ==
    ASSUME Typed, NEW m, Follows(m), buffer # <<>>, buffer' = Tail(buffer), Taken' = Taken + 1,
           UNCHANGED <<cur, inbox>>
    PROVE  Follows(m)' /\ m[Taken + 1] = Head(buffer)
<1>1. /\ buffer \in Seq(Symbols) /\ Taken \in Nat /\ Len(buffer) \in Nat /\ Len(buffer) >= 1
    <2>1. buffer \in Seq(Symbols) /\ cToken \in Seq(Words) /\ tokenNum \in 1..3
        BY DEF Typed
    <2>2. Len(cToken) \in Nat
        BY <2>1
    <2>3. Taken \in Nat
        BY <2>1, <2>2 DEF Taken
    <2> QED
        BY <2>1, <2>3
<1>2. /\ Len(buffer') = Len(buffer) - 1
      /\ \A i \in 1..Len(buffer) - 1 : buffer'[i] = buffer[i + 1]
      /\ Head(buffer) = buffer[1]
    BY <1>1
<1>3. /\ Taken + Len(buffer) + Len(inbox[cur]) <= Len(m)
      /\ \A i \in 1..Len(buffer) : buffer[i] = m[Taken + i]
      /\ \A i \in 1..Len(inbox[cur]) : inbox[cur][i] = m[Taken + Len(buffer) + i]
    BY DEF Follows
<1> DEFINE T == Taken
           B == Len(buffer)
           box == inbox[cur]
<1>4. T \in Nat /\ B \in Nat /\ B >= 1
    BY <1>1
<1>5. box = inbox'[cur']
    OBVIOUS
<1> HIDE DEF T, B, box
<1>6. Taken' = T + 1 /\ Len(buffer') = B - 1 /\ (T + 1) + (B - 1) = T + B
    BY <1>2, <1>4 DEF T, B
<1>7. Taken' + Len(buffer') + Len(inbox'[cur']) <= Len(m)
    <2>1. T + B + Len(box) <= Len(m)
        BY <1>3 DEF T, B, box
    <2> QED
        BY <1>5, <1>6, <2>1
<1>8. \A i \in 1..Len(buffer') : buffer'[i] = m[Taken' + i]
    <2> SUFFICES ASSUME NEW i \in 1..B - 1 PROVE buffer'[i] = m[Taken' + i]
        BY <1>6
    <2>1. buffer'[i] = buffer[i + 1] /\ i + 1 \in 1..B
        BY <1>2, <1>4 DEF B
    <2>2. buffer[i + 1] = m[T + (i + 1)]
        BY <1>3, <2>1 DEF T, B
    <2>3. T + (i + 1) = (T + 1) + i
        BY <1>4
    <2> QED
        BY <1>6, <2>1, <2>2, <2>3
<1>9. \A i \in 1..Len(inbox'[cur']) : inbox'[cur'][i] = m[Taken' + Len(buffer') + i]
    <2> SUFFICES ASSUME NEW i \in 1..Len(box) PROVE box[i] = m[Taken' + Len(buffer') + i]
        BY <1>5
    <2>1. box[i] = m[T + B + i]
        BY <1>3 DEF T, B, box
    <2> QED
        BY <1>6, <2>1
<1>10. m[Taken + 1] = Head(buffer)
    <2>1. 1 \in 1..B
        BY <1>4
    <2> QED
        BY <1>2, <1>3, <2>1 DEF B
<1> QED
    BY <1>7, <1>8, <1>9, <1>10 DEF Follows

-----------------------------------------------------------------------------
(***************************************************************************)
(* What has been said and answered.                                        *)
(***************************************************************************)
\* A message with something behind its end is not what the protocol asks for.
LEMMA NotWhole ==
    ASSUME Typed, NEW c \in Clients, NEW n \in Nat, ~WholeUpTo(c, n) PROVE ~Compliant(c)
<1>1. PICK j \in 1..n : j <= Len(sent[c]) /\ ~Whole(2*j - 1, sent[c][j])
    BY DEF WholeUpTo
<1>2. j \in DOMAIN sent[c]
    <2>1. sent[c] \in Seq(Seq(Symbols))
        BY DEF Typed
    <2> QED
        BY <1>1, <2>1
<1>3. ~Acceptable(2*j - 1, sent[c][j])
    BY <1>1 DEF Whole
<1> QED
    BY <1>2, <1>3 DEF Compliant

\* The history is the messages and their number.
LEMMA SaidSame ==
    ASSUME UNCHANGED sent
    PROVE  /\ \A c, n : WholeUpTo(c, n)' = WholeUpTo(c, n)
           /\ \A c : Compliant(c)' = Compliant(c)
           /\ \A c, k : Earned(c, k)' = Earned(c, k)
<1>1. \A c, n : WholeUpTo(c, n)' = WholeUpTo(c, n)
    BY DEF WholeUpTo
<1>2. \A c : Compliant(c)' = Compliant(c)
    BY DEF Compliant
<1> QED
    BY <1>1, <1>2 DEF Earned

\* The types of the current client's history.
LEMMA CurrentTypes ==
    ASSUME IInv, Chatting
    PROVE  /\ cur \in Clients /\ written[cur] \in 0..3 /\ sent[cur] \in Seq(Seq(Symbols))
           /\ Len(sent[cur]) \in Nat /\ Len(sent[cur]) <= written[cur]
           /\ inbox[cur] \in Seq(Symbols) /\ buffer \in Seq(Symbols) /\ cToken \in Seq(Words)
           /\ tokenNum \in 1..3
<1>1. cur \in Clients
    BY Current
<1>2. /\ written \in [Clients -> 0..3] /\ sent \in [Clients -> Seq(Seq(Symbols))]
      /\ inbox \in [Clients -> Seq(Symbols)]
      /\ buffer \in Seq(Symbols) /\ cToken \in Seq(Words) /\ tokenNum \in 1..3
    BY DEF IInv, Typed
<1>3. sent[cur] \in Seq(Seq(Symbols)) /\ written[cur] \in 0..3 /\ inbox[cur] \in Seq(Symbols)
    BY <1>1, <1>2
<1>4. Len(sent[cur]) \in Nat
    BY <1>3
<1> QED
    BY <1>1, <1>2, <1>3, <1>4 DEF IInv, HistoryInv

\* Outside of writing, reading and checking there is nothing to say of the current message.
LEMMA Outside ==
    ASSUME StreamInv, UNCHANGED <<sent, written, errors>>, LinkInv',
           pc' \notin {"write", "read", "check"}
    PROVE  StreamInv'
<1>1. EarnedInv' /\ RefusedInv'
    BY SaidSame DEF StreamInv, EarnedInv, RefusedInv
<1>2. AtWrite' /\ AtRead' /\ AtCheck'
    BY DEF AtWrite, AtRead, AtCheck
<1> QED
    BY <1>1, <1>2 DEF StreamInv

\* Nothing is said before the first connection.
LEMMA StreamInit == Init => StreamInv
<1> SUFFICES ASSUME Init PROVE StreamInv
    OBVIOUS
<1>1. pc = "open" /\ (\A c \in Clients : link[c] = "up" /\ written[c] = 0 /\ errors[c] = <<>>)
    BY DEF Init, JokeFileInit
<1>2. LinkInv /\ RefusedInv
    BY <1>1 DEF LinkInv, RefusedInv
<1>3. EarnedInv
    <2>1. \A c \in Clients : 1..written[c] - 1 = {}
        BY <1>1
    <2> QED
        BY <2>1 DEF EarnedInv
<1> QED
    BY <1>1, <1>2, <1>3 DEF StreamInv, AtWrite, AtRead, AtCheck

-----------------------------------------------------------------------------
(***************************************************************************)
(* The steps.                                                              *)
(***************************************************************************)
\* The steps after which the server is at no message: it loads, stops or ends a chat.
LEMMA QuietStep ==
    ASSUME IInv, StreamInv,
           \/ getJokes /\ UNCHANGED <<cur, msgNum, parser, open, backlog, inbox, peer, link, history>>
           \/ WriteFails \/ ReadEnds \/ ErrorTold \/ SendErrorFails \/ JokeTold \/ SigPipe
    PROVE  StreamInv'
<1>1. UNCHANGED <<sent, written, errors, peer, link>> /\ pc' \notin {"write", "read", "check"}
    BY DEF getJokes, OpenFile, BlankLine, SetupLine, PunchLine, GetLine, EndOfLines, Bind,
       WriteFails, ReadEnds, ErrorTold, SendErrorFails, JokeTold, SigPipe, HangUp, history, IInv, Typed
<1>2. LinkInv'
    BY <1>1 DEF StreamInv, LinkInv
<1> QED
    BY <1>1, <1>2, Outside

\* A chat begins with nothing said.
LEMMA AcceptStream == IInv /\ StreamInv /\ Accept => StreamInv'
<1> SUFFICES ASSUME IInv, StreamInv, Accept PROVE StreamInv'
    OBVIOUS
<1>1. UNCHANGED <<sent, written, errors, inbox, peer, link>>
    BY DEF Accept, history
<1>2. LinkInv'
    BY <1>1 DEF StreamInv, LinkInv
<1>3. CASE pc' \notin {"write", "read", "check"}
    BY <1>1, <1>2, <1>3, Outside
<1>4. CASE pc' \in {"write", "read", "check"}
    <2>1. pc' = "write" /\ backlog # <<>> /\ cur' = Head(backlog)
        BY <1>4 DEF Accept
    <2>2. backlog \in Seq(Clients)
        BY DEF IInv, Typed
    <2>3. cur' \in Clients /\ 1 \in DOMAIN backlog /\ backlog[1] = cur'
        BY <2>1, <2>2
    <2>4. PICK d \in Clients : d = cur'
        BY <2>3
    <2>5. Fresh(d)
        BY <2>3, <2>4 DEF IInv, QueueInv, Waiting
    <2>6. written[d] = 0 /\ Len(sent[d]) = 0 /\ inbox[d] = <<>>
        BY <2>5 DEF Fresh
    <2>7. AtWrite'
        <3>1. Len(sent'[cur']) = written'[cur'] /\ inbox'[cur'] = <<>> /\ ~(written'[cur'] >= 1)
            BY <1>1, <2>4, <2>6
        <3> QED
            BY <3>1 DEF AtWrite, Left
    <2>8. AtRead' /\ AtCheck'
        BY <2>1 DEF AtRead, AtCheck
    <2>9. EarnedInv' /\ RefusedInv'
        BY <1>1, SaidSame DEF StreamInv, EarnedInv, RefusedInv
    <2> QED
        BY <1>2, <2>7, <2>8, <2>9 DEF StreamInv
<1> QED
    BY <1>3, <1>4

\* The next message is written: the answer before it was earned, and of it nothing is left
\* but what will be refused.
LEMMA WriteStream == IInv /\ StreamInv /\ WriteSocket => StreamInv'
<1> SUFFICES ASSUME IInv, StreamInv, WriteSocket PROVE StreamInv'
    OBVIOUS
<1>1. /\ pc = "write" /\ pc' = "read" /\ written' = [written EXCEPT ![cur] = @ + 1]
      /\ link' = [link EXCEPT ![cur] = IF peer[cur] = "open" THEN @ ELSE "resetting"]
      /\ buffer' = <<>> /\ tokenNum' = 1 /\ cToken' = <<>>
      /\ UNCHANGED <<cur, inbox, peer, sent, errors>>
    BY DEF WriteSocket, Wrote, ParserReset
<1>2. /\ cur \in Clients /\ written[cur] \in 0..3 /\ Len(sent[cur]) <= written[cur]
      /\ inbox[cur] \in Seq(Symbols)
    BY <1>1, CurrentTypes DEF Chatting
<1> DEFINE w == written[cur]
<1>3. /\ written \in [Clients -> 0..3] /\ link \in [Clients -> {"up", "resetting", "reset"}]
    BY DEF IInv, Typed
<1>4. written'[cur] = w + 1 /\ \A c \in Clients : c # cur => written'[c] = written[c]
    BY <1>1, <1>2, <1>3
<1>5. LinkInv'
    BY <1>1, <1>2, <1>3 DEF StreamInv, LinkInv
<1>6. /\ \A c, n : WholeUpTo(c, n)' = WholeUpTo(c, n)
      /\ \A c : Compliant(c)' = Compliant(c)
      /\ \A c, k : Earned(c, k)' = Earned(c, k)
    BY <1>1, SaidSame
<1>7. /\ WholeUpTo(cur, w) => Len(sent[cur]) = w /\ Left
      /\ w >= 1 => Earned(cur, w)
    BY <1>1 DEF StreamInv, AtWrite
<1>8. w \in 0..3 /\ (w + 1) - 1 = w
    BY <1>2
<1> HIDE DEF w
<1>9. EarnedInv'
    <2> SUFFICES ASSUME NEW c \in Clients, NEW k \in 1..written'[c] - 1 PROVE Earned(c, k)
        BY <1>6 DEF EarnedInv
    <2>1. CASE c # cur
        BY <1>4, <2>1 DEF StreamInv, EarnedInv
    <2>2. CASE c = cur
        <3>1. k \in 1..w
            BY <1>4, <1>8, <2>2
        <3>2. k = w \/ k \in 1..written[cur] - 1
            BY <1>8, <3>1 DEF w
        <3>3. k = w => w >= 1
            BY <3>1
        <3> QED
            BY <1>2, <1>7, <2>2, <3>2, <3>3 DEF StreamInv, EarnedInv
    <2> QED
        BY <2>1, <2>2
<1>10. RefusedInv'
    BY <1>1, <1>6 DEF StreamInv, RefusedInv
<1>11. AtRead'
    <2> SUFFICES ASSUME WholeUpTo(cur, written[cur] - 1)' PROVE Idle' \/ Jammed'
        BY DEF AtRead
    <2>1. written'[cur'] - 1 = w
        BY <1>1, <1>4, <1>8
    <2>2. WholeUpTo(cur, w)
        BY <1>1, <2>1 DEF WholeUpTo
    <2>3. Len(sent[cur]) = w /\ Left
        BY <1>7, <2>2
    <2>4. Between'
        BY <1>1 DEF Between
    <2>5. CASE inbox[cur] = <<>>
        BY <1>1, <2>1, <2>3, <2>4, <2>5 DEF Idle
    <2>6. CASE inbox[cur] = <<PIPE>> /\ ~Compliant(cur)
        <3>1. inbox'[cur'] # <<>> /\ inbox'[cur'][1] = PIPE
            BY <1>1, <2>6
        <3>2. ~Compliant(cur)'
            BY <1>1, <1>6, <2>6
        <3> QED
            BY <1>1, <2>4, <3>1, <3>2 DEF Jammed
    <2> QED
        BY <2>3, <2>5, <2>6 DEF Left
<1>12. AtWrite' /\ AtCheck'
    BY <1>1 DEF AtWrite, AtCheck
<1> QED
    BY <1>5, <1>9, <1>10, <1>11, <1>12 DEF StreamInv

\* The client's answer has been checked and the joke goes on.
LEMMA ProceedStream == IInv /\ StreamInv /\ Proceed => StreamInv'
<1> SUFFICES ASSUME IInv, StreamInv, Proceed PROVE StreamInv'
    OBVIOUS
<1>1. /\ pc = "check" /\ pc' = "write" /\ msgNum < 5 /\ ~Tells(0..5)
      /\ UNCHANGED <<cur, inbox, peer, link, sent, written, errors>>
    BY DEF Proceed, history
<1>2. /\ cur \in Clients /\ written[cur] \in 0..3 /\ Len(sent[cur]) <= written[cur]
      /\ Len(sent[cur]) \in Nat
    BY <1>1, CurrentTypes DEF Chatting
<1>3. msgNum = 2 * written[cur] - 1 /\ written[cur] >= 1
    BY <1>1 DEF IInv, ChatInv
<1>4. written[cur] <= 2
    BY <1>1, <1>2, <1>3
<1>5. Earned(cur, written[cur]) /\ (WholeUpTo(cur, written[cur]) => Left)
    BY <1>1, <1>4 DEF StreamInv, AtCheck
<1>6. WholeUpTo(cur, written[cur]) => Len(sent[cur]) = written[cur]
    <2>1. WholeUpTo(cur, written[cur]) => WholeUpTo(cur, written[cur] - 1)
        BY <1>2 DEF WholeUpTo
    <2>2. WholeUpTo(cur, written[cur]) => written[cur] <= Len(sent[cur])
        BY <1>5, <2>1 DEF Earned
    <2> QED
        BY <1>2, <2>2
<1>7. /\ \A c, n : WholeUpTo(c, n)' = WholeUpTo(c, n)
      /\ \A c : Compliant(c)' = Compliant(c)
      /\ \A c, k : Earned(c, k)' = Earned(c, k)
    BY <1>1, SaidSame
<1>8. AtWrite'
    <2>1. Left => Left'
        BY <1>1, <1>7 DEF Left
    <2>2. /\ WholeUpTo(cur, written[cur])' = WholeUpTo(cur, written[cur])
          /\ Earned(cur, written[cur])' = Earned(cur, written[cur])
        BY <1>1 DEF WholeUpTo, Earned
    <2> QED
        BY <1>1, <1>5, <1>6, <2>1, <2>2 DEF AtWrite
<1>9. AtRead' /\ AtCheck'
    BY <1>1 DEF AtRead, AtCheck
<1>10. EarnedInv' /\ RefusedInv'
    BY <1>1, <1>7 DEF StreamInv, EarnedInv, RefusedInv
<1>11. LinkInv'
    BY <1>1 DEF StreamInv, LinkInv
<1> QED
    BY <1>8, <1>9, <1>10, <1>11 DEF StreamInv

\* An error is written only to a client that has sent something wrong.
LEMMA ErrorStream == IInv /\ StreamInv /\ sendError => StreamInv'
<1> SUFFICES ASSUME IInv, StreamInv, sendError PROVE StreamInv'
    OBVIOUS
<1>1. /\ pc = "check" /\ pc' = "accept" /\ Tells({1, 3, 5})
      /\ errors' = [errors EXCEPT ![cur] = Append(@, resp[1])]
      /\ link' = [link EXCEPT ![cur] = IF peer[cur] = "open" THEN @ ELSE "resetting"]
      /\ UNCHANGED <<inbox, peer, sent, written>>
    BY DEF sendError, HangUp, Wrote
<1>2. /\ errors \in [Clients -> Seq(Reported)] /\ link \in [Clients -> {"up", "resetting", "reset"}]
    BY DEF IInv, Typed
<1>3. cur \in Clients
    BY <1>1, Current DEF Chatting
<1>4. ~Compliant(cur)
    <2>1. Tells(0..5)
        BY <1>1, CodesDivide DEF Tells, Reported
    <2> QED
        BY <1>1, <2>1 DEF StreamInv, AtCheck
<1>5. RefusedInv'
    <2>1. \A c \in Clients : errors'[c] # <<>> => c = cur \/ errors[c] # <<>>
        BY <1>1, <1>2, <1>3
    <2> QED
        BY <1>1, <1>4, <2>1, SaidSame DEF StreamInv, RefusedInv
<1>6. EarnedInv'
    BY <1>1, SaidSame DEF StreamInv, EarnedInv
<1>7. LinkInv'
    BY <1>1, <1>2, <1>3 DEF StreamInv, LinkInv
<1>8. AtWrite' /\ AtRead' /\ AtCheck'
    BY <1>1 DEF AtWrite, AtRead, AtCheck
<1> QED
    BY <1>5, <1>6, <1>7, <1>8 DEF StreamInv

\* readSocket goes on: it reads what comes next, and its fields are the message's.
LEMMA ParserStream ==
    ASSUME IInv, StreamInv, Read \/ AppendToken \/ ParseStatus \/ ParseLength PROVE StreamInv'
<1>1. /\ pc = "read" /\ pc' = "read" /\ UNCHANGED <<cur, peer, link, sent, written, errors>>
    BY DEF Read, AppendToken, ParseStatus, ParseLength, Reading, Parsing, AtPipe, chat, history
<1>2. /\ cur \in Clients /\ written[cur] \in 0..3 /\ sent[cur] \in Seq(Seq(Symbols))
      /\ inbox[cur] \in Seq(Symbols) /\ buffer \in Seq(Symbols) /\ cToken \in Seq(Words)
      /\ tokenNum \in 1..3 /\ inbox \in [Clients -> Seq(Symbols)]
    BY <1>1, CurrentTypes DEF Chatting, IInv, Typed
<1>3. LinkInv' /\ EarnedInv' /\ RefusedInv'
    BY <1>1, SaidSame DEF StreamInv, LinkInv, EarnedInv, RefusedInv
<1>4. AtWrite' /\ AtCheck'
    BY <1>1 DEF AtWrite, AtCheck
<1>5. AtRead'
    <2> SUFFICES ASSUME WholeUpTo(cur, written[cur] - 1)' PROVE Idle' \/ Jammed' \/ Within'
        BY DEF AtRead
    <2>1. WholeUpTo(cur, written[cur] - 1)
        BY <1>1 DEF WholeUpTo
    <2>2. Idle \/ Jammed \/ Within
        BY <1>1, <2>1 DEF StreamInv, AtRead
    <2>3. ~Compliant(cur)' <=> ~Compliant(cur)
        BY <1>1 DEF Compliant
    <2>4. CASE Idle
        BY <2>4 DEF Idle, Between, Read, AppendToken, ParseStatus, ParseLength, Reading, Parsing, AtPipe
    <2>5. CASE Jammed
        <3>1. Between /\ ~Compliant(cur)
            BY <2>5 DEF Jammed
        <3>2. CASE Read
            <4>1. PICK k \in 1..Len(inbox[cur]) : buffer' = SubSeq(inbox[cur], 1, k)
                BY <3>2 DEF Read
            <4>2. /\ buffer = <<>> /\ inbox[cur] # <<>> /\ UNCHANGED <<tokenNum, cToken>>
                BY <3>2 DEF Read, Reading
            <4>3. inbox[cur][1] = PIPE
                BY <2>5, <4>2 DEF Jammed
            <4>4. buffer' # <<>> /\ buffer'[1] = inbox[cur][1]
                <5>1. PICK box \in Seq(Symbols) : box = inbox[cur]
                    BY <1>2
                <5>2. k \in 1..Len(box) /\ buffer' = SubSeq(box, 1, k)
                    BY <4>1, <5>1
                <5>3. Len(buffer') = k /\ k # 0 /\ buffer'[1] = box[1]
                    BY <5>2
                <5>4. buffer' = <<>> => Len(buffer') = 0
                    OBVIOUS
                <5> QED
                    BY <5>1, <5>3, <5>4
            <4> QED
                BY <2>3, <3>1, <4>2, <4>3, <4>4 DEF Jammed, Between
        <3>3. CASE AppendToken
            <4>1. buffer # <<>> /\ buffer[1] = PIPE /\ Head(buffer) # PIPE
                BY <2>5, <3>3 DEF Jammed, AppendToken, Parsing
            <4> QED
                BY <1>2, <4>1
        <3>4. CASE ParseStatus \/ ParseLength
            <4>1. cToken = <<>> /\ tokenNum = 1
                BY <3>1 DEF Between
            <4>2. cToken \in {<<"REG">>, <<"ERR">>}
                BY <3>4, <4>1 DEF ParseStatus, ParseLength, AtPipe
            <4> QED
                BY <4>1, <4>2
        <3> QED
            BY <3>2, <3>3, <3>4
    <2>6. CASE Within
        <3>1. PICK m : m = sent[cur][written[cur]]
            OBVIOUS
        <3>2. Len(sent[cur]) = written[cur] /\ Parsed(m) /\ Follows(m)
            BY <2>6, <3>1 DEF Within
        <3>3. m = sent'[cur'][written'[cur']] /\ Len(sent'[cur']) = written'[cur']
            BY <1>1, <3>1, <3>2
        <3> SUFFICES Parsed(m)' /\ Follows(m)'
            <4>1. m = sent'[cur'][written'[cur']] /\ Len(sent'[cur']) = written'[cur']
                BY <3>3
            <4> QED
                BY <4>1 DEF Within, Parsed, Follows, Taken
        <3>4. CASE Read
            <4>1. PICK k \in 1..Len(inbox[cur]) :
                     /\ buffer' = SubSeq(inbox[cur], 1, k)
                     /\ inbox' = [inbox EXCEPT ![cur] = SubSeq(@, k + 1, Len(@))]
                BY <3>4 DEF Read
            <4>2. buffer = <<>> /\ UNCHANGED <<tokenNum, status, cToken, messageLen>>
                BY <3>4 DEF Read, Reading
            <4> DEFINE box == inbox[cur]
            <4>3. /\ box \in Seq(Symbols) /\ k \in 1..Len(box)
                  /\ buffer' = SubSeq(box, 1, k) /\ inbox'[cur] = SubSeq(box, k + 1, Len(box))
                BY <1>2, <4>1
            <4> HIDE DEF box
            <4>4. /\ Len(buffer') = k /\ Len(inbox'[cur]) = Len(box) - k
                  /\ \A i \in 1..k : buffer'[i] = box[i]
                  /\ \A i \in 1..Len(box) - k : inbox'[cur][i] = box[k + i] /\ k + i \in 1..Len(box)
                BY <4>3
            <4>5. /\ Taken + 0 + Len(box) <= Len(m)
                  /\ \A i \in 1..Len(box) : box[i] = m[Taken + 0 + i]
                <5>1. Len(buffer) = 0
                    BY <4>2
                <5> QED
                    BY <3>2, <5>1 DEF Follows, box
            <4>6. PICK T \in Nat : T = Taken
                <5>1. Len(cToken) \in Nat
                    BY <1>2
                <5>2. Taken \in Nat
                    BY <1>2, <5>1 DEF Taken
                <5> QED
                    BY <5>2
            <4>7. Taken' = T
                BY <4>2, <4>6 DEF Taken
            <4>8. T + Len(box) <= Len(m) /\ \A i \in 1..Len(box) : box[i] = m[T + i]
                BY <4>3, <4>5, <4>6
            <4>9. Len(box) \in Nat /\ k \in 1..Len(box)
                BY <4>3
            <4>10. T + k + (Len(box) - k) <= Len(m)
                <5>1. T + k + (Len(box) - k) = T + Len(box)
                    BY <4>9
                <5> QED
                    BY <4>8, <5>1
            <4>11. \A i \in 1..k : buffer'[i] = m[T + i]
                <5>1. \A i \in 1..k : i \in 1..Len(box)
                    BY <4>9
                <5> QED
                    BY <4>4, <4>8, <5>1
            <4>12. \A i \in 1..Len(box) - k : inbox'[cur][i] = m[T + k + i]
                <5> SUFFICES ASSUME NEW i \in 1..Len(box) - k PROVE inbox'[cur][i] = m[T + k + i]
                    OBVIOUS
                <5>1. inbox'[cur][i] = m[T + (k + i)]
                    BY <4>4, <4>8
                <5>2. T + (k + i) = T + k + i
                    BY <4>9
                <5> QED
                    BY <5>1, <5>2
            <4>13. Follows(m)'
                BY <1>1, <4>4, <4>7, <4>10, <4>11, <4>12 DEF Follows
            <4>14. Parsed(m)'
                BY <3>2, <4>2 DEF Parsed
            <4> QED
                BY <4>13, <4>14
        <3>5. CASE AppendToken
            <4>1. /\ buffer # <<>> /\ cToken' = Append(cToken, Head(buffer)) /\ buffer' = Tail(buffer)
                  /\ UNCHANGED <<tokenNum, status, messageLen, inbox>>
                BY <3>5 DEF AppendToken, Parsing
            <4>2. /\ Len(cToken) \in Nat /\ Len(cToken') = Len(cToken) + 1
                  /\ cToken'[Len(cToken) + 1] = Head(buffer)
                  /\ \A i \in 1..Len(cToken) : cToken'[i] = cToken[i]
                BY <1>2, <4>1
            <4>3. Taken' = Taken + 1 /\ Taken + 1 = 2 * (tokenNum - 1) + (Len(cToken) + 1)
                BY <1>2, <4>1, <4>2 DEF Taken
            <4>4. Follows(m)' /\ m[Taken + 1] = Head(buffer)
                BY <1>1, <3>2, <4>1, <4>3, TakeOne DEF IInv
            <4>5. Parsed(m)'
                <5>1. \A i \in 1..Len(cToken') : i = Len(cToken) + 1 \/ i \in 1..Len(cToken)
                    BY <4>2
                <5>2. \A i \in 1..Len(cToken') : cToken'[i] = m[2 * (tokenNum - 1) + i]
                    BY <3>2, <4>2, <4>3, <4>4, <5>1 DEF Parsed
                <5> QED
                    BY <3>2, <4>1, <5>2 DEF Parsed
            <4> QED
                BY <4>4, <4>5
        <3>6. CASE ParseStatus
            <4>1. /\ buffer # <<>> /\ Head(buffer) = PIPE /\ buffer' = Tail(buffer) /\ cToken' = <<>>
                  /\ tokenNum = 1 /\ tokenNum' = 2 /\ cToken \in {<<"REG">>, <<"ERR">>}
                  /\ status' = cToken[1] /\ UNCHANGED inbox
                BY <3>6 DEF ParseStatus, AtPipe, Parsing
            <4>2. Len(cToken) = 1 /\ Len(cToken') = 0 /\ status' \in {"REG", "ERR"}
                BY <4>1
            <4>3. Taken = 1 /\ Taken' = 2 /\ Taken' = Taken + 1
                <5>1. Taken = 2 * (1 - 1) + 1 /\ Taken' = 2 * (2 - 1) + 0
                    BY <4>1, <4>2 DEF Taken
                <5> QED
                    BY <5>1
            <4>4. Follows(m)' /\ m[Taken + 1] = Head(buffer)
                BY <1>1, <3>2, <4>1, <4>3, TakeOne DEF IInv
            <4>5. m[1] = status' /\ m[2] = PIPE
                <5>1. cToken[1] = m[2 * (1 - 1) + 1]
                    BY <3>2, <4>1, <4>2 DEF Parsed
                <5> QED
                    BY <4>1, <4>3, <4>4, <5>1
            <4>6. Parsed(m)'
                BY <4>1, <4>2, <4>5 DEF Parsed
            <4> QED
                BY <4>4, <4>6
        <3>7. CASE ParseLength
            <4>1. /\ buffer # <<>> /\ Head(buffer) = PIPE /\ buffer' = Tail(buffer) /\ cToken' = <<>>
                  /\ tokenNum = 2 /\ tokenNum' = 3 /\ status = "REG" /\ IsNumber(cToken)
                  /\ messageLen' = strtol[cToken[1]] /\ UNCHANGED <<status, inbox>>
                BY <3>7 DEF ParseLength, AtPipe, Parsing
            <4>2. Len(cToken) = 1 /\ Len(cToken') = 0 /\ cToken[1] \in DOMAIN strtol
                BY <4>1 DEF IsNumber
            <4>3. Taken = 3 /\ Taken' = 4 /\ Taken' = Taken + 1
                <5>1. Taken = 2 * (2 - 1) + 1 /\ Taken' = 2 * (3 - 1) + 0
                    BY <4>1, <4>2 DEF Taken
                <5> QED
                    BY <5>1
            <4>4. Follows(m)' /\ m[Taken + 1] = Head(buffer)
                BY <1>1, <3>2, <4>1, <4>3, TakeOne DEF IInv
            <4>5. m[3] = cToken[1] /\ m[4] = PIPE /\ m[1] = "REG" /\ m[2] = PIPE
                <5>1. cToken[1] = m[2 * (2 - 1) + 1]
                    BY <3>2, <4>1, <4>2 DEF Parsed
                <5>2. m[1] = status /\ m[2] = PIPE
                    BY <3>2, <4>1 DEF Parsed
                <5> QED
                    BY <4>1, <4>3, <4>4, <5>1, <5>2
            <4>6. Parsed(m)'
                BY <4>1, <4>2, <4>5 DEF Parsed
            <4> QED
                BY <4>4, <4>6
        <3> QED
            BY <3>4, <3>5, <3>6, <3>7
    <2> QED
        BY <2>2, <2>4, <2>5, <2>6
<1> QED
    BY <1>3, <1>4, <1>5 DEF StreamInv

-----------------------------------------------------------------------------
(***************************************************************************)
(* What readSocket returns of a message.                                   *)
(***************************************************************************)
\* readSocket returns at a pipe, and only then.
LEMMA AtReturn ==
    ASSUME IInv, ParseError \/ ParseText \/ msgFormatError
    PROVE  /\ pc = "read" /\ pc' = "check" /\ buffer # <<>> /\ Head(buffer) = PIPE
           /\ UNCHANGED <<cur, msgNum, inbox, peer, link, sent, written, errors>>
           /\ buffer \in Seq(Symbols) /\ cToken \in Seq(Words) /\ tokenNum \in 1..3
           /\ Len(buffer) \in Nat /\ Len(buffer) >= 1
           /\ cur \in Clients /\ inbox[cur] \in Seq(Symbols) /\ Len(inbox[cur]) \in Nat
           /\ written[cur] \in 1..3 /\ msgNum = 2 * written[cur] - 1 /\ msgNum \in {1, 3, 5}
<1>1. /\ pc = "read" /\ pc' = "check" /\ buffer # <<>> /\ Head(buffer) = PIPE
      /\ UNCHANGED <<cur, msgNum, inbox, peer, link, sent, written, errors>>
    BY DEF ParseError, ParseText, msgFormatError, AtPipe, Parsing, Returned, history
<1>2. /\ cur \in Clients /\ written[cur] \in 0..3 /\ inbox[cur] \in Seq(Symbols)
      /\ buffer \in Seq(Symbols) /\ cToken \in Seq(Words) /\ tokenNum \in 1..3
    BY <1>1, CurrentTypes DEF Chatting
<1>3. Len(buffer) \in Nat /\ Len(buffer) >= 1
    <2>1. buffer \in Seq(Symbols)
        BY <1>2
    <2> QED
        BY <1>1, <2>1
<1>4. Len(inbox[cur]) \in Nat
    BY <1>2
<1>5. written[cur] >= 1 /\ msgNum = 2 * written[cur] - 1
    BY <1>1 DEF IInv, ChatInv
<1>6. written[cur] \in 1..3
    BY <1>2, <1>5
<1>7. msgNum \in {1, 3, 5}
    BY <1>5, <1>6
<1> QED
    BY <1>1, <1>2, <1>3, <1>4, <1>5, <1>6, <1>7

\* Of a good message it returns the text, however it was divided.
LEMMA GoodMessage ==
    ASSUME IInv, NEW m \in Seq(Symbols), Parsed(m), Follows(m), Acceptable(msgNum, m),
           ParseError \/ ParseText \/ msgFormatError
    PROVE  \A e \in Codes(0..5) : resp' # <<e>>
<1>1. Len(m) = 6 /\ Fields(msgNum, m)
    BY AcceptableFields
<1>2. /\ buffer # <<>> /\ Head(buffer) = PIPE /\ tokenNum \in 1..3 /\ Typed
      /\ Len(buffer) \in Nat /\ Len(buffer) >= 1 /\ Len(inbox[cur]) \in Nat /\ msgNum \in {1, 3, 5}
    BY AtReturn DEF IInv
<1>3. m[2 * tokenNum - 1] \in Words /\ m[2 * tokenNum] = PIPE
    <2>1. m[1] \in Words /\ m[3] \in Words /\ m[5] \in Words
        BY <1>1, KKJAssumption DEF Fields, Words
    <2>2. CASE tokenNum = 1
        BY <1>1, <2>1, <2>2 DEF Fields
    <2>3. CASE tokenNum = 2
        BY <1>1, <2>1, <2>3 DEF Fields
    <2>4. CASE tokenNum = 3
        BY <1>1, <2>1, <2>4 DEF Fields
    <2> QED
        BY <1>2, <2>2, <2>3, <2>4
<1>4. cToken = <<m[2 * tokenNum - 1]>> /\ Len(cToken) = 1
    BY <1>2, <1>3, Field
<1>5. tokenNum = 1 => cToken = <<"REG">>
    <2>1. tokenNum = 1 => 2 * tokenNum - 1 = 1
        OBVIOUS
    <2> QED
        BY <1>1, <1>4, <2>1 DEF Fields
<1>6. tokenNum = 2 => status = "REG" /\ IsNumber(cToken)
    <2>1. tokenNum = 2 => 2 * tokenNum - 1 = 3 /\ tokenNum >= 2
        OBVIOUS
    <2>2. tokenNum = 2 => cToken[1] = m[3]
        BY <1>4, <2>1
    <2> QED
        BY <1>1, <1>4, <2>1, <2>2 DEF Fields, Parsed, IsNumber
<1>7. tokenNum = 3 => cToken = <<m[5]>> /\ messageLen = strtol[m[3]] /\ ~(Len(buffer) > 1)
    <2> SUFFICES ASSUME tokenNum = 3
                 PROVE  cToken = <<m[5]>> /\ messageLen = strtol[m[3]] /\ ~(Len(buffer) > 1)
        OBVIOUS
    <2>1. 2 * tokenNum - 1 = 5 /\ Taken = 5
        <3>1. Taken = 2 * (3 - 1) + 1
            BY <1>4 DEF Taken
        <3> QED
            BY <3>1
    <2>2. 5 + Len(buffer) + Len(inbox[cur]) <= 6
        BY <1>1, <2>1 DEF Follows
    <2>3. ~(Len(buffer) > 1)
        <3>1. \A b, i \in Nat : 5 + b + i <= 6 => ~(b > 1)
            OBVIOUS
        <3> QED
            BY <1>2, <2>2, <3>1
    <2> QED
        BY <1>4, <2>1, <2>3 DEF Parsed
<1>8. ~Malformed
    BY <1>2, <1>5, <1>6, <1>7 DEF Malformed
<1>9. ParseText /\ tokenNum = 3
    <2>1. ~msgFormatError
        BY <1>8 DEF msgFormatError
    <2>2. ~ParseError
        BY <1>6 DEF ParseError, AtPipe
    <2> QED
        BY <2>1, <2>2 DEF ParseText, AtPipe
<1>10. cToken = <<m[5]>> /\ cToken # <<>> /\ cToken[Len(cToken)] = m[5]
    BY <1>4, <1>7, <1>9
<1>11. Length(cToken) = strlen[m[5]] /\ strlen[m[5]] = strtol[m[3]]
    <2>1. Length(<<m[5]>>) = 0 + strlen[m[5]] /\ strlen[m[5]] \in Nat
        BY <1>1, LengthOfWord, KKJAssumption DEF Fields, Words
    <2>2. 0 + strlen[m[5]] = strlen[m[5]]
        BY <2>1
    <2> QED
        BY <1>1, <1>10, <2>1, <2>2 DEF Fields
<1>12. ~WrongLength(cToken)
    <2>1. Length(cToken) = messageLen
        BY <1>7, <1>9, <1>11
    <2>2. msgNum = 1 => Length(cToken) = 12
        BY <1>1, <1>11, KKJAssumption DEF Fields
    <2>3. msgNum = 3 => Length(cToken) = strlen[SetupWho]
        BY <1>1, <1>11 DEF Fields
    <2> QED
        BY <2>1, <2>2, <2>3 DEF WrongLength
<1>13. ~WrongContent(cToken)
    <2>1. Last(cToken) = m[5]
        BY <1>10 DEF Last
    <2> QED
        BY <1>1, <1>10, <2>1 DEF WrongContent, Fields
<1>14. resp' = cToken
    BY <1>9, <1>10, <1>12, <1>13 DEF ParseText, checkErrorCode, Returned
<1>15. m[5] \notin Codes(0..5)
    BY <1>1, <1>2, CodesDivide DEF Fields
<1>16. \A e : <<m[5]>> = <<e>> => m[5] = e
    OBVIOUS
<1> QED
    BY <1>10, <1>14, <1>15, <1>16

\* A text that is let pass is the right one, and nothing is left of a message that is whole
\* but the surplus pipe.
LEMMA TextAnswer ==
    ASSUME IInv, NEW m \in Seq(Symbols), Parsed(m), Follows(m), msgNum # 5, ParseText,
           \A e \in Codes(0..5) : resp' # <<e>>
    PROVE  /\ Answers(msgNum, m)
           /\ Whole(msgNum, m) =>
                 inbox[cur] = <<>> \/ (inbox[cur] = <<PIPE>> /\ ~Acceptable(msgNum, m))
<1>1. /\ buffer # <<>> /\ Head(buffer) = PIPE /\ tokenNum = 3 /\ ~Malformed
      /\ buffer \in Seq(Symbols) /\ cToken \in Seq(Words)
      /\ Len(buffer) \in Nat /\ Len(buffer) >= 1
      /\ inbox[cur] \in Seq(Symbols) /\ Len(inbox[cur]) \in Nat /\ msgNum \in {1, 3}
    BY AtReturn DEF ParseText, AtPipe
<1>2. Len(buffer) = 1
    <2>1. ~(Len(buffer) > 1)
        BY <1>1 DEF Malformed
    <2>2. \A b \in Nat : b >= 1 /\ ~(b > 1) => b = 1
        OBVIOUS
    <2> QED
        BY <1>1, <2>1, <2>2
<1>3. ~WrongLength(cToken) /\ ~WrongContent(cToken)
    <2>1. PICK e \in checkErrorCode(cToken) : resp' = IF e = "" THEN cToken ELSE <<e>>
        BY DEF ParseText, Returned
    <2>2. \A what \in {"CT", "LN", "FT"} : errorCode(msgNum, what) \in Codes(0..5)
        <3>1. msgNum \in 0..5
            BY <1>1
        <3> QED
            BY <3>1 DEF Codes
    <2>3. e = ""
        <3>1. e = "" \/ e \in Codes(0..5)
            BY <2>2 DEF checkErrorCode
        <3> QED
            BY <2>1, <3>1
    <2>4. errorCode(msgNum, "LN") # "" /\ errorCode(msgNum, "CT") # ""
        BY <2>2, CodesDivide
    <2> QED
        BY <2>1, <2>3, <2>4 DEF checkErrorCode
<1>4. /\ m[1] = "REG" /\ m[2] = PIPE /\ m[4] = PIPE /\ m[3] \in DOMAIN strtol
      /\ messageLen = strtol[m[3]]
    <2>1. tokenNum >= 2
        BY <1>1
    <2> QED
        BY <1>1, <2>1 DEF Parsed
<1>5. PICK t \in Words : /\ cToken = <<t>> /\ (msgNum = 1 => t = WhosThere)
                         /\ (msgNum = 3 => t = SetupWho)
    <2>1. msgNum = 1 => cToken = <<WhosThere>>
        BY <1>3 DEF WrongContent
    <2>2. msgNum = 3 => cToken = <<SetupWho>>
        BY <1>3 DEF WrongContent
    <2>3. \A t : cToken = <<t>> => t \in Words
        <3> SUFFICES ASSUME NEW t, cToken = <<t>> PROVE t \in Words
            OBVIOUS
        <3>1. Len(cToken) = 1 /\ cToken[1] = t
            OBVIOUS
        <3> QED
            BY <1>1, <3>1
    <2> QED
        BY <1>1, <2>1, <2>2, <2>3
<1>6. Len(cToken) = 1 /\ cToken[1] = t
    BY <1>5
<1>7. Taken = 5
    <2>1. Taken = 2 * (3 - 1) + 1
        BY <1>1, <1>6 DEF Taken
    <2> QED
        BY <2>1
<1>8. m[5] = t
    <2>1. cToken[1] = m[2 * (3 - 1) + 1]
        BY <1>1, <1>6 DEF Parsed
    <2> QED
        BY <1>6, <2>1
<1>9. m[6] = PIPE
    <2>1. 1 \in 1..Len(buffer) /\ buffer[1] = PIPE
        BY <1>1, <1>2
    <2>2. buffer[1] = m[5 + 1]
        BY <1>7, <2>1 DEF Follows
    <2> QED
        BY <2>1, <2>2
<1>10. 6 + Len(inbox[cur]) <= Len(m) /\ Len(m) \in Nat /\ Len(m) >= 6
    <2>1. 5 + 1 + Len(inbox[cur]) <= Len(m)
        BY <1>2, <1>7 DEF Follows
    <2>2. Len(m) \in Nat
        OBVIOUS
    <2> QED
        BY <1>1, <2>1, <2>2
<1>11. strtol[m[3]] = strlen[m[5]]
    <2>1. Length(cToken) = messageLen
        BY <1>3 DEF WrongLength
    <2>2. Length(<<t>>) = 0 + strlen[t] /\ strlen[t] \in Nat
        BY LengthOfWord, KKJAssumption DEF Words
    <2>3. 0 + strlen[t] = strlen[t]
        BY <2>2
    <2> QED
        BY <1>4, <1>5, <1>8, <2>1, <2>2, <2>3
<1>12. Answers(msgNum, m)
    <2>1. PICK h \in Seq(Symbols) : h = SubSeq(m, 1, 6)
        <3>1. \A i \in 1..6 : i \in 1..Len(m)
            BY <1>10
        <3>2. SubSeq(m, 1, 6) \in Seq(Symbols)
            BY <3>1, SubSeqProperties
        <3> QED
            BY <3>2
    <2>2. Len(h) = 6 /\ \A i \in 1..6 : h[i] = m[i]
        BY <1>10, <2>1
    <2>3. h[1] = m[1] /\ h[2] = m[2] /\ h[3] = m[3] /\ h[4] = m[4] /\ h[5] = m[5] /\ h[6] = m[6]
        BY <2>2
    <2>4. Fields(msgNum, h)
        BY <1>1, <1>4, <1>5, <1>8, <1>9, <1>11, <2>3 DEF Fields
    <2>5. Acceptable(msgNum, h)
        BY <2>2, <2>4, AcceptableFields
    <2> QED
        BY <1>10, <2>1, <2>5 DEF Answers
<1>13. ASSUME Whole(msgNum, m)
       PROVE  inbox[cur] = <<>> \/ (inbox[cur] = <<PIPE>> /\ ~Acceptable(msgNum, m))
    <2>1. PICK box \in Seq(Symbols) : box = inbox[cur]
        BY <1>1
    <2>2. Len(box) \in Nat /\ 6 + Len(box) <= Len(m)
        BY <1>10, <2>1
    <2>3. CASE Acceptable(msgNum, m)
        <3>1. Len(m) = 6
            BY <2>3, AcceptableFields
        <3>2. Len(box) = 0
            BY <2>2, <3>1
        <3> QED
            BY <2>1, <3>2
    <2>4. CASE Surplus(msgNum, m)
        <3>1. Len(m) = 7 /\ m[7] = PIPE
            BY <2>4, SurplusFields
        <3>2. ~Acceptable(msgNum, m)
            <4>1. Acceptable(msgNum, m) => Len(m) = 6
                BY AcceptableFields
            <4>2. Len(m) # 6
                BY <3>1
            <4> QED
                BY <4>1, <4>2
        <3>3. Len(box) = 0 \/ Len(box) = 1
            <4>1. \A b \in Nat : 6 + b <= 7 => b = 0 \/ b = 1
                OBVIOUS
            <4> QED
                BY <2>2, <3>1, <4>1
        <3>4. Len(box) = 1 => box[1] = PIPE
            <4>1. Len(box) = 1 => 1 \in 1..Len(inbox[cur])
                BY <2>1
            <4>2. Len(box) = 1 => inbox[cur][1] = m[5 + 1 + 1]
                BY <1>2, <1>7, <4>1 DEF Follows
            <4> QED
                BY <2>1, <3>1, <4>2
        <3>5. Len(box) = 0 => box = <<>>
            OBVIOUS
        <3>6. Len(box) = 1 => box = <<box[1]>>
            OBVIOUS
        <3> QED
            BY <2>1, <3>2, <3>3, <3>4, <3>5, <3>6
    <2>5. ~UnknownError(m)
        BY <1>4 DEF UnknownError
    <2> QED
        BY <1>13, <2>3, <2>4, <2>5 DEF Whole
<1> QED
    BY <1>12, <1>13

\* An error message that checkError does not know is let pass as well, and nothing is left
\* of it when it is whole.
LEMMA ErrorAnswer ==
    ASSUME IInv, NEW m \in Seq(Symbols), Parsed(m), Follows(m), ParseError,
           \A e \in Codes(0..5) : resp' # <<e>>
    PROVE  /\ Answers(msgNum, m)
           /\ Whole(msgNum, m) => inbox[cur] = <<>>
<1>1. /\ buffer # <<>> /\ Head(buffer) = PIPE /\ tokenNum = 2 /\ status = "ERR" /\ resp' = cToken
      /\ buffer \in Seq(Symbols) /\ cToken \in Seq(Words) /\ Typed
      /\ Len(buffer) \in Nat /\ Len(buffer) >= 1
      /\ inbox[cur] \in Seq(Symbols) /\ Len(inbox[cur]) \in Nat
    BY AtReturn DEF ParseError, AtPipe, Returned, IInv
<1>2. m[1] = "ERR" /\ m[2] = PIPE
    <2>1. tokenNum >= 2
        BY <1>1
    <2> QED
        BY <1>1, <2>1 DEF Parsed
<1>3. PICK p \in Nat : p = Len(cToken)
    BY <1>1
<1>4. Taken = p + 2
    <2>1. Taken = 2 * (2 - 1) + p
        BY <1>1, <1>3 DEF Taken
    <2> QED
        BY <1>3, <2>1
<1>5. \A i \in 1..p : cToken[i] = m[2 + i] /\ cToken[i] \in Words
    <2>1. \A i \in 1..p : cToken[i] = m[2 * (2 - 1) + i]
        BY <1>1, <1>3 DEF Parsed
    <2>2. \A i \in 1..p : 2 * (2 - 1) + i = 2 + i
        OBVIOUS
    <2> QED
        BY <1>1, <1>3, <2>1, <2>2
<1>6. m[p + 3] = PIPE
    <2>1. 1 \in 1..Len(buffer) /\ buffer[1] = PIPE
        BY <1>1
    <2>2. buffer[1] = m[p + 2 + 1]
        BY <1>4, <2>1 DEF Follows
    <2>3. p + 2 + 1 = p + 3
        BY <1>3
    <2> QED
        BY <2>1, <2>2, <2>3
<1>7. p + 2 + Len(buffer) + Len(inbox[cur]) <= Len(m) /\ Len(m) \in Nat
    <2>1. Len(m) \in Nat
        OBVIOUS
    <2>2. Taken + Len(buffer) + Len(inbox[cur]) <= Len(m)
        BY DEF Follows
    <2> QED
        BY <1>4, <2>1, <2>2
<1>8. p + 3 \in 3..Len(m)
    <2>1. \A l, b, i \in Nat : b >= 1 /\ p + 2 + b + i <= l => p + 3 \in 3..l
        BY <1>3
    <2> QED
        BY <1>1, <1>7, <2>1
<1>9. PIPE \notin Words
    BY KKJAssumption DEF Words
<1>10. \A i \in 3..(p + 3) - 1 : m[i] = cToken[i - 2] /\ m[i] # PIPE
    <2> SUFFICES ASSUME NEW i \in 3..(p + 3) - 1 PROVE m[i] = cToken[i - 2] /\ m[i] # PIPE
        OBVIOUS
    <2>1. i - 2 \in 1..p /\ 2 + (i - 2) = i
        BY <1>3
    <2> QED
        BY <1>5, <1>9, <2>1
<1>11. SubSeq(m, 3, (p + 3) - 1) = cToken
    <2> DEFINE s == SubSeq(m, 3, (p + 3) - 1)
    <2>1. /\ s \in Seq(Words)
          /\ Len(s) = IF 3 <= (p + 3) - 1 THEN (p + 3) - 1 - 3 + 1 ELSE 0
          /\ \A i \in 1..(p + 3) - 1 - 3 + 1 : s[i] = m[3 + i - 1]
        <3>1. \A i \in 3..(p + 3) - 1 : m[i] \in Words
            <4> SUFFICES ASSUME NEW i \in 3..(p + 3) - 1 PROVE m[i] \in Words
                OBVIOUS
            <4>1. i - 2 \in 1..p
                BY <1>3
            <4> QED
                BY <1>5, <1>10, <4>1
        <3>2. 3 \in Int /\ (p + 3) - 1 \in Int
            BY <1>3
        <3> QED
            BY <3>1, <3>2, SubSeqProperties
    <2> HIDE DEF s
    <2>2. Len(s) = p
        BY <1>3, <2>1
    <2>3. \A i \in 1..p : s[i] = cToken[i]
        <3> SUFFICES ASSUME NEW i \in 1..p PROVE s[i] = cToken[i]
            OBVIOUS
        <3>1. i \in 1..(p + 3) - 1 - 3 + 1 /\ 3 + i - 1 = 2 + i
            BY <1>3
        <3> QED
            BY <1>5, <2>1, <3>1
    <2>4. s = cToken
        BY <1>1, <1>3, <2>1, <2>2, <2>3, SeqEqual
    <2> QED
        BY <2>4 DEF s
<1>12. Answers(msgNum, m)
    <2>1. \A e \in Codes(0..5) : SubSeq(m, 3, (p + 3) - 1) # <<e>>
        BY <1>1, <1>11
    <2> QED
        BY <1>2, <1>6, <1>8, <1>10, <2>1 DEF Answers
<1>13. ASSUME Whole(msgNum, m) PROVE inbox[cur] = <<>>
    <2>1. ~Acceptable(msgNum, m) /\ ~Surplus(msgNum, m)
        <3>1. m[1] # "REG"
            BY <1>2
        <3> QED
            BY <3>1, AcceptableFields, SurplusFields DEF Fields
    <2>2. Len(m) = 4 /\ m[4] = PIPE /\ m[3] # PIPE
        BY <1>13, <2>1 DEF Whole, UnknownError
    <2>3. m[3] \in Words
        <3>1. 3 \in 1..Len(m)
            BY <2>2
        <3>2. m[3] \in Symbols
            BY <3>1
        <3> QED
            BY <2>2, <3>2 DEF Symbols
    <2>4. Len(cToken) = 1
        <3>1. 2 * tokenNum - 1 = 3 /\ 2 * tokenNum = 4
            BY <1>1
        <3> QED
            BY <1>1, <2>2, <2>3, <3>1, Field
    <2>5. Len(inbox[cur]) = 0
        <3>1. \A b, i \in Nat : b >= 1 /\ 1 + 2 + b + i <= 4 => i = 0
            OBVIOUS
        <3>2. 1 + 2 + Len(buffer) + Len(inbox[cur]) <= 4
            BY <1>3, <1>7, <2>2, <2>4
        <3> QED
            BY <1>1, <3>1, <3>2
    <2>6. \A s \in Seq(Symbols) : Len(s) = 0 => s = <<>>
        OBVIOUS
    <2> QED
        BY <1>1, <2>5, <2>6
<1> QED
    BY <1>12, <1>13

\* The text that is let pass after the punch line ends with punctuation, or is empty.
LEMMA PunchAnswer ==
    ASSUME IInv, NEW m \in Seq(Symbols), Parsed(m), Follows(m), msgNum = 5, ParseText,
           \A e \in Codes(0..5) : resp' # <<e>>
    PROVE  Answers(msgNum, m)
<1>1. /\ buffer # <<>> /\ Head(buffer) = PIPE /\ tokenNum = 3
      /\ buffer \in Seq(Symbols) /\ cToken \in Seq(Words)
      /\ Len(buffer) \in Nat /\ Len(buffer) >= 1
      /\ inbox[cur] \in Seq(Symbols) /\ Len(inbox[cur]) \in Nat
    BY AtReturn DEF ParseText, AtPipe
<1>2. ~WrongLength(cToken) /\ ~WrongContent(cToken)
    <2>1. PICK e \in checkErrorCode(cToken) : resp' = IF e = "" THEN cToken ELSE <<e>>
        BY DEF ParseText, Returned
    <2>2. \A what \in {"CT", "LN", "FT"} : errorCode(msgNum, what) \in Codes(0..5)
        <3>1. msgNum \in 0..5
            OBVIOUS
        <3> QED
            BY <3>1 DEF Codes
    <2>3. e = ""
        <3>1. e = "" \/ e \in Codes(0..5)
            BY <2>2 DEF checkErrorCode
        <3> QED
            BY <2>1, <3>1
    <2>4. errorCode(msgNum, "LN") # "" /\ errorCode(msgNum, "CT") # ""
        BY <2>2, CodesDivide
    <2> QED
        BY <2>1, <2>3, <2>4 DEF checkErrorCode
<1>3. /\ m[1] = "REG" /\ m[2] = PIPE /\ m[4] = PIPE /\ m[3] \in DOMAIN strtol
      /\ messageLen = strtol[m[3]]
    <2>1. tokenNum >= 2
        BY <1>1
    <2> QED
        BY <1>1, <2>1 DEF Parsed
<1>4. PICK p \in Nat : p = Len(cToken)
    BY <1>1
<1>5. Taken = p + 4
    <2>1. Taken = 2 * (3 - 1) + p
        BY <1>1, <1>4 DEF Taken
    <2> QED
        BY <1>4, <2>1
<1>6. \A i \in 1..p : cToken[i] = m[4 + i] /\ cToken[i] \in Words
    <2>1. \A i \in 1..p : cToken[i] = m[2 * (3 - 1) + i]
        BY <1>1, <1>4 DEF Parsed
    <2>2. \A i \in 1..p : 2 * (3 - 1) + i = 4 + i
        OBVIOUS
    <2> QED
        BY <1>1, <1>4, <2>1, <2>2
<1>7. m[p + 5] = PIPE
    <2>1. 1 \in 1..Len(buffer) /\ buffer[1] = PIPE
        BY <1>1
    <2>2. buffer[1] = m[p + 4 + 1]
        BY <1>5, <2>1 DEF Follows
    <2>3. p + 4 + 1 = p + 5
        BY <1>4
    <2> QED
        BY <2>1, <2>2, <2>3
<1>8. p + 5 \in 5..Len(m)
    <2>1. Len(m) \in Nat
        OBVIOUS
    <2>2. p + 4 + Len(buffer) + Len(inbox[cur]) <= Len(m)
        BY <1>5 DEF Follows
    <2>3. \A l, b, i \in Nat : b >= 1 /\ p + 4 + b + i <= l => p + 5 \in 5..l
        BY <1>4
    <2> QED
        BY <1>1, <2>1, <2>2, <2>3
<1>9. PIPE \notin Words
    BY KKJAssumption DEF Words
<1>10. \A i \in 5..(p + 5) - 1 : m[i] = cToken[i - 4] /\ m[i] \in Words /\ m[i] # PIPE
    <2> SUFFICES ASSUME NEW i \in 5..(p + 5) - 1
                 PROVE  m[i] = cToken[i - 4] /\ m[i] \in Words /\ m[i] # PIPE
        OBVIOUS
    <2>1. i - 4 \in 1..p /\ 4 + (i - 4) = i
        BY <1>4
    <2> QED
        BY <1>6, <1>9, <2>1
<1>11. SubSeq(m, 5, (p + 5) - 1) = cToken
    <2> DEFINE s == SubSeq(m, 5, (p + 5) - 1)
    <2>1. /\ s \in Seq(Words)
          /\ Len(s) = IF 5 <= (p + 5) - 1 THEN (p + 5) - 1 - 5 + 1 ELSE 0
          /\ \A i \in 1..(p + 5) - 1 - 5 + 1 : s[i] = m[5 + i - 1]
        <3>1. \A i \in 5..(p + 5) - 1 : m[i] \in Words
            BY <1>10
        <3>2. 5 \in Int /\ (p + 5) - 1 \in Int
            BY <1>4
        <3> QED
            BY <3>1, <3>2, SubSeqProperties
    <2> HIDE DEF s
    <2>2. Len(s) = p
        BY <1>4, <2>1
    <2>3. \A i \in 1..p : s[i] = cToken[i]
        <3> SUFFICES ASSUME NEW i \in 1..p PROVE s[i] = cToken[i]
            OBVIOUS
        <3>1. i \in 1..(p + 5) - 1 - 5 + 1 /\ 5 + i - 1 = 4 + i
            BY <1>4
        <3> QED
            BY <1>6, <2>1, <3>1
    <2>4. s = cToken
        BY <1>1, <1>4, <2>1, <2>2, <2>3, SeqEqual
    <2> QED
        BY <2>4 DEF s
<1>12. Length(SubSeq(m, 5, (p + 5) - 1)) = strtol[m[3]]
    BY <1>2, <1>3, <1>11 DEF WrongLength
<1>13. p + 5 > 5 => m[(p + 5) - 1] \in Punctuated
    <2> SUFFICES ASSUME p + 5 > 5 PROVE m[(p + 5) - 1] \in Punctuated
        OBVIOUS
    <2>1. p > 0 /\ p \in 1..p /\ (p + 5) - 1 = 4 + p
        BY <1>4
    <2>2. cToken # <<>>
        BY <1>4, <2>1
    <2>3. cToken[p] \in Punctuated
        BY <1>2, <1>4, <2>2 DEF WrongContent, Last
    <2> QED
        BY <1>6, <2>1, <2>3
<1> QED
    BY <1>3, <1>7, <1>8, <1>10, <1>12, <1>13 DEF Answers, AnswersPunch

\* What comes in after a surplus pipe is refused.
LEMMA JammedReturn ==
    ASSUME IInv, Between, ParseError \/ ParseText \/ msgFormatError
    PROVE  \E e \in Codes(0..5) : resp' = <<e>>
<1>1. msgFormatError
    <2>1. tokenNum = 1
        BY DEF Between
    <2> QED
        BY <2>1 DEF ParseError, ParseText, AtPipe
<1>2. msgNum \in 0..5
    BY DEF IInv, Typed
<1>3. errorCode(msgNum, "FT") \in Codes(0..5)
    BY <1>2 DEF Codes
<1> QED
    BY <1>1, <1>3 DEF msgFormatError, Returned

\* readSocket returns, and chatWithClient is about to check the answer.
LEMMA ReturnStream ==
    ASSUME IInv, StreamInv, ParseError \/ ParseText \/ msgFormatError PROVE StreamInv'
<1> DEFINE w == written[cur]
<1>1. /\ pc = "read" /\ pc' = "check" /\ buffer # <<>>
      /\ UNCHANGED <<cur, inbox, peer, link, sent, written, errors>>
      /\ cur \in Clients /\ w \in 1..3 /\ msgNum = 2 * w - 1 /\ Typed
    BY AtReturn DEF IInv
<1>2. LinkInv' /\ EarnedInv' /\ RefusedInv'
    BY <1>1, SaidSame DEF StreamInv, LinkInv, EarnedInv, RefusedInv
<1>3. AtWrite' /\ AtRead'
    BY <1>1 DEF AtWrite, AtRead
<1>4. /\ Tells(0..5)' <=> \E e \in Codes(0..5) : resp' = <<e>>
      /\ Compliant(cur)' <=> Compliant(cur)
      /\ \A n : WholeUpTo(cur, n)' <=> WholeUpTo(cur, n)
      /\ Left' <=> Left
      /\ written'[cur'] = w
    BY <1>1 DEF Tells, Compliant, WholeUpTo, Left
<1>5. sent[cur] \in Seq(Seq(Symbols))
    BY <1>1, CurrentTypes DEF Chatting
<1>6. ASSUME Within
      PROVE  \E m \in Seq(Symbols) :
                /\ m = sent[cur][w] /\ Parsed(m) /\ Follows(m) /\ w \in DOMAIN sent[cur]
                /\ Len(sent[cur]) = w
    <2>1. w \in DOMAIN sent[cur] /\ Len(sent[cur]) = w
        BY <1>1, <1>5, <1>6 DEF Within
    <2>2. sent[cur][w] \in Seq(Symbols)
        BY <1>5, <2>1
    <2> QED
        BY <1>6, <2>1, <2>2 DEF Within
<1>7. WholeUpTo(cur, w - 1) => Jammed \/ Within
    <2>1. WholeUpTo(cur, w - 1) => Idle \/ Jammed \/ Within
        BY <1>1 DEF StreamInv, AtRead
    <2> QED
        BY <1>1, <2>1 DEF Idle
<1> HIDE DEF w
<1>8. w - 1 \in Nat
    BY <1>1
<1>9. ASSUME \E e \in Codes(0..5) : resp' = <<e>>, Compliant(cur) PROVE FALSE
    <2>1. WholeUpTo(cur, w - 1)
        BY <1>1, <1>8, <1>9, NotWhole
    <2>2. ~Jammed
        BY <1>9 DEF Jammed
    <2>3. PICK m \in Seq(Symbols) : /\ m = sent[cur][w] /\ Parsed(m) /\ Follows(m)
                                    /\ w \in DOMAIN sent[cur]
        BY <1>6, <1>7, <2>1, <2>2
    <2>4. Acceptable(msgNum, m)
        BY <1>1, <1>9, <2>3 DEF Compliant
    <2> QED
        BY <1>9, <2>3, <2>4, GoodMessage
<1>10. ASSUME \A e \in Codes(0..5) : resp' # <<e>>, WholeUpTo(cur, w - 1)
       PROVE  /\ w <= Len(sent[cur]) /\ Answers(2 * w - 1, sent[cur][w])
              /\ w <= 2 /\ Whole(2 * w - 1, sent[cur][w]) => Left
    <2>1. ~Jammed
        BY <1>10, JammedReturn DEF Jammed
    <2>2. PICK m \in Seq(Symbols) : /\ m = sent[cur][w] /\ Parsed(m) /\ Follows(m)
                                    /\ w \in DOMAIN sent[cur] /\ Len(sent[cur]) = w
        BY <1>6, <1>7, <1>10, <2>1
    <2>3. msgNum # 5 <=> w <= 2
        BY <1>1
    <2>4. ~msgFormatError
        <3>1. msgNum \in 0..5
            BY <1>1 DEF Typed
        <3>2. errorCode(msgNum, "FT") \in Codes(0..5)
            BY <3>1 DEF Codes
        <3> QED
            BY <1>10, <3>2 DEF msgFormatError, Returned
    <2>5. /\ Answers(msgNum, m)
          /\ msgNum # 5 /\ Whole(msgNum, m) =>
                inbox[cur] = <<>> \/ (inbox[cur] = <<PIPE>> /\ ~Acceptable(msgNum, m))
        <3>1. CASE msgNum = 5 /\ ParseText
            BY <1>10, <2>2, <3>1, PunchAnswer
        <3>2. CASE msgNum # 5 /\ ParseText
            BY <1>10, <2>2, <3>2, TextAnswer
        <3>3. CASE ParseError
            BY <1>10, <2>2, <3>3, ErrorAnswer
        <3> QED
            BY <2>4, <3>1, <3>2, <3>3
    <2>6. ~Acceptable(msgNum, m) => ~Compliant(cur)
        BY <1>1, <2>2 DEF Compliant
    <2>7. w <= Len(sent[cur])
        BY <1>1, <2>2
    <2> QED
        BY <1>1, <2>2, <2>3, <2>5, <2>6, <2>7 DEF Left
<1>11. ASSUME \A e \in Codes(0..5) : resp' # <<e>>
       PROVE  Earned(cur, w) /\ (w <= 2 /\ WholeUpTo(cur, w) => Left)
    <2>1. WholeUpTo(cur, w) => WholeUpTo(cur, w - 1) /\ (w <= Len(sent[cur]) => Whole(2*w - 1, sent[cur][w]))
        <3>1. w \in 1..w /\ \A j \in 1..w - 1 : j \in 1..w
            BY <1>1
        <3> QED
            BY <3>1 DEF WholeUpTo
    <2> QED
        BY <1>10, <1>11, <2>1 DEF Earned
<1>12. AtCheck'
    <2>1. Earned(cur, written[cur])' <=> Earned(cur, w)
        BY <1>1, <1>4 DEF Earned, WholeUpTo
    <2>2. WholeUpTo(cur, written[cur])' <=> WholeUpTo(cur, w)
        BY <1>1, <1>4 DEF WholeUpTo
    <2> QED
        BY <1>4, <1>9, <1>11, <2>1, <2>2 DEF AtCheck
<1> QED
    BY <1>2, <1>3, <1>12 DEF StreamInv

\* What is wrong with what has been said stays so, and what was earned stays earned.
LEMMA SaidMore ==
    ASSUME Typed, NEW d \in Clients, NEW m, sent' = [sent EXCEPT ![d] = Append(@, m)],
           NEW c \in Clients
    PROVE  /\ ~Compliant(c) => ~Compliant(c)'
           /\ \A n \in Nat : WholeUpTo(c, n)' => WholeUpTo(c, n)
           /\ \A k \in Nat \ {0} : Earned(c, k) => Earned(c, k)'
           /\ c # d => sent'[c] = sent[c]
           /\ Len(sent[c]) \in Nat /\ Len(sent'[d]) = Len(sent[d]) + 1
           /\ sent'[d][Len(sent[d]) + 1] = m
<1>1. sent \in [Clients -> Seq(Seq(Symbols))]
    BY DEF Typed
<1>2. /\ Len(sent[c]) \in Nat /\ Len(sent[d]) \in Nat
      /\ DOMAIN sent[c] = 1..Len(sent[c]) /\ DOMAIN sent[d] = 1..Len(sent[d])
    <2>1. sent[c] \in Seq(Seq(Symbols)) /\ sent[d] \in Seq(Seq(Symbols))
        BY <1>1
    <2> QED
        BY <2>1
<1>3. /\ c # d => sent'[c] = sent[c]
      /\ Len(sent'[d]) = Len(sent[d]) + 1 /\ DOMAIN sent'[d] = 1..Len(sent[d]) + 1
      /\ sent'[d][Len(sent[d]) + 1] = m
      /\ \A j \in 1..Len(sent[d]) : sent'[d][j] = sent[d][j]
    <2>1. PICK s \in Seq(Seq(Symbols)) : s = sent[d]
        BY <1>1
    <2>2. sent'[d] = Append(s, m) /\ (c # d => sent'[c] = sent[c])
        BY <1>1, <2>1
    <2> QED
        BY <2>1, <2>2
<1>4. /\ Len(sent[c]) <= Len(sent'[c]) /\ Len(sent'[c]) \in Nat
      /\ DOMAIN sent'[c] = 1..Len(sent'[c])
      /\ \A j \in 1..Len(sent[c]) : sent'[c][j] = sent[c][j]
    <2>1. CASE c = d
        BY <1>2, <1>3, <2>1
    <2>2. CASE c # d
        BY <1>2, <1>3, <2>2
    <2> QED
        BY <2>1, <2>2
<1>5. \A j \in 1..Len(sent[c]) : j \in 1..Len(sent'[c])
    BY <1>2, <1>4
<1>6. ~Compliant(c) => ~Compliant(c)'
    BY <1>2, <1>4, <1>5 DEF Compliant
<1>7. ASSUME NEW n \in Nat, WholeUpTo(c, n)' PROVE WholeUpTo(c, n)
    <2> SUFFICES ASSUME NEW j \in 1..n, j <= Len(sent[c]) PROVE Whole(2*j - 1, sent[c][j])
        BY DEF WholeUpTo
    <2>1. j \in 1..Len(sent[c]) /\ j <= Len(sent'[c])
        BY <1>2, <1>4
    <2>2. Whole(2*j - 1, sent'[c][j])
        BY <1>7, <2>1 DEF WholeUpTo
    <2> QED
        BY <1>4, <2>1, <2>2
<1>8. ASSUME NEW k \in Nat \ {0}, Earned(c, k) PROVE Earned(c, k)'
    <2> SUFFICES ASSUME WholeUpTo(c, k - 1)'
                 PROVE  k <= Len(sent'[c]) /\ Answers(2*k - 1, sent'[c][k])
        BY DEF Earned
    <2>1. k <= Len(sent[c]) /\ Answers(2*k - 1, sent[c][k])
        BY <1>7, <1>8 DEF Earned
    <2>2. k \in 1..Len(sent[c]) /\ k <= Len(sent'[c])
        BY <1>2, <1>4, <2>1
    <2> QED
        BY <1>4, <2>1, <2>2
<1> QED
    BY <1>2, <1>3, <1>6, <1>7, <1>8

\* A client sends the next message: what the server reads of it starts at its beginning.
LEMMA SendStream ==
    ASSUME IInv, StreamInv, NEW d \in Clients, Send(d) PROVE StreamInv'
<1>1. /\ peer[d] = "open" /\ Len(sent[d]) < written[d] /\ errors[d] = <<>>
      /\ UNCHANGED <<pc, cur, buffer, tokenNum, status, cToken, messageLen, resp, peer, link, written, errors>>
    BY DEF Send, server, chat, parser
<1>2. PICK m \in Messages[d][written[d]] :
         inbox' = [inbox EXCEPT ![d] = @ \o m] /\ sent' = [sent EXCEPT ![d] = Append(@, m)]
    BY DEF Send
<1>3. /\ inbox \in [Clients -> Seq(Symbols)] /\ written \in [Clients -> 0..3]
      /\ sent \in [Clients -> Seq(Seq(Symbols))] /\ Typed
    BY DEF IInv, Typed
<1>4. m \in Seq(Symbols)
    <2>1. Len(sent[d]) \in Nat /\ written[d] \in 0..3
        BY <1>2, <1>3, SaidMore
    <2>2. written[d] \in 1..3
        BY <1>1, <2>1
    <2> QED
        BY <1>2, <2>2, KKJAssumption DEF Symbols, Words
<1>5. \A c \in Clients :
         /\ ~Compliant(c) => ~Compliant(c)'
         /\ \A n \in Nat : WholeUpTo(c, n)' => WholeUpTo(c, n)
         /\ \A k \in Nat \ {0} : Earned(c, k) => Earned(c, k)'
         /\ c # d => sent'[c] = sent[c]
         /\ Len(sent[c]) \in Nat /\ Len(sent'[d]) = Len(sent[d]) + 1
         /\ sent'[d][Len(sent[d]) + 1] = m
    BY <1>2, <1>3, SaidMore
<1>6. /\ \A c \in Clients : c # d => inbox'[c] = inbox[c]
      /\ inbox'[d] = inbox[d] \o m
    BY <1>2, <1>3
<1>7. LinkInv'
    BY <1>1 DEF StreamInv, LinkInv
<1>8. EarnedInv'
    <2> SUFFICES ASSUME NEW c \in Clients, NEW k \in 1..written'[c] - 1 PROVE Earned(c, k)'
        BY DEF EarnedInv
    <2>1. k \in 1..written[c] - 1 /\ k \in Nat \ {0}
        BY <1>1, <1>3
    <2> QED
        BY <1>5, <2>1 DEF StreamInv, EarnedInv
<1>9. RefusedInv'
    BY <1>1, <1>5 DEF StreamInv, RefusedInv
<1>10. CASE pc \notin {"write", "read", "check"}
    BY <1>1, <1>7, <1>8, <1>9, <1>10 DEF StreamInv, AtWrite, AtRead, AtCheck
<1>11. CASE pc \in {"write", "read", "check"}
    <2>1. /\ cur \in Clients /\ written[cur] \in 0..3 /\ Len(sent[cur]) \in Nat
          /\ Len(sent[cur]) <= written[cur] /\ inbox[cur] \in Seq(Symbols)
        BY <1>11, CurrentTypes DEF Chatting
    <2>2. PICK w \in 0..3 : w = written[cur] /\ w = written'[cur']
        BY <1>1, <2>1
    <2>3. /\ Compliant(cur)' => Compliant(cur)
          /\ \A n \in Nat : WholeUpTo(cur, n)' => WholeUpTo(cur, n)
          /\ \A k \in Nat \ {0} : Earned(cur, k) => Earned(cur, k)'
        <3>1. PICK c \in Clients : c = cur /\ c = cur'
            BY <1>1, <2>1
        <3>2. /\ ~Compliant(c) => ~Compliant(c)'
              /\ \A n \in Nat : WholeUpTo(c, n)' => WholeUpTo(c, n)
              /\ \A k \in Nat \ {0} : Earned(c, k) => Earned(c, k)'
            BY <1>5
        <3> QED
            BY <3>1, <3>2 DEF Compliant, WholeUpTo, Earned
    <2>4. /\ WholeUpTo(cur, written[cur])' <=> WholeUpTo(cur, w)'
          /\ WholeUpTo(cur, written[cur] - 1)' <=> WholeUpTo(cur, w - 1)'
          /\ Earned(cur, written[cur])' <=> Earned(cur, w)'
        BY <2>2 DEF WholeUpTo, Earned
    <2>5. d = cur => Len(sent[cur]) # w
        BY <1>1, <2>1, <2>2
    <2>6. d # cur => inbox'[cur'] = inbox[cur] /\ sent'[cur'] = sent[cur]
        BY <1>1, <1>5, <1>6, <2>1
    <2>7. CASE pc = "write"
        <3>1. ASSUME WholeUpTo(cur, written[cur])'
              PROVE  Len(sent'[cur']) = written'[cur'] /\ Left'
            <4>1. WholeUpTo(cur, w)
                BY <2>2, <2>3, <2>4, <3>1
            <4>2. Len(sent[cur]) = w /\ Left
                BY <2>2, <2>7, <4>1 DEF StreamInv, AtWrite
            <4>3. d # cur
                BY <2>5, <4>2
            <4> QED
                BY <2>2, <2>3, <2>6, <4>2, <4>3 DEF Left
        <3>2. written'[cur'] >= 1 => Earned(cur, written[cur])'
            <4>1. w >= 1 => Earned(cur, w)
                BY <2>2, <2>7 DEF StreamInv, AtWrite
            <4>2. w >= 1 => w \in Nat \ {0}
                BY <2>2
            <4> QED
                BY <2>2, <2>3, <2>4, <4>1, <4>2
        <3>3. AtWrite'
            BY <3>1, <3>2 DEF AtWrite
        <3>4. AtRead' /\ AtCheck'
            BY <1>1, <2>7 DEF AtRead, AtCheck
        <3> QED
            BY <1>7, <1>8, <1>9, <3>3, <3>4 DEF StreamInv
    <2>8. CASE pc = "read"
        <3>1. w \in 1..3 /\ w - 1 \in Nat
            <4>1. w >= 1
                BY <2>2, <2>8 DEF IInv, ChatInv
            <4> QED
                BY <2>2, <4>1
        <3>2. ASSUME WholeUpTo(cur, written[cur] - 1)' PROVE Idle' \/ Jammed' \/ Within'
            <4>1. Idle \/ Jammed \/ Within
                <5>1. WholeUpTo(cur, written[cur] - 1)
                    BY <2>2, <2>3, <2>4, <3>1, <3>2
                <5> QED
                    BY <2>8, <5>1 DEF StreamInv, AtRead
            <4>2. CASE d # cur
                <5>1. Idle => Idle'
                    BY <1>1, <2>6, <4>2 DEF Idle, Between
                <5>2. Jammed => Jammed'
                    BY <1>1, <2>3, <2>6, <4>2 DEF Jammed, Between
                <5>3. Within => Within'
                    <6>1. PICK h : h = sent[cur][written[cur]] /\ h = sent'[cur'][written'[cur']]
                        BY <1>1, <2>6, <4>2
                    <6>2. Parsed(h) => Parsed(h)'
                        BY <1>1 DEF Parsed
                    <6>3. Follows(h) => Follows(h)'
                        BY <1>1, <2>6, <4>2 DEF Follows, Taken
                    <6>4. Len(sent[cur]) = written[cur] => Len(sent'[cur']) = written'[cur']
                        BY <1>1, <2>6, <4>2
                    <6>5. Within => Len(sent[cur]) = written[cur] /\ Parsed(h) /\ Follows(h)
                        BY <6>1 DEF Within
                    <6>6. Len(sent'[cur']) = written'[cur'] /\ Parsed(h)' /\ Follows(h)' => Within'
                        <7>1. h = sent'[cur'][written'[cur']]
                            BY <6>1
                        <7> QED
                            BY <7>1 DEF Within, Parsed, Follows, Taken
                    <6> QED
                        BY <6>2, <6>3, <6>4, <6>5, <6>6
                <5> QED
                    BY <4>1, <5>1, <5>2, <5>3
            <4>3. CASE d = cur /\ Idle
                <5>1. /\ tokenNum' = 1 /\ cToken' = <<>> /\ buffer' = <<>> /\ inbox[cur] = <<>>
                      /\ Len(sent[cur]) = w - 1
                    BY <1>1, <2>2, <4>3 DEF Idle, Between
                <5>2. inbox'[cur'] = m
                    <6>1. <<>> \o m = m
                        BY <1>4
                    <6> QED
                        BY <1>1, <1>6, <4>3, <5>1, <6>1
                <5>3. Len(sent'[cur']) = w /\ sent'[cur'][w] = m
                    <6>1. Len(sent[cur]) + 1 = w
                        BY <2>1, <3>1, <5>1
                    <6> QED
                        BY <1>1, <1>5, <4>3, <6>1
                <5>4. Parsed(m)'
                    <6>1. Len(cToken') = 0 /\ ~(tokenNum' >= 2) /\ tokenNum' # 3
                        BY <5>1
                    <6> QED
                        BY <6>1 DEF Parsed
                <5>5. Follows(m)'
                    <6>1. Len(buffer') = 0 /\ Len(cToken') = 0
                        BY <5>1
                    <6>2. Taken' = 0
                        <7>1. Taken' = 2 * (1 - 1) + 0
                            BY <5>1, <6>1 DEF Taken
                        <7> QED
                            BY <7>1
                    <6>3. Len(m) \in Nat /\ 0 + 0 + Len(m) <= Len(m) /\ \A i \in 1..Len(m) : 0 + 0 + i = i
                        BY <1>4
                    <6> QED
                        BY <5>2, <6>1, <6>2, <6>3 DEF Follows
                <5>6. Within'
                    <6>1. m = sent'[cur'][written'[cur']] /\ Len(sent'[cur']) = written'[cur']
                        BY <2>2, <5>3
                    <6> QED
                        BY <5>4, <5>5, <6>1 DEF Within, Parsed, Follows, Taken
                <5> QED
                    BY <5>6
            <4>4. CASE d = cur /\ Jammed
                <5>1. buffer # <<>> \/ inbox[cur] # <<>>
                    BY <1>1, <4>4 DEF Jammed
                <5>2. buffer = <<>> => inbox'[cur'] # <<>> /\ inbox'[cur'][1] = PIPE
                    <6> SUFFICES ASSUME buffer = <<>> PROVE inbox'[cur'] # <<>> /\ inbox'[cur'][1] = PIPE
                        OBVIOUS
                    <6>1. PICK box \in Seq(Symbols) : box = inbox[cur]
                        BY <2>1
                    <6>2. box # <<>> /\ box[1] = PIPE
                        BY <4>4, <5>1, <6>1 DEF Jammed
                    <6>3. box \o m # <<>> /\ (box \o m)[1] = box[1]
                        <7>1. Len(box) >= 1 /\ Len(box) \in Nat /\ Len(m) \in Nat
                            BY <1>4, <6>2
                        <7>2. Len(box \o m) = Len(box) + Len(m) /\ (box \o m)[1] = box[1]
                            BY <1>4, <7>1
                        <7>3. Len(box \o m) # 0
                            BY <7>1, <7>2
                        <7>4. box \o m = <<>> => Len(box \o m) = 0
                            OBVIOUS
                        <7> QED
                            BY <7>2, <7>3, <7>4
                    <6> QED
                        BY <1>1, <1>6, <4>4, <6>1, <6>2, <6>3
                <5> QED
                    BY <1>1, <2>3, <4>4, <5>1, <5>2 DEF Jammed, Between
            <4>5. CASE d = cur /\ Within
                <5>1. Len(sent[cur]) = w
                    BY <2>2, <4>5 DEF Within
                <5> QED
                    BY <2>5, <4>5, <5>1
            <4> QED
                BY <4>1, <4>2, <4>3, <4>4, <4>5
        <3>3. AtRead'
            BY <3>2 DEF AtRead
        <3>4. AtWrite' /\ AtCheck'
            BY <1>1, <2>8 DEF AtWrite, AtCheck
        <3> QED
            BY <1>7, <1>8, <1>9, <3>3, <3>4 DEF StreamInv
    <2>9. CASE pc = "check"
        <3>1. Tells(0..5)' <=> Tells(0..5)
            BY <1>1 DEF Tells
        <3>2. ASSUME ~Tells(0..5)
              PROVE  Earned(cur, w)' /\ (w <= 2 /\ WholeUpTo(cur, w)' => Left')
            <4>1. Earned(cur, w) /\ (w <= 2 /\ WholeUpTo(cur, w) => Left)
                BY <2>2, <2>9, <3>2 DEF StreamInv, AtCheck
            <4>2. w \in Nat \ {0} /\ w - 1 \in Nat
                <5>1. w >= 1
                    BY <2>2, <2>9 DEF IInv, ChatInv
                <5> QED
                    BY <2>2, <5>1
            <4>3. ASSUME w <= 2, WholeUpTo(cur, w)' PROVE Left'
                <5>1. WholeUpTo(cur, w)
                    BY <2>3, <4>2, <4>3
                <5>2. WholeUpTo(cur, w - 1)
                    BY <4>2, <5>1 DEF WholeUpTo
                <5>3. Len(sent[cur]) = w
                    <6>1. w <= Len(sent[cur])
                        BY <4>1, <5>2 DEF Earned
                    <6> QED
                        BY <2>1, <2>2, <6>1
                <5> QED
                    BY <2>3, <2>5, <2>6, <4>1, <4>3, <5>1, <5>3 DEF Left
            <4> QED
                BY <2>3, <4>1, <4>2, <4>3
        <3>3. AtCheck'
            <4>1. Tells(0..5) => ~Compliant(cur)
                BY <2>9 DEF StreamInv, AtCheck
            <4> QED
                BY <2>2, <2>3, <2>4, <3>1, <3>2, <4>1 DEF AtCheck
        <3>4. AtWrite' /\ AtRead'
            BY <1>1, <2>9 DEF AtWrite, AtRead
        <3> QED
            BY <1>7, <1>8, <1>9, <3>3, <3>4 DEF StreamInv
    <2> QED
        BY <1>11, <2>7, <2>8, <2>9
<1> QED
    BY <1>10, <1>11

\* The clients' other steps take nothing from the current message but what a reset drops.
LEMMA ClientStream ==
    ASSUME IInv, StreamInv, NEW d \in Clients, Connect(d) \/ Leave(d) \/ ResetArrives(d)
    PROVE  StreamInv'
<1>1. UNCHANGED <<pc, cur, buffer, tokenNum, status, cToken, messageLen, resp, sent, written, errors>>
    BY DEF Connect, Leave, CloseEarly, Abort, ResetArrives, server, chat, parser, history
<1>2. /\ inbox \in [Clients -> Seq(Symbols)]
      /\ peer \in [Clients -> {"none", "open", "closed", "aborted"}]
      /\ link \in [Clients -> {"up", "resetting", "reset"}]
    BY DEF IInv, Typed
<1>3. LinkInv'
    <2>1. CASE Connect(d)
        <3>1. peer[d] = "none" /\ link' = link /\ peer' = [peer EXCEPT ![d] = "open"] /\ link[d] = "up"
            BY <2>1 DEF Connect, IInv, QueueInv
        <3> QED
            BY <1>2, <3>1 DEF StreamInv, LinkInv
    <2>2. CASE Leave(d)
        <3>1. /\ peer' \in {[peer EXCEPT ![d] = "closed"], [peer EXCEPT ![d] = "aborted"]}
              /\ link' \in {link, [link EXCEPT ![d] = "resetting"]}
            BY <2>2 DEF Leave, CloseEarly, Abort
        <3> QED
            BY <1>2, <3>1 DEF StreamInv, LinkInv
    <2>3. CASE ResetArrives(d)
        <3>1. link[d] = "resetting" /\ link' = [link EXCEPT ![d] = "reset"] /\ peer' = peer
            BY <2>3 DEF ResetArrives
        <3> QED
            BY <1>2, <3>1 DEF StreamInv, LinkInv
    <2> QED
        BY <2>1, <2>2, <2>3
<1>4. EarnedInv' /\ RefusedInv'
    BY <1>1, SaidSame DEF StreamInv, EarnedInv, RefusedInv
<1>5. CASE pc \notin {"write", "read", "check"}
    BY <1>1, <1>3, <1>4, <1>5 DEF StreamInv, AtWrite, AtRead, AtCheck
<1>6. CASE pc \in {"write", "read", "check"}
    <2>1. cur \in Clients /\ peer[cur] # "none"
        BY <1>6, Current DEF Chatting
    <2>2. /\ inbox'[cur'] = inbox[cur] \/ (inbox'[cur'] = <<>> /\ peer'[cur'] # "open")
          /\ peer[cur] # "open" => peer'[cur'] # "open"
        <3>1. CASE Connect(d)
            <4>1. peer[d] = "none" /\ peer' = [peer EXCEPT ![d] = "open"] /\ inbox' = inbox
                BY <3>1 DEF Connect
            <4> QED
                BY <1>1, <1>2, <2>1, <4>1
        <3>2. CASE Leave(d)
            <4>1. /\ peer' \in {[peer EXCEPT ![d] = "closed"], [peer EXCEPT ![d] = "aborted"]}
                  /\ inbox' = inbox
                BY <3>2 DEF Leave, CloseEarly, Abort
            <4> QED
                BY <1>1, <1>2, <2>1, <4>1
        <3>3. CASE ResetArrives(d)
            <4>1. /\ link[d] = "resetting" /\ peer' = peer
                  /\ inbox' \in {inbox, [inbox EXCEPT ![d] = <<>>]}
                BY <3>3 DEF ResetArrives
            <4>2. peer[d] # "open"
                BY <4>1 DEF StreamInv, LinkInv
            <4> QED
                BY <1>1, <1>2, <2>1, <4>1, <4>2
        <3> QED
            BY <3>1, <3>2, <3>3
    <2>3. /\ Compliant(cur)' <=> Compliant(cur)
          /\ WholeUpTo(cur, written[cur])' <=> WholeUpTo(cur, written[cur])
          /\ WholeUpTo(cur, written[cur] - 1)' <=> WholeUpTo(cur, written[cur] - 1)
          /\ Earned(cur, written[cur])' <=> Earned(cur, written[cur])
          /\ Tells(0..5)' <=> Tells(0..5)
        BY <1>1 DEF Compliant, WholeUpTo, Earned, Tells
    <2>4. Left => Left'
        BY <2>2, <2>3 DEF Left
    <2>5. AtWrite'
        BY <1>1, <2>3, <2>4 DEF StreamInv, AtWrite
    <2>6. AtCheck'
        BY <1>1, <2>3, <2>4 DEF StreamInv, AtCheck
    <2>7. AtRead'
        <3>1. Idle => Idle'
            BY <1>1, <2>2 DEF Idle, Between
        <3>2. Jammed => Jammed'
            BY <1>1, <2>2, <2>3 DEF Jammed, Between
        <3>3. ASSUME pc = "read", Within PROVE Within'
            <4>1. PICK h : h = sent[cur][written[cur]] /\ h = sent'[cur'][written'[cur']]
                BY <1>1
            <4>2. Parsed(h) => Parsed(h)'
                BY <1>1 DEF Parsed
            <4>6. Len(h) \in Nat
                <5>1. sent[cur] \in Seq(Seq(Symbols)) /\ written[cur] \in 0..3
                    BY <1>6, CurrentTypes DEF Chatting
                <5>2. Len(sent[cur]) = written[cur] /\ written[cur] >= 1
                    BY <3>3 DEF Within, IInv, ChatInv
                <5>3. written[cur] \in 1..Len(sent[cur])
                    BY <5>1, <5>2
                <5>4. h \in Seq(Symbols)
                    <6>1. \A i \in 1..Len(sent[cur]) : sent[cur][i] \in Seq(Symbols)
                        BY <5>1
                    <6> QED
                        BY <4>1, <5>3, <6>1
                <5> QED
                    BY <5>4
            <4>3. Follows(h) => Follows(h)'
                <5>1. CASE inbox'[cur'] = inbox[cur]
                    BY <1>1, <5>1 DEF Follows, Taken
                <5>2. CASE inbox'[cur'] = <<>>
                    <6>1. Len(inbox'[cur']) = 0
                        BY <5>2
                    <6>2. Taken' = Taken /\ buffer' = buffer
                        BY <1>1 DEF Taken
                    <6>3. Follows(h) => Taken + Len(buffer) + 0 <= Len(h)
                        <7> SUFFICES ASSUME Follows(h) PROVE Taken + Len(buffer) + 0 <= Len(h)
                            OBVIOUS
                        <7>1. Taken + Len(buffer) + Len(inbox[cur]) <= Len(h)
                            BY DEF Follows
                        <7>2. Len(buffer) \in Nat /\ Taken \in Nat /\ Len(inbox[cur]) \in Nat
                            <8>1. /\ buffer \in Seq(Symbols) /\ cToken \in Seq(Words) /\ tokenNum \in 1..3
                                  /\ inbox[cur] \in Seq(Symbols)
                                BY <1>6, CurrentTypes DEF Chatting
                            <8>2. Len(buffer) \in Nat /\ Len(cToken) \in Nat /\ Len(inbox[cur]) \in Nat
                                BY <8>1
                            <8>3. Taken \in Nat
                                BY <8>1, <8>2 DEF Taken
                            <8> QED
                                BY <8>2, <8>3
                        <7>3. \A t, b, n, l \in Nat : t + b + n <= l => t + b + 0 <= l
                            OBVIOUS
                        <7> QED
                            BY <4>6, <7>1, <7>2, <7>3
                    <6> QED
                        BY <6>1, <6>2, <6>3 DEF Follows
                <5> QED
                    BY <2>2, <5>1, <5>2
            <4>4. Within => Len(sent[cur]) = written[cur] /\ Parsed(h) /\ Follows(h)
                BY <4>1 DEF Within
            <4>5. Len(sent'[cur']) = written'[cur'] /\ Parsed(h)' /\ Follows(h)' => Within'
                <5>1. h = sent'[cur'][written'[cur']]
                    BY <4>1
                <5> QED
                    BY <5>1 DEF Within, Parsed, Follows, Taken
            <4> QED
                BY <1>1, <3>3, <4>2, <4>3, <4>4, <4>5
        <3> QED
            BY <1>1, <2>3, <3>1, <3>2, <3>3 DEF StreamInv, AtRead
    <2> QED
        BY <1>3, <1>4, <2>5, <2>6, <2>7 DEF StreamInv
<1> QED
    BY <1>5, <1>6

-----------------------------------------------------------------------------
(***************************************************************************)
(* The theorems.                                                           *)
(***************************************************************************)
\* At every step of every chat readSocket's fields and buffer and what is still on its way
\* are the pieces of one message of the client, unless a pipe was left over before it.
THEOREM StreamInductive == Spec => [](IInv /\ StreamInv)
<1>1. Init => StreamInv
    BY StreamInit
<1>2. ASSUME IInv, StreamInv, [Next]_vars PROVE StreamInv'
    <2>1. CASE Server
        <3>1. Server => \/ getJokes /\ UNCHANGED <<cur, msgNum, parser, open, backlog, inbox, peer, link,
                                                   history>>
                        \/ WriteFails \/ ReadEnds \/ ErrorTold \/ SendErrorFails \/ JokeTold \/ SigPipe
                        \/ Accept \/ WriteSocket \/ Proceed \/ sendError
                        \/ Read \/ AppendToken \/ ParseStatus \/ ParseLength
                        \/ ParseError \/ ParseText \/ msgFormatError
            BY DEF Server
        <3> QED
            BY <1>2, <2>1, <3>1, QuietStep, AcceptStream, WriteStream, ProceedStream, ErrorStream,
               ParserStream, ReturnStream
    <2>2. CASE \E c \in Clients : Connect(c) \/ Send(c) \/ Leave(c) \/ ResetArrives(c)
        BY <1>2, <2>2, SendStream, ClientStream
    <2>3. CASE UNCHANGED vars
        <3>1. UNCHANGED <<pc, cur, buffer, tokenNum, status, cToken, messageLen, resp, inbox, peer, link,
                          sent, written, errors>>
            BY <2>3 DEF vars, server, chat, parser, history
        <3>2. LinkInv' /\ EarnedInv' /\ RefusedInv'
            BY <1>2, <3>1, SaidSame DEF StreamInv, LinkInv, EarnedInv, RefusedInv
        <3>3. AtWrite'
            BY <1>2, <3>1 DEF StreamInv, AtWrite, Left, Earned, WholeUpTo, Compliant
        <3>4. AtCheck'
            BY <1>2, <3>1 DEF StreamInv, AtCheck, Left, Earned, WholeUpTo, Compliant, Tells
        <3>5. AtRead'
            BY <1>2, <3>1 DEF StreamInv, AtRead, WholeUpTo, Idle, Jammed, Within, Between, Compliant,
               Parsed, Follows, Taken
        <3> QED
            BY <3>2, <3>3, <3>4, <3>5 DEF StreamInv
    <2> QED
        BY <1>2, <2>1, <2>2, <2>3 DEF Next
<1>3. Spec => []StreamInv
    BY <1>1, <1>2, Inductive, PTL DEF Spec
<1> QED
    BY <1>3, Inductive, PTL

\* Only the right answer passes, to the joke's last line as well, whatever is sent and
\* however it is divided into reads, as long as the answers before it were whole.
THEOREM AnswersAreEarned == Spec => []AnswerEarned
<1>1. IInv /\ StreamInv => AnswerEarned
    <2> SUFFICES ASSUME IInv, StreamInv, NEW c \in Clients, NEW k \in 1..3, Passed(c, k),
                        \A j \in 1..k - 1 : Whole(2*j - 1, sent[c][j])
                 PROVE  k <= Len(sent[c]) /\ Answers(2*k - 1, sent[c][k])
        BY DEF AnswerEarned
    <2>1. WholeUpTo(c, k - 1)
        BY DEF WholeUpTo
    <2>2. Earned(c, k)
        <3>1. CASE k < written[c]
            <4>1. written[c] \in 0..3
                BY DEF IInv, Typed
            <4>2. k \in 1..written[c] - 1
                BY <3>1, <4>1
            <4> QED
                BY <4>2 DEF StreamInv, EarnedInv
        <3>2. CASE c = cur /\ pc = "check" /\ msgNum = 2*k - 1 /\ ~Tells(0..5)
            <4>1. written[cur] \in 0..3 /\ msgNum = 2 * written[cur] - 1
                BY <3>2 DEF IInv, Typed, ChatInv
            <4>2. k = written[cur]
                BY <3>2, <4>1
            <4> QED
                BY <3>2, <4>2 DEF StreamInv, AtCheck
        <3> QED
            BY <3>1, <3>2 DEF Passed
    <2> QED
        BY <2>1, <2>2 DEF Earned
<1> QED
    BY <1>1, StreamInductive, PTL

\* No client is sent an error that has said only what the protocol asks for.
THEOREM CompliantAreHeard == Spec => []CompliantNeverRefused
<1>1. IInv /\ StreamInv => CompliantNeverRefused
    BY DEF StreamInv, RefusedInv, Compliant, CompliantNeverRefused
<1> QED
    BY <1>1, StreamInductive, PTL

-----------------------------------------------------------------------------
(***************************************************************************)
(* That a chat comes to an end, as far as the server can do something.     *)
(***************************************************************************)
InChat == pc \in {"write", "read", "check"}

\* The conditions under which the server can take its next step.
ServerGoes ==
    \/ pc \in {"open", "load", "bind"}
    \/ pc = "accept" /\ backlog # <<>>
    \/ AboutToWrite /\ (Writable(cur) \/ Broken(cur) \/ Killing(cur))
    \/ Reading /\ (inbox[cur] # <<>> \/ Ended)
    \/ Parsing /\ (Head(buffer) # PIPE \/ Malformed)
    \/ AtPipe(1) /\ cToken \in {<<"REG">>, <<"ERR">>}
    \/ AtPipe(2) /\ (status = "ERR" \/ (status = "REG" /\ IsNumber(cToken)))
    \/ AtPipe(3) /\ ~Malformed
    \/ pc = "check" /\ ~Tells({1, 3, 5})

\* What it waits for: a client to connect, or the current client to go on, whose connection
\* is open or whose reset is on its way.
ServerWaits ==
    \/ pc = "accept" /\ backlog = <<>>
    \/ /\ Reading /\ inbox[cur] = <<>>
       /\ peer[cur] = "open" \/ link[cur] = "resetting"

OnlyClientsAwaited == pc \in {"killed", "exited", "divided"} \/ ServerGoes \/ ServerWaits

\* A step of the server in a chat ends it, or writes the next message of the joke, or is the
\* next after reading its answer, or leaves less of what was sent to be looked at.
Stage(label) == IF label = "read" THEN 2 ELSE IF label = "check" THEN 1 ELSE 0
ChatNearer ==
    InChat =>
        \/ ~InChat'
        \/ /\ cur' = cur
           /\ \/ written[cur] < written'[cur]
              \/ written' = written /\ Stage(pc') < Stage(pc)
              \/ /\ written' = written /\ pc' = pc
                 /\ 2 * Len(inbox'[cur]) + Len(buffer') < 2 * Len(inbox[cur]) + Len(buffer)

\* The second field comes after a first; a client that has aborted has sent a reset.
Begun == tokenNum = 2 => status \in {"REG", "ERR"}
ResetSent == \A c \in Clients : peer[c] = "aborted" => link[c] # "up"

LEMMA BegunStep == Begun /\ [Next]_vars => Begun'
<1> SUFFICES ASSUME Begun, [Next]_vars PROVE Begun'
    OBVIOUS
<1>1. UNCHANGED parser => Begun'
    BY DEF Begun, parser
<1>2. ParserReset => Begun'
    <2>1. ParserReset => tokenNum' = 1
        BY DEF ParserReset
    <2> QED
        BY <2>1 DEF Begun
<1>3. CASE Server
    <2>1. CASE getJokes /\ UNCHANGED <<cur, msgNum, parser, open, backlog, inbox, peer, link, history>>
        BY <1>1, <2>1
    <2>2. CASE Accept \/ SigPipe
        BY <1>1, <2>2 DEF Accept, SigPipe
    <2>3. CASE WriteSocket \/ WriteFails \/ ReadEnds \/ ErrorTold \/ sendError \/ SendErrorFails \/ JokeTold
        BY <1>2, <2>3 DEF WriteSocket, WriteFails, ReadEnds, ErrorTold, sendError, SendErrorFails,
                          JokeTold, HangUp
    <2>4. CASE Read \/ AppendToken \/ Proceed
        BY <2>4 DEF Read, AppendToken, Proceed, Begun
    <2>5. CASE ParseStatus
        <3>1. status' = cToken[1] /\ cToken \in {<<"REG">>, <<"ERR">>}
            BY <2>5 DEF ParseStatus
        <3> QED
            BY <3>1 DEF Begun
    <2>6. CASE ParseLength
        BY <2>6 DEF ParseLength, Begun
    <2>7. CASE ParseError \/ ParseText \/ msgFormatError
        <3>1. tokenNum' = 1
            BY <2>7 DEF ParseError, ParseText, msgFormatError, Returned
        <3> QED
            BY <3>1 DEF Begun
    <2> QED
        BY <1>3, <2>1, <2>2, <2>3, <2>4, <2>5, <2>6, <2>7 DEF Server
<1>4. CASE \E c \in Clients : Connect(c) \/ Send(c) \/ Leave(c) \/ ResetArrives(c)
    BY <1>1, <1>4 DEF Connect, Send, Leave, CloseEarly, Abort, ResetArrives, server
<1>5. CASE UNCHANGED vars
    BY <1>1, <1>5 DEF vars, server
<1> QED
    BY <1>3, <1>4, <1>5 DEF Next

LEMMA ResetSentStep == IInv /\ ResetSent /\ [Next]_vars => ResetSent'
<1> SUFFICES ASSUME IInv, ResetSent, [Next]_vars, NEW c \in Clients, peer'[c] = "aborted"
             PROVE  link'[c] # "up"
    BY DEF ResetSent
<1>1. /\ link \in [Clients -> {"up", "resetting", "reset"}]
      /\ peer \in [Clients -> {"none", "open", "closed", "aborted"}]
    BY DEF IInv, Typed
<1>2. CASE Server
    <2>1. UNCHANGED peer /\ (UNCHANGED link \/ Wrote(cur))
        BY <1>2 DEF Server, Accept, WriteSocket, WriteFails, SigPipe, Read, ReadEnds, AppendToken,
           ParseStatus, ParseLength, ParseError, ParseText, msgFormatError, ErrorTold, sendError,
           SendErrorFails, Proceed, JokeTold
    <2> QED
        BY <1>1, <2>1 DEF ResetSent, Wrote
<1>3. ASSUME NEW d \in Clients, Connect(d) \/ Send(d) \/ CloseEarly(d) PROVE link'[c] # "up"
    <2>1. UNCHANGED link /\ peer[c] = "aborted"
        BY <1>1, <1>3 DEF Connect, Send, CloseEarly
    <2> QED
        BY <2>1 DEF ResetSent
<1>4. ASSUME NEW d \in Clients, Abort(d) PROVE link'[c] # "up"
    <2>1. peer[d] = "open" /\ peer' = [peer EXCEPT ![d] = "aborted"] /\ link' = [link EXCEPT ![d] = "resetting"]
        BY <1>4 DEF Abort
    <2> QED
        BY <1>1, <2>1 DEF ResetSent
<1>5. ASSUME NEW d \in Clients, ResetArrives(d) PROVE link'[c] # "up"
    <2>1. UNCHANGED peer /\ link' = [link EXCEPT ![d] = "reset"]
        BY <1>5 DEF ResetArrives
    <2> QED
        BY <1>1, <2>1 DEF ResetSent
<1>6. CASE UNCHANGED vars
    BY <1>6 DEF vars, ResetSent
<1> QED
    BY <1>2, <1>3, <1>4, <1>5, <1>6 DEF Next, Leave

\* Every case of readSocket and of what follows it is dealt with.
LEMMA NobodyElse ==
    ASSUME IInv, LinkInv, Begun, ResetSent, pc \notin {"killed", "exited", "divided"}, ~ServerWaits
    PROVE  ServerGoes
<1>1. CASE pc \in {"open", "load", "bind", "accept"}
    BY <1>1 DEF ServerGoes, ServerWaits
<1>2. CASE InChat
    <2>1. /\ cur \in Clients /\ peer[cur] \in {"open", "closed", "aborted"}
          /\ link[cur] \in {"up", "resetting", "reset"} /\ tokenNum \in 1..3
          /\ link[cur] # "up" => peer[cur] # "open"
          /\ peer[cur] = "aborted" => link[cur] # "up"
        <3>1. cur \in Clients /\ peer[cur] # "none"
            BY <1>2, Current DEF InChat, Chatting
        <3> QED
            BY <3>1 DEF IInv, Typed, LinkInv, ResetSent
    <2>2. Writable(cur) \/ Broken(cur) \/ Killing(cur)
        BY <2>1 DEF Writable, Broken, Killing
    <2>3. CASE Reading
        BY <2>1, <2>3 DEF ServerGoes, ServerWaits, Ended
    <2>4. CASE Parsing
        <3>1. CASE Head(buffer) # PIPE \/ Malformed
            BY <2>4, <3>1 DEF ServerGoes
        <3>2. CASE Head(buffer) = PIPE /\ ~Malformed
            <4>1. tokenNum = 1 => cToken \in {<<"REG">>, <<"ERR">>}
                BY <3>2 DEF Malformed
            <4>2. tokenNum = 2 => status = "ERR" \/ (status = "REG" /\ IsNumber(cToken))
                BY <3>2 DEF Malformed, Begun
            <4>3. AtPipe(tokenNum)
                BY <2>4, <3>2 DEF AtPipe
            <4>4. tokenNum = 1 \/ tokenNum = 2 \/ tokenNum = 3
                BY <2>1
            <4> QED
                BY <3>2, <4>1, <4>2, <4>3, <4>4 DEF ServerGoes
        <3> QED
            BY <3>1, <3>2
    <2>5. CASE pc \in {"write", "check"}
        BY <2>2, <2>5 DEF ServerGoes, AboutToWrite
    <2> QED
        BY <1>2, <2>3, <2>4, <2>5 DEF InChat, Reading, Parsing
<1> QED
    BY <1>1, <1>2 DEF IInv, Typed, InChat

\* The server waits only for its clients, and in a chat only for a client that is there or
\* whose reset has been sent: whatever a message looks like, it is dealt with.
THEOREM NoDeadlock == Spec => []OnlyClientsAwaited
<1>1. Init => Begun /\ ResetSent
    <2> SUFFICES ASSUME Init PROVE Begun /\ ResetSent
        OBVIOUS
    <2>1. tokenNum = 1 /\ \A c \in Clients : peer[c] = "none"
        BY DEF Init
    <2> QED
        BY <2>1 DEF Begun, ResetSent
<1>2. IInv /\ StreamInv /\ Begun /\ ResetSent => OnlyClientsAwaited
    BY NobodyElse DEF StreamInv, OnlyClientsAwaited
<1> QED
    BY <1>1, <1>2, BegunStep, ResetSentStep, StreamInductive, PTL DEF Spec

\* What is read and not looked at counts once, what is still to be read twice.
LEMMA ReadLeavesLess ==
    ASSUME IInv, Read \/ AppendToken \/ ParseStatus \/ ParseLength
    PROVE  /\ pc' = pc /\ cur' = cur /\ written' = written
           /\ 2 * Len(inbox'[cur]) + Len(buffer') < 2 * Len(inbox[cur]) + Len(buffer)
<1>1. pc = "read" /\ pc' = pc /\ cur' = cur /\ written' = written
    BY DEF Read, AppendToken, ParseStatus, ParseLength, Reading, Parsing, AtPipe, chat, history
<1>2. /\ cur \in Clients /\ inbox \in [Clients -> Seq(Symbols)] /\ inbox[cur] \in Seq(Symbols)
      /\ buffer \in Seq(Symbols)
    BY <1>1, Current DEF Chatting, IInv, Typed
<1>3. PICK n \in Nat, b \in Nat : n = Len(inbox[cur]) /\ b = Len(buffer)
    <2>1. Len(inbox[cur]) \in Nat /\ Len(buffer) \in Nat
        BY <1>2
    <2> QED
        BY <2>1
<1>4. CASE Read
    <2>1. PICK k \in 1..n :
            /\ buffer' = SubSeq(inbox[cur], 1, k)
            /\ inbox' = [inbox EXCEPT ![cur] = SubSeq(@, k + 1, Len(@))]
        BY <1>3, <1>4 DEF Read
    <2>2. Len(SubSeq(inbox[cur], 1, k)) = k /\ Len(SubSeq(inbox[cur], k + 1, n)) = n - k
        BY <1>2, <1>3
    <2>3. Len(buffer') = k /\ Len(inbox'[cur]) = n - k
        BY <1>2, <1>3, <2>1, <2>2
    <2>4. b = 0
        <3>1. buffer = <<>>
            BY <1>4 DEF Read, Reading
        <3> QED
            BY <1>3, <3>1
    <2> QED
        BY <1>1, <1>3, <2>3, <2>4
<1>5. CASE AppendToken \/ ParseStatus \/ ParseLength
    <2>1. buffer # <<>> /\ buffer' = Tail(buffer) /\ inbox' = inbox
        BY <1>5 DEF AppendToken, ParseStatus, ParseLength, AtPipe, Parsing
    <2>2. Len(buffer') = b - 1 /\ b >= 1
        BY <1>2, <1>3, <2>1
    <2> QED
        BY <1>1, <1>3, <2>1, <2>2
<1> QED
    BY <1>4, <1>5

\* In a chat every step of the server leads to its end: three messages of the joke are
\* written at most, to each a client answers once, and what it has sent is looked at
\* once.  Of all this the steps of the clients change only what there is to be read.
THEOREM ChatsAdvance == Spec => [][Server => ChatNearer]_vars
<1>1. ASSUME IInv, Server, InChat PROVE ChatNearer
    <2>1. written \in [Clients -> 0..3] /\ cur \in Clients
        BY <1>1, Current DEF IInv, Typed, InChat, Chatting
    <2>2. CASE getJokes \/ Accept
        BY <1>1, <2>2 DEF getJokes, OpenFile, BlankLine, SetupLine, PunchLine, GetLine, EndOfLines, Bind,
           Accept, InChat
    <2>3. CASE WriteFails \/ ReadEnds \/ ErrorTold \/ sendError \/ SendErrorFails \/ JokeTold \/ SigPipe
        BY <2>3 DEF WriteFails, ReadEnds, ErrorTold, sendError, SendErrorFails, JokeTold, SigPipe, HangUp,
           ChatNearer, InChat
    <2>4. CASE WriteSocket
        <3>1. cur' = cur /\ written' = [written EXCEPT ![cur] = @ + 1]
            BY <2>4 DEF WriteSocket
        <3>2. written'[cur] = written[cur] + 1 /\ written[cur] \in Nat
            BY <2>1, <3>1
        <3>3. written[cur] < written'[cur]
            BY <3>2
        <3> QED
            BY <3>1, <3>3 DEF ChatNearer
    <2>5. CASE Read \/ AppendToken \/ ParseStatus \/ ParseLength
        BY <1>1, <2>5, ReadLeavesLess DEF ChatNearer
    <2>6. CASE ParseError \/ ParseText \/ msgFormatError
        <3>1. pc = "read" /\ pc' = "check" /\ cur' = cur /\ written' = written
            BY <2>6 DEF ParseError, ParseText, msgFormatError, Returned, AtPipe, Parsing, history
        <3>2. Stage("check") < Stage("read")
            BY DEF Stage
        <3> QED
            BY <3>1, <3>2 DEF ChatNearer
    <2>7. CASE Proceed
        <3>1. pc = "check" /\ pc' = "write" /\ cur' = cur /\ written' = written
            BY <2>7 DEF Proceed, history
        <3>2. Stage("write") < Stage("check")
            BY DEF Stage
        <3> QED
            BY <3>1, <3>2 DEF ChatNearer
    <2> QED
        BY <1>1, <2>2, <2>3, <2>4, <2>5, <2>6, <2>7 DEF Server
<1>2. IInv /\ [Next]_vars => [Server => ChatNearer]_vars
    BY <1>1 DEF ChatNearer
<1> QED
    BY <1>2, Inductive, PTL DEF Spec
=============================================================================
