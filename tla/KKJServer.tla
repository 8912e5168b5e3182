------------------------------ MODULE KKJServer ------------------------------
(***************************************************************************)
(* The knock-knock joke server of Asst3/Asst3.c and its clients.  One      *)
(* thread accepts a connection, chats with its client to the end, and      *)
(* accepts the next.  A message is a sequence of words and PIPEs; what the *)
(* server reads from a socket is any prefix of what has been sent, so that *)
(* every division of the stream into reads is a behaviour.  Before that it *)
(* reads its jokes (module JokeFile); they differ in their text alone, so  *)
(* SetupWho stands for the setup line of whichever getRandJoke chooses.    *)
(*                                                                         *)
(* Of the kernel the model keeps what read, write, accept and close        *)
(* return: bytes in order, end of file after a peer's close, an error      *)
(* after its reset.                                                        *)
(***************************************************************************)
EXTENDS JokeFile, FiniteSets, TLC

CONSTANTS
    Clients,
    Messages,      \* what each client may say as its first, second, third message
    strlen,        \* length of each word
    strtol,        \* value of each word that is a number
    Punctuated,    \* words whose last character is punctuation
    WhosThere,     \* "Who's there?"
    SetupWho,      \* "<setup line>, who?"
    Nobody,
    OPEN_MAX       \* connections the process may have open

PIPE == "|"

ASSUME KKJAssumption ==
    /\ DOMAIN strtol \subseteq DOMAIN strlen /\ PIPE \notin DOMAIN strlen
    /\ \A w \in DOMAIN strlen : strlen[w] \in Nat \ {0}
    /\ \A w \in DOMAIN strtol : strtol[w] \in Int
    /\ strlen[WhosThere] = 12
    /\ {"REG", "ERR", SetupWho} \cup Punctuated \subseteq DOMAIN strlen \ DOMAIN strtol
    /\ \A c \in Clients : Len(Messages[c]) = 3
          /\ \A k \in 1..3 : Messages[c][k] \subseteq Seq(DOMAIN strlen \cup {PIPE})
    /\ OPEN_MAX \in Nat \ {0}
    /\ Nobody \notin Clients

VARIABLES
    cur, msgNum,                                   \* main and chatWithClient
    buffer, tokenNum, status, cToken, messageLen,  \* readSocket
    resp,                                          \* what readSocket returned
    open,                                          \* connections not closed
    backlog,                                       \* connections not yet accepted
    inbox,      \* for each client: sent and not yet read
    peer,       \* its end of the connection
    link,       \* the server's end: a reset may be on its way or have come
    sent,       \* the messages it has sent
    written,    \* how many messages of the joke were written to it
    errors      \* the error codes that were written to it

chat == <<pc, cur, msgNum>>
parser == <<buffer, tokenNum, status, cToken, messageLen, resp>>
server == <<chat, parser, open>>
history == <<sent, written, errors>>
vars == <<server, loader, backlog, inbox, peer, link, history>>

Init ==
    /\ JokeFileInit
    /\ cur = Nobody /\ msgNum = 0
    /\ buffer = <<>> /\ tokenNum = 1 /\ status = "" /\ cToken = <<>>
    /\ messageLen = -1 /\ resp = <<>>
    /\ open = {} /\ backlog = <<>>
    /\ inbox = [c \in Clients |-> <<>>]
    /\ peer = [c \in Clients |-> "none"]
    /\ link = [c \in Clients |-> "up"]
    /\ sent = [c \in Clients |-> <<>>]
    /\ written = [c \in Clients |-> 0]
    /\ errors = [c \in Clients |-> <<>>]

(***************************************************************************)
(* The clients.                                                            *)
(***************************************************************************)
\* There is nothing to connect to before listen, or after exit.
Connect(c) ==
    /\ peer[c] = "none" /\ pc \notin {"open", "load", "bind", "exited", "killed", "divided"}
    /\ peer' = [peer EXCEPT ![c] = "open"]
    /\ backlog' = Append(backlog, c)
    /\ UNCHANGED <<server, loader, inbox, link, history>>

\* A client answers each message of the joke with one message.
Send(c) ==
    /\ peer[c] = "open"
    /\ Len(sent[c]) < written[c] /\ errors[c] = <<>>
    /\ \E m \in Messages[c][written[c]] :
          /\ inbox' = [inbox EXCEPT ![c] = @ \o m]
          /\ sent' = [sent EXCEPT ![c] = Append(@, m)]
    /\ UNCHANGED <<server, loader, backlog, peer, link, written, errors>>

CloseEarly(c) ==
    /\ peer[c] = "open"
    /\ peer' = [peer EXCEPT ![c] = "closed"]
    /\ UNCHANGED <<server, loader, backlog, inbox, link, history>>

Abort(c) ==
    /\ peer[c] = "open"
    /\ peer' = [peer EXCEPT ![c] = "aborted"]
    /\ link' = [link EXCEPT ![c] = "resetting"]
    /\ UNCHANGED <<server, loader, backlog, inbox, history>>

\* The reset comes; a kernel may keep or drop what it has not delivered.
ResetArrives(c) ==
    /\ link[c] = "resetting"
    /\ link' = [link EXCEPT ![c] = "reset"]
    /\ \/ UNCHANGED inbox
       \/ inbox' = [inbox EXCEPT ![c] = <<>>]
    /\ UNCHANGED <<server, loader, backlog, peer, history>>

Leave(c) == CloseEarly(c) \/ Abort(c)

(***************************************************************************)
(* write() on a connection.                                                *)
(***************************************************************************)
\* It succeeds until a reset has come; a peer that has closed answers with one.
Writable(c) == link[c] # "reset"
Wrote(c) == link' = [link EXCEPT ![c] = IF peer[c] = "open" THEN @ ELSE "resetting"]

\* It fails after a peer's reset; after its close and then a reset, SIGPIPE.
Broken(c) == link[c] = "reset" /\ peer[c] = "aborted"
Killing(c) == link[c] = "reset" /\ peer[c] = "closed"

(***************************************************************************)
(* main                                                                    *)
(***************************************************************************)
\* getRandJoke takes a remainder by the number of jokes.
Accept ==
    /\ pc = "accept" /\ backlog # <<>>
    /\ IF Cardinality(open) < OPEN_MAX
       THEN /\ pc' = IF numJokes = 0 THEN "divided" ELSE "write"
            /\ msgNum' = 0
            /\ cur' = Head(backlog)
            /\ backlog' = Tail(backlog)
            /\ open' = open \cup {Head(backlog)}
       ELSE pc' = "exited" /\ UNCHANGED <<cur, msgNum, backlog, open>>
    /\ UNCHANGED <<loader, parser, inbox, peer, link, history>>

ParserReset ==
    /\ buffer' = <<>> /\ tokenNum' = 1 /\ status' = "" /\ cToken' = <<>>
    /\ messageLen' = -1 /\ resp' = <<>>

\* close(newsockfd) and return.
HangUp ==
    /\ pc' = "accept" /\ cur' = Nobody /\ msgNum' = 0
    /\ open' = open \ {cur}
    /\ ParserReset

(***************************************************************************)
(* writeSocket                                                             *)
(***************************************************************************)
\* Variant: the messages are numbered by the joke's own count.
SkewedWriteSocket ==
    /\ pc = "write" /\ Writable(cur)
    /\ written' = [written EXCEPT ![cur] = @ + 1]
    /\ Wrote(cur)
    /\ pc' = "read" /\ msgNum' = msgNum + 3
    /\ ParserReset
    /\ UNCHANGED <<loader, cur, open, backlog, inbox, peer, sent, errors>>

WriteSocket ==
    /\ pc = "write" /\ Writable(cur)
    /\ written' = [written EXCEPT ![cur] = @ + 1]
    /\ Wrote(cur)
    /\ pc' = "read" /\ msgNum' = msgNum + 1
    /\ ParserReset
    /\ UNCHANGED <<loader, cur, open, backlog, inbox, peer, sent, errors>>

\* chatWithClient returns without close.
WriteFails ==
    /\ pc = "write" /\ Broken(cur)
    /\ pc' = "accept" /\ cur' = Nobody /\ msgNum' = 0
    /\ ParserReset
    /\ UNCHANGED <<loader, open, backlog, inbox, peer, link, history>>

(***************************************************************************)
(* readSocket                                                              *)
(***************************************************************************)
Reading == pc = "read" /\ buffer = <<>>
Parsing == pc = "read" /\ buffer # <<>>

Read ==
    /\ Reading /\ inbox[cur] # <<>>
    /\ \E k \in 1..Len(inbox[cur]) :
          /\ buffer' = SubSeq(inbox[cur], 1, k)
          /\ inbox' = [inbox EXCEPT ![cur] = SubSeq(@, k + 1, Len(@))]
    /\ UNCHANGED <<loader, chat, tokenNum, status, cToken, messageLen, resp, open, backlog,
                   peer, link, history>>

\* End of file, or an error: readSocket returns NULL and the chat is over.
Ended == peer[cur] = "closed" \/ link[cur] = "reset"

\* Variant: an empty read is taken for no data yet.
RetryReadEnds ==
    /\ Reading /\ inbox[cur] = <<>>
    /\ link[cur] = "reset" /\ peer[cur] = "aborted"
    /\ HangUp
    /\ UNCHANGED <<loader, backlog, inbox, peer, link, history>>

ReadEnds ==
    /\ Reading /\ inbox[cur] = <<>> /\ Ended
    /\ HangUp
    /\ UNCHANGED <<loader, backlog, inbox, peer, link, history>>

AppendToken ==
    /\ Parsing /\ Head(buffer) # PIPE
    /\ cToken' = Append(cToken, Head(buffer))
    /\ buffer' = Tail(buffer)
    /\ UNCHANGED <<loader, chat, tokenNum, status, messageLen, resp, open, backlog, inbox,
                   peer, link, history>>

AtPipe(n) == Parsing /\ Head(buffer) = PIPE /\ tokenNum = n

Returned(r) ==
    /\ pc' = "check" /\ resp' = r
    /\ buffer' = <<>> /\ tokenNum' = 1 /\ status' = "" /\ cToken' = <<>>
    /\ messageLen' = -1

\* "M%dFT": M, the message's number, what was wrong with it.
errorCode(n, what) == "M" \o ToString(n) \o what

\* Variant: the first field is not cleared before the second.
StaleParseStatus ==
    /\ AtPipe(1) /\ cToken \in {<<"REG">>, <<"ERR">>}
    /\ status' = cToken[1]
    /\ buffer' = Tail(buffer) /\ tokenNum' = 2
    /\ UNCHANGED <<loader, chat, cToken, messageLen, resp, open, backlog, inbox, peer, link,
                   history>>

ParseStatus ==
    /\ AtPipe(1) /\ cToken \in {<<"REG">>, <<"ERR">>}
    /\ status' = cToken[1] /\ cToken' = <<>>
    /\ buffer' = Tail(buffer) /\ tokenNum' = 2
    /\ UNCHANGED <<loader, chat, messageLen, resp, open, backlog, inbox, peer, link, history>>

IsNumber(t) == Len(t) = 1 /\ t[1] \in DOMAIN strtol

ParseLength ==
    /\ AtPipe(2) /\ status = "REG" /\ IsNumber(cToken)
    /\ messageLen' = strtol[cToken[1]] /\ cToken' = <<>>
    /\ buffer' = Tail(buffer) /\ tokenNum' = 3
    /\ UNCHANGED <<loader, chat, status, resp, open, backlog, inbox, peer, link, history>>

\* The code of an error message; what follows its pipe is not looked at.
ParseError ==
    /\ AtPipe(2) /\ status = "ERR"
    /\ Returned(cToken)
    /\ UNCHANGED <<loader, cur, msgNum, open, backlog, inbox, peer, link, history>>

\* A field that cannot be what its place calls for, or more after the last pipe.
Malformed ==
    \/ tokenNum = 1 /\ cToken \notin {<<"REG">>, <<"ERR">>}
    \/ tokenNum = 2 /\ status = "REG" /\ ~IsNumber(cToken)
    \/ tokenNum = 3 /\ Len(buffer) > 1

msgFormatError ==
    /\ Parsing /\ Head(buffer) = PIPE /\ Malformed
    /\ Returned(<<errorCode(msgNum, "FT")>>)
    /\ UNCHANGED <<loader, cur, msgNum, open, backlog, inbox, peer, link, history>>

Length(t) ==
    LET upTo[n \in 0..Len(t)] == IF n = 0 THEN 0 ELSE upTo[n-1] + strlen[t[n]]
    IN  upTo[Len(t)]

WrongLength(t) ==
    \/ Length(t) # messageLen
    \/ msgNum = 1 /\ Length(t) # 12
    \/ msgNum = 3 /\ Length(t) # strlen[SetupWho]

WrongContent(t) ==
    \/ msgNum = 1 /\ t # <<WhosThere>>
    \/ msgNum = 3 /\ t # <<SetupWho>>
    \/ msgNum = 5 /\ t # <<>> /\ Last(t) \notin Punctuated

\* Variant: the last message is looked at for its punctuation alone.
LaxCheckErrorCode(t) ==
    IF msgNum # 5 /\ WrongLength(t) THEN {errorCode(msgNum, "LN")}
    ELSE IF WrongContent(t) THEN {errorCode(msgNum, "CT")}
    ELSE {""}

\* What is wrong with the text; "" is NULL.  For an empty text msg[msgLen-1] is the
\* byte before the buffer, which may or may not be punctuation.
checkErrorCode(t) ==
    IF WrongLength(t) THEN {errorCode(msgNum, "LN")}
    ELSE IF WrongContent(t) THEN {errorCode(msgNum, "CT")}
    ELSE IF msgNum = 5 /\ t = <<>> THEN {"", errorCode(msgNum, "CT")}
    ELSE {""}

ParseText ==
    /\ AtPipe(3) /\ ~Malformed
    /\ \E e \in checkErrorCode(cToken) : Returned(IF e = "" THEN cToken ELSE <<e>>)
    /\ UNCHANGED <<loader, cur, msgNum, open, backlog, inbox, peer, link, history>>

(***************************************************************************)
(* checkError, and what chatWithClient does with its answer.               *)
(***************************************************************************)
Codes(nums) == {errorCode(n, what) : n \in nums, what \in {"CT", "LN", "FT"}}

\* An error code is a word that is none of the answers, and says what it is about.
ASSUME CodesAssumption ==
    /\ Codes(0..5) \cap ({"", WhosThere, SetupWho} \cup Punctuated) = {}
    /\ Codes({0, 2, 4}) \cap Codes({1, 3, 5}) = {}

Tells(nums) == \E e \in Codes(nums) : resp = <<e>>

\* The client's own complaints are of messages 0, 2 and 4.
ErrorTold ==
    /\ pc = "check" /\ Tells({0, 2, 4})
    /\ HangUp
    /\ UNCHANGED <<loader, backlog, inbox, peer, link, history>>

\* Variant: the chat goes on after an error.
LenientSendError ==
    /\ pc = "check" /\ Tells({1, 3, 5}) /\ Writable(cur)
    /\ errors' = [errors EXCEPT ![cur] = Append(@, resp[1])]
    /\ Wrote(cur)
    /\ pc' = "write" /\ msgNum' = (msgNum + 1) % 6
    /\ ParserReset
    /\ UNCHANGED <<loader, cur, open, backlog, inbox, peer, sent, written>>

sendError ==
    /\ pc = "check" /\ Tells({1, 3, 5}) /\ Writable(cur)
    /\ errors' = [errors EXCEPT ![cur] = Append(@, resp[1])]
    /\ Wrote(cur)
    /\ HangUp
    /\ UNCHANGED <<loader, backlog, inbox, peer, sent, written>>

SendErrorFails ==
    /\ pc = "check" /\ Tells({1, 3, 5}) /\ Broken(cur)
    /\ HangUp
    /\ UNCHANGED <<loader, backlog, inbox, peer, link, history>>

\* A write, of the joke or of an error, after the peer's close and its reset.
AboutToWrite == pc = "write" \/ (pc = "check" /\ Tells({1, 3, 5}))

SigPipe ==
    /\ AboutToWrite /\ Killing(cur)
    /\ pc' = "killed"
    /\ UNCHANGED <<loader, cur, msgNum, parser, open, backlog, inbox, peer, link, history>>

Proceed ==
    /\ pc = "check" /\ ~Tells(0..5) /\ msgNum < 5
    /\ pc' = "write" /\ msgNum' = msgNum + 1
    /\ resp' = <<>>
    /\ UNCHANGED <<loader, cur, buffer, tokenNum, status, cToken, messageLen, open, backlog,
                   inbox, peer, link, history>>

\* Variant: the connection is left open after the joke.
OpenJokeTold ==
    /\ pc = "check" /\ ~Tells(0..5) /\ msgNum = 5
    /\ pc' = "accept" /\ cur' = Nobody /\ msgNum' = 0
    /\ ParserReset
    /\ UNCHANGED <<loader, open, backlog, inbox, peer, link, history>>

JokeTold ==
    /\ pc = "check" /\ ~Tells(0..5) /\ msgNum = 5
    /\ HangUp
    /\ UNCHANGED <<loader, backlog, inbox, peer, link, history>>

Server ==
    \/ getJokes /\ UNCHANGED <<cur, msgNum, parser, open, backlog, inbox, peer, link, history>>
    \/ Accept \/ WriteSocket \/ WriteFails \/ SigPipe
    \/ Read \/ ReadEnds \/ AppendToken
    \/ ParseStatus \/ ParseLength \/ ParseError \/ ParseText \/ msgFormatError
    \/ ErrorTold \/ sendError \/ SendErrorFails
    \/ Proceed \/ JokeTold

Next ==
    \/ Server
    \/ \E c \in Clients : Connect(c) \/ Send(c) \/ Leave(c) \/ ResetArrives(c)

\* The server runs, resets arrive, and no client holds its connection for ever:
\* one that sends no last pipe would otherwise block the server, and all behind it.
Fairness ==
    /\ WF_vars(Server)
    /\ \A c \in Clients : WF_vars(Leave(c)) /\ WF_vars(ResetArrives(c))

Spec == Init /\ [][Next]_vars /\ Fairness

-----------------------------------------------------------------------------
(***************************************************************************)
(* Properties.                                                             *)
(***************************************************************************)
\* Every variable keeps its type.
TypeOK ==
    /\ pc \in {"open", "load", "bind", "accept", "write", "read", "check", "killed", "exited",
              "divided"}
    /\ lineNum \in 1..Len(jokeFile) + 1 /\ isJokeStarted \in BOOLEAN
    /\ cur \in Clients \cup {Nobody}
    /\ msgNum \in 0..5
    /\ pc = "write" => msgNum \in {0, 2, 4}
    /\ pc \in {"read", "check"} => msgNum \in {1, 3, 5}
    /\ tokenNum \in 1..3 /\ status \in {"", "REG", "ERR"} /\ messageLen \in Int
    /\ buffer \in Seq(DOMAIN strlen \cup {PIPE}) /\ cToken \in Seq(DOMAIN strlen)
    /\ resp \in Seq(DOMAIN strlen \cup Codes({1, 3, 5}))
    /\ open \subseteq Clients
    /\ backlog \in Seq(Clients)
    /\ peer \in [Clients -> {"none", "open", "closed", "aborted"}]
    /\ link \in [Clients -> {"up", "resetting", "reset"}]
    /\ written \in [Clients -> 0..3]
    /\ \A c \in Clients : Len(sent[c]) <= 3 /\ Len(errors[c]) <= 1

\* What the protocol allows as message n of the chat.
Acceptable(n, m) ==
    \E d \in DOMAIN strtol, t \in DOMAIN strlen :
        /\ m = <<"REG", PIPE, d, PIPE, t, PIPE>>
        /\ strtol[d] = strlen[t]
        /\ n = 1 => t = WhosThere
        /\ n = 3 => t = SetupWho
        /\ n = 5 => t \in Punctuated

\* A good message with a pipe too many, and an error message with no known code.
Surplus(n, m) == m # <<>> /\ Last(m) = PIPE /\ Acceptable(n, Front(m))
UnknownError(m) ==
    /\ Len(m) = 4 /\ m[1] = "ERR" /\ m[2] = PIPE /\ m[4] = PIPE
    /\ m[3] # PIPE /\ m[3] \notin Codes(0..5)

\* A message that has nothing behind its end that could be taken for the next.
Whole(n, m) == Acceptable(n, m) \/ Surplus(n, m) \/ UnknownError(m)

\* What begins as an answer to the punch line: a text of the length it says that ends
\* with punctuation; or of no length at all, where the byte in front of the buffer decides.
AnswersPunch(m) ==
    \E j \in 5..Len(m) :
        /\ m[1] = "REG" /\ m[2] = PIPE /\ m[3] \in DOMAIN strtol /\ m[4] = PIPE /\ m[j] = PIPE
        /\ \A i \in 5..j - 1 : m[i] # PIPE
        /\ Length(SubSeq(m, 5, j - 1)) = strtol[m[3]]
        /\ j > 5 => m[j - 1] \in Punctuated

\* What begins with the right answer, or as an error message with no known code.
Answers(n, m) ==
    \/ Len(m) >= 6 /\ Acceptable(n, SubSeq(m, 1, 6))
    \/ n = 5 /\ AnswersPunch(m)
    \/ \E j \in 3..Len(m) :
          /\ m[1] = "ERR" /\ m[2] = PIPE /\ m[j] = PIPE /\ \A i \in 3..j - 1 : m[i] # PIPE
          /\ \A e \in Codes(0..5) : SubSeq(m, 3, j - 1) # <<e>>

\* The k-th answer of c has been let pass: the joke has gone on, or is about to go on or,
\* after the punch line, to end without an error.
Passed(c, k) ==
    \/ k < written[c]
    \/ c = cur /\ pc = "check" /\ msgNum = 2*k - 1 /\ ~Tells(0..5)

\* Only the right answer passes, the one to the punch line as well, whatever the division
\* of the stream into reads and however the fields of different messages meet in one read,
\* as long as the answers before it had nothing behind them but the surplus pipe that comes
\* in a read of its own.  The exceptions are the unknown error code, which checkError
\* passes, and for the punch line the empty text of length 0, but none of another length
\* and no other text without punctuation at its end.
AnswerEarned ==
    \A c \in Clients : \A k \in 1..3 :
        Passed(c, k) /\ (\A j \in 1..k - 1 : Whole(2*j - 1, sent[c][j]))
            => k <= Len(sent[c]) /\ Answers(2*k - 1, sent[c][k])

\* A client is sent an error only if one of its messages was not what the protocol
\* asks for: no division into reads makes a good message a bad one.
CompliantNeverRefused ==
    \A c \in Clients :
        errors[c] # <<>> => \E k \in DOMAIN sent[c] : ~Acceptable(2*k - 1, sent[c][k])

\* Nothing is sent after an error, and the error closes the connection.
ErrorEndsChat ==
    [][\A c \in Clients :
          /\ errors[c] # <<>> => UNCHANGED <<written[c], errors[c]>>
          /\ errors'[c] # errors[c] => c \notin open']_vars

\* The one connection that is open is the current one's, and beside it only those
\* of clients that reset it while the server had something to write.
OnlyResetsLeak ==
    \A c \in open : c = cur \/ (link[c] = "reset" /\ peer[c] = "aborted")

\* A client that connects is greeted or finds the server stopped: each chat ahead of
\* it comes to an end.
NobodyWaitsForever ==
    \A c \in Clients :
        peer[c] = "open" ~> written[c] > 0 \/ pc \in {"killed", "exited", "divided"}
                              \/ Broken(c)

-----------------------------------------------------------------------------
(***************************************************************************)
(* What testcases.txt says and the server does not keep.                   *)
(***************************************************************************)
\* "detect message format error if message send from client had too many pipes": a
\* message with a surplus pipe is not answered with the next one of the joke.
SurplusDetected ==
    \A c \in Clients : \A k \in 1..written[c] - 1 : ~Surplus(2*k - 1, sent[c][k])

\* "the server would gracefully exit if the client closed the connection early": it
\* is not killed by a signal.
ClosesSurvived == pc # "killed"
=============================================================================
