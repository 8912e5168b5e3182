------------------------------ MODULE Detector ------------------------------
(***************************************************************************)
(* The threads of Asst2/Asst2.c.  main starts a dirHandler on the starting *)
(* directory; a dirHandler starts one thread for each sub-directory and    *)
(* one fileHandler for each file it could open, appends the file to the    *)
(* shared list under the mutex, and joins what it started.  When the first *)
(* dirHandler has been joined, main reads the list without the mutex.      *)
(*                                                                         *)
(* A thread is named by the directory or the file it works on.  What       *)
(* fileHandler does to its own node's tokens is counted, not spelled out.  *)
(***************************************************************************)
EXTENDS Integers, Sequences, FiniteSets

CONSTANTS
    Dirs, Files, Root,
    Parent,      \* the directory each file and each other directory is in
    Hidden,      \* directories whose name begins with a dot
    Forbidden,   \* directories and files without read permission
    Tokens,      \* how many tokens each file holds
    Null,        \* a NULL pointer, or nobody
    OPEN_MAX     \* file descriptors the process may have

ASSUME TreeAssumption ==
    /\ Root \in Dirs /\ Root \notin Hidden
    /\ Dirs \cap Files = {} /\ Null \notin Dirs \cup Files
    /\ IsFiniteSet(Dirs) /\ IsFiniteSet(Files)
    /\ Parent \in [(Dirs \ {Root}) \cup Files -> Dirs]
    /\ Hidden \subseteq Dirs /\ Forbidden \subseteq Dirs \cup Files
    /\ Tokens \in [Files -> Nat]
    /\ OPEN_MAX \in Nat

Threads == Dirs \cup Files

Entries(d) == {e \in DOMAIN Parent : Parent[e] = d}

VARIABLES
    pc,                \* where each thread is; "none" before it is created
    mainPc,
    unread,            \* entries readdir has still to return, for each dirHandler
    token,             \* the file node the dirHandler is working on
    kids,              \* its list of threads, in the order of creation
    joined,            \* how many of them it has joined
    lock,              \* holder of the mutex
    head, tail, next, size,   \* the list; next is a field of each file's node
    numTokens,         \* local of each fileHandler
    val,               \* val of each file's node
    fds                \* open file descriptors

list == <<head, tail, next, size>>
vars == <<pc, mainPc, unread, token, kids, joined, lock, list, numTokens, val, fds>>

Init ==
    /\ pc = [t \in Threads |-> "none"]
    /\ mainPc = "create"
    /\ unread = [d \in Dirs |-> Entries(d)]
    /\ token = [d \in Dirs |-> Null]
    /\ kids = [d \in Dirs |-> <<>>]
    /\ joined = [d \in Dirs |-> 0]
    /\ lock = Null
    /\ head = Null /\ tail = Null /\ next = [f \in Files |-> Null] /\ size = 0
    /\ numTokens = [f \in Files |-> 0]
    /\ val = [f \in Files |-> 0]
    /\ fds = 0

\* getline on the NULL stream of a failed fopen ends the process.
Crashed == \E f \in Files : pc[f] = "crashed"

At(t, label) == ~Crashed /\ pc[t] = label
Goto(t, label) == pc' = [pc EXCEPT ![t] = label]

(***************************************************************************)
(* dirHandler                                                              *)
(***************************************************************************)
\* A directory that cannot be opened ends its thread, which main or the parent joins.
Opendir(d) ==
    /\ At(d, "opendir")
    /\ IF d \in Forbidden \/ fds = OPEN_MAX
       THEN Goto(d, "exited") /\ UNCHANGED fds
       ELSE Goto(d, "readdir") /\ fds' = fds + 1
    /\ UNCHANGED <<mainPc, unread, token, kids, joined, lock, list, numTokens, val>>

checkValidDir(d) == d \notin Hidden

Create(d, t) ==
    /\ kids' = [kids EXCEPT ![d] = Append(@, t)]
    /\ pc' = [pc EXCEPT ![t] = IF t \in Dirs THEN "opendir" ELSE "fopen",
                        ![d] = "readdir"]

\* readdir returns the entries in no particular order.
ReadDir(d) ==
    /\ At(d, "readdir")
    /\ \E e \in unread[d] \cap Dirs :
          /\ unread' = [unread EXCEPT ![d] = @ \ {e}]
          /\ IF checkValidDir(e) THEN Create(d, e) ELSE UNCHANGED <<pc, kids>>
    /\ UNCHANGED <<mainPc, token, joined, lock, list, numTokens, val, fds>>

\* Variant: a file that cannot be read ends the loop instead of the iteration.
BreakReadFile(d) ==
    /\ At(d, "readdir")
    /\ \E f \in unread[d] \cap Files :
          /\ unread' = [unread EXCEPT ![d] = @ \ {f}]
          /\ IF f \in Forbidden \/ fds = OPEN_MAX
             THEN Goto(d, "join") /\ UNCHANGED <<token, fds>>
             ELSE /\ token' = [token EXCEPT ![d] = f]
                  /\ Goto(d, "lock")
                  /\ fds' = fds + 1
    /\ UNCHANGED <<mainPc, kids, joined, lock, list, numTokens, val>>

\* The stream of the permission check is never closed.
ReadFile(d) ==
    /\ At(d, "readdir")
    /\ \E f \in unread[d] \cap Files :
          /\ unread' = [unread EXCEPT ![d] = @ \ {f}]
          /\ IF f \in Forbidden \/ fds = OPEN_MAX
             THEN UNCHANGED <<pc, token, fds>>
             ELSE /\ token' = [token EXCEPT ![d] = f]
                  /\ Goto(d, "lock")
                  /\ fds' = fds + 1
    /\ UNCHANGED <<mainPc, kids, joined, lock, list, numTokens, val>>

\* Variant: the append is not protected.
NoLock(d) ==
    /\ At(d, "lock")
    /\ lock' = lock
    /\ Goto(d, "link")
    /\ UNCHANGED <<mainPc, unread, token, kids, joined, list, numTokens, val, fds>>

Lock(d) ==
    /\ At(d, "lock")
    /\ lock = Null
    /\ lock' = d
    /\ Goto(d, "link")
    /\ UNCHANGED <<mainPc, unread, token, kids, joined, list, numTokens, val, fds>>

\* appendNode, one store at a time.
AppendLink(d) ==
    /\ At(d, "link")
    /\ IF head = Null /\ tail = Null
       THEN head' = token[d] /\ UNCHANGED next
       ELSE next' = [next EXCEPT ![tail] = token[d]] /\ UNCHANGED head
    /\ Goto(d, "tail")
    /\ UNCHANGED <<mainPc, unread, token, kids, joined, lock, tail, size, numTokens,
                   val, fds>>

AppendTail(d) ==
    /\ At(d, "tail")
    /\ tail' = token[d]
    /\ Goto(d, "size")
    /\ UNCHANGED <<mainPc, unread, token, kids, joined, lock, head, next, size,
                   numTokens, val, fds>>

AppendSize(d) ==
    /\ At(d, "size")
    /\ size' = size + 1
    /\ Goto(d, "unlock")
    /\ UNCHANGED <<mainPc, unread, token, kids, joined, lock, head, tail, next,
                   numTokens, val, fds>>

\* Variant: the mutex is not given back.
KeepLock(d) ==
    /\ At(d, "unlock")
    /\ Goto(d, "create")
    /\ UNCHANGED <<mainPc, unread, token, kids, joined, lock, list, numTokens, val, fds>>

Unlock(d) ==
    /\ At(d, "unlock")
    /\ lock' = Null
    /\ Goto(d, "create")
    /\ UNCHANGED <<mainPc, unread, token, kids, joined, list, numTokens, val, fds>>

CreateFileHandler(d) ==
    /\ At(d, "create")
    /\ Create(d, token[d])
    /\ token' = [token EXCEPT ![d] = Null]
    /\ UNCHANGED <<mainPc, unread, joined, lock, list, numTokens, val, fds>>

EndOfDir(d) ==
    /\ At(d, "readdir")
    /\ unread[d] = {}
    /\ Goto(d, "join")
    /\ UNCHANGED <<mainPc, unread, token, kids, joined, lock, list, numTokens, val, fds>>

\* Variant: a dirHandler joins its sub-directories' threads only.
JoinDirs(d) ==
    /\ At(d, "join")
    /\ joined[d] < Len(kids[d])
    /\ kids[d][joined[d] + 1] \in Dirs => pc[kids[d][joined[d] + 1]] = "exited"
    /\ joined' = [joined EXCEPT ![d] = @ + 1]
    /\ UNCHANGED <<pc, mainPc, unread, token, kids, lock, list, numTokens, val, fds>>

Join(d) ==
    /\ At(d, "join")
    /\ joined[d] < Len(kids[d])
    /\ pc[kids[d][joined[d] + 1]] = "exited"
    /\ joined' = [joined EXCEPT ![d] = @ + 1]
    /\ UNCHANGED <<pc, mainPc, unread, token, kids, lock, list, numTokens, val, fds>>

\* free(dir) gives the memory back; closedir, which would give the descriptor back,
\* is not called.
DirExit(d) ==
    /\ At(d, "join")
    /\ joined[d] = Len(kids[d])
    /\ Goto(d, "exited")
    /\ UNCHANGED <<mainPc, unread, token, kids, joined, lock, list, numTokens, val, fds>>

dirHandler(d) ==
    \/ Opendir(d) \/ ReadDir(d) \/ ReadFile(d) \/ EndOfDir(d)
    \/ Lock(d) \/ AppendLink(d) \/ AppendTail(d) \/ AppendSize(d) \/ Unlock(d)
    \/ CreateFileHandler(d) \/ Join(d) \/ DirExit(d)

(***************************************************************************)
(* fileHandler: it works on its own node, without the mutex.               *)
(***************************************************************************)
Fopen(f) ==
    /\ At(f, "fopen")
    /\ IF fds = OPEN_MAX
       THEN Goto(f, "crashed") /\ UNCHANGED fds
       ELSE Goto(f, "parse") /\ fds' = fds + 1
    /\ UNCHANGED <<mainPc, unread, token, kids, joined, lock, list, numTokens, val>>

ParseToken(f) ==
    /\ At(f, "parse")
    /\ numTokens[f] < Tokens[f]
    /\ numTokens' = [numTokens EXCEPT ![f] = @ + 1]
    /\ UNCHANGED <<pc, mainPc, unread, token, kids, joined, lock, list, val, fds>>

\* Variant: the delimiters between the tokens are counted.
ShortFileExit(f) ==
    /\ At(f, "parse")
    /\ numTokens[f] = Tokens[f]
    /\ val' = [val EXCEPT ![f] = numTokens[f] - 1]
    /\ fds' = fds - 1
    /\ Goto(f, "exited")
    /\ UNCHANGED <<mainPc, unread, token, kids, joined, lock, list, numTokens>>

FileExit(f) ==
    /\ At(f, "parse")
    /\ numTokens[f] = Tokens[f]
    /\ val' = [val EXCEPT ![f] = numTokens[f]]
    /\ fds' = fds - 1
    /\ Goto(f, "exited")
    /\ UNCHANGED <<mainPc, unread, token, kids, joined, lock, list, numTokens>>

fileHandler(f) == Fopen(f) \/ ParseToken(f) \/ FileExit(f)

(***************************************************************************)
(* main                                                                    *)
(***************************************************************************)
MainCreate ==
    /\ ~Crashed /\ mainPc = "create"
    /\ mainPc' = "join"
    /\ Goto(Root, "opendir")
    /\ UNCHANGED <<unread, token, kids, joined, lock, list, numTokens, val, fds>>

MainJoin ==
    /\ ~Crashed /\ mainPc = "join"
    /\ pc[Root] = "exited"
    /\ mainPc' = "output"
    /\ UNCHANGED <<pc, unread, token, kids, joined, lock, list, numTokens, val, fds>>

\* outputResults and freeList.
MainOutput ==
    /\ ~Crashed /\ mainPc = "output"
    /\ mainPc' = "done"
    /\ UNCHANGED <<pc, unread, token, kids, joined, lock, list, numTokens, val, fds>>

main == MainCreate \/ MainJoin \/ MainOutput

Next ==
    \/ main
    \/ \E d \in Dirs : dirHandler(d)
    \/ \E f \in Files : fileHandler(f)

\* The scheduler runs every thread; one that waits for the mutex gets it in the end
\* because every dirHandler takes it only once for each of its files.
Fairness ==
    /\ WF_vars(main)
    /\ \A d \in Dirs : WF_vars(dirHandler(d))
    /\ \A f \in Files : WF_vars(fileHandler(f))

Spec == Init /\ [][Next]_vars /\ Fairness

-----------------------------------------------------------------------------
(***************************************************************************)
(* Properties.                                                             *)
(***************************************************************************)
DirLabels == {"none", "opendir", "readdir", "lock", "link", "tail", "size", "unlock",
              "create", "join", "exited"}
FileLabels == {"none", "fopen", "parse", "exited", "crashed"}

\* Every variable keeps its type.
TypeOK ==
    /\ \A d \in Dirs : pc[d] \in DirLabels
    /\ \A f \in Files : pc[f] \in FileLabels
    /\ mainPc \in {"create", "join", "output", "done"}
    /\ unread \in [Dirs -> SUBSET DOMAIN Parent]
    /\ token \in [Dirs -> Files \cup {Null}]
    /\ kids \in [Dirs -> Seq(Threads)]
    /\ joined \in [Dirs -> Nat]
    /\ lock \in Dirs \cup {Null}
    /\ head \in Files \cup {Null} /\ tail \in Files \cup {Null}
    /\ next \in [Files -> Files \cup {Null}]
    /\ size \in Nat
    /\ numTokens \in [Files -> Nat] /\ val \in [Files -> Nat]
    /\ fds \in 0..OPEN_MAX

\* The nodes a walk from head meets, in order, as far as one node more than size.
Walk ==
    LET from[n \in 1..size + 1] ==
            IF n = 1 THEN head
            ELSE LET f == from[n-1] IN IF f = Null THEN Null ELSE next[f]
    IN  [n \in {k \in DOMAIN from : from[k] # Null} |-> from[n]]

Listed == {Walk[n] : n \in DOMAIN Walk}

\* A file is on the list from appendNode on.
Appended == {f \in Files : pc[f] # "none" \/ \E d \in Dirs : token[d] = f /\ pc[d] = "create"}

\* Whenever the mutex is free the list is whole: one chain from head to tail that
\* meets each appended file once, and size is its length.
ListIntact ==
    lock = Null =>
        LET w == Walk
        IN  /\ {w[n] : n \in DOMAIN w} = Appended
            /\ size = Cardinality(Appended) /\ Cardinality(DOMAIN w) = size
            /\ size > 0 => w[size] = tail

\* A thread that has ended has joined all it started, and they theirs: main, which
\* reads list, val and child without the mutex, has no thread left to race with.
Running(t) == pc[t] \notin {"none", "exited"}
JoinedBelow ==
    /\ \A t \in DOMAIN Parent : Running(t) => Running(Parent[t])
    /\ mainPc \in {"output", "done"} => \A t \in Threads : ~Running(t)

\* The directories a scan is able to reach, and the files in them it can read.
Open(d) == d \notin Forbidden \cup Hidden
ClosedBelow(S) == \A d \in Dirs \ {Root} : Open(d) /\ Parent[d] \in S => d \in S
Reachable ==
    {d \in Dirs : \A S \in SUBSET Dirs : {Root} \ Forbidden \subseteq S /\ ClosedBelow(S) => d \in S}
Readable == {f \in Files \ Forbidden : Parent[f] \in Reachable}

\* main outputs with every file that could be read on the list, and every count final.
OutputComplete ==
    mainPc = "output" =>
        /\ Listed = Readable
        /\ \A f \in Readable : val[f] = Tokens[f]

\* The scan ends and main prints.
Finishes == <>(mainPc = "done")

-----------------------------------------------------------------------------
(***************************************************************************)
(* What comments in Asst2.c say and its steps do not keep.                 *)
(***************************************************************************)
\* "Check if file can be opened with read permissions": a file that passed the
\* check is opened by its fileHandler.
CheckedFileOpens == \A f \in Files : pc[f] # "crashed"

\* "not the special hidden directories (. and ..)": every other directory that can
\* be opened is scanned.
ClosedByName(S) == \A d \in Dirs \ (Forbidden \cup {Root}) : Parent[d] \in S => d \in S
ReachableByName ==
    {d \in Dirs : \A S \in SUBSET Dirs : {Root} \ Forbidden \subseteq S /\ ClosedByName(S) => d \in S}
OnlyDotsSkipped ==
    mainPc = "output" => Listed = {f \in Files \ Forbidden : Parent[f] \in ReachableByName}
=============================================================================
