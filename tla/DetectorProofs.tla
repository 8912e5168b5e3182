--------------------------- MODULE DetectorProofs ---------------------------
(***************************************************************************)
(* Proofs about the threads of the similarity detector, for any tree of    *)
(* directories and files.                                                  *)
(***************************************************************************)
EXTENDS Detector, InductionLemmas

(***************************************************************************)
(* The inductive invariant.                                                *)
(***************************************************************************)
\* The mutex is held by the one thread that is between Lock and Unlock.
InMutex == {"link", "tail", "size", "unlock"}
Mutex == \A d \in Dirs : pc[d] \in InMutex <=> lock = d

\* token is the file that a dirHandler has taken from its directory and has not yet
\* started a thread for.
Working == {"lock"} \cup InMutex \cup {"create"}
TokenHeld ==
    \A d \in Dirs :
        IF pc[d] \in Working
        THEN /\ token[d] \in Files \ Forbidden /\ Parent[token[d]] = d
             /\ token[d] \notin unread[d] /\ pc[token[d]] = "none"
        ELSE token[d] = Null

\* What a dirHandler knows of its directory: nothing before it is open, all but what is
\* unread while it reads.
Scanned ==
    \A d \in Dirs :
        /\ unread[d] \subseteq Entries(d)
        /\ pc[d] \in {"none", "opendir"} \/ d \in Forbidden => unread[d] = Entries(d)
        /\ pc[d] \in {"none", "opendir"} => joined[d] = 0 /\ kids[d] = <<>>
        /\ d \in Forbidden => pc[d] \in {"none", "opendir", "exited"}

\* Whoever runs has been read, was allowed to, and is in its parent's list of threads.
Created ==
    \A t \in DOMAIN Parent :
        pc[t] # "none" =>
            /\ t \notin unread[Parent[t]] /\ t \notin Hidden /\ (t \in Files => t \notin Forbidden)
            /\ \E k \in 1..Len(kids[Parent[t]]) : kids[Parent[t]][k] = t

\* Who has been joined has ended, and who has ended has joined everyone.
JoinedEnded ==
    \A d \in Dirs :
        /\ joined[d] <= Len(kids[d])
        /\ \A k \in 1..joined[d] : pc[kids[d][k]] = "exited"
        /\ pc[d] = "exited" => joined[d] = Len(kids[d])

\* main starts the first dirHandler, and joins it.
RootThread ==
    /\ mainPc = "create" <=> pc[Root] = "none"
    /\ mainPc \in {"output", "done"} => pc[Root] = "exited"

\* A directory tree may not have cycles, but nothing here assumes so: among threads that
\* only descend from one another, and not from the first, none ever runs.
Grounded ==
    \A S \in SUBSET (DOMAIN Parent) :
        (\A t \in S : Parent[t] \in S) => \A t \in S : pc[t] = "none"

\* Only what can be reached is visited.
Within == \A d \in Dirs : pc[d] # "none" /\ d \notin Forbidden => d \in Reachable

\* A file's count is final when its thread ends.
Counted == \A f \in Files : pc[f] = "exited" => val[f] = Tokens[f]

\* The types, with pc as a function of the threads.
Types ==
    /\ pc \in [Threads -> DirLabels \cup FileLabels]
    /\ \A d \in Dirs : pc[d] \in DirLabels
    /\ \A f \in Files : pc[f] \in FileLabels
    /\ mainPc \in {"create", "join", "output", "done"}
    /\ unread \in [Dirs -> SUBSET DOMAIN Parent]
    /\ token \in [Dirs -> Files \cup {Null}]
    /\ kids \in [Dirs -> Seq(Threads)]
    /\ joined \in [Dirs -> Nat]
    /\ lock \in Dirs \cup {Null}
    /\ head \in Files \cup {Null} /\ tail \in Files \cup {Null}
    /\ next \in [Files -> Files \cup {Null}]
    /\ size \in Nat
    /\ numTokens \in [Files -> Nat] /\ val \in [Files -> Nat]

Program == TokenHeld /\ Scanned /\ Created /\ JoinedEnded /\ RootThread
ThreadInv == Types /\ Mutex /\ Program

\* The tree: every thread but the first is an entry of the directory it is in.
LEMMA Tree ==
    /\ Root \in Dirs /\ Null \notin Threads
    /\ Dirs \subseteq Threads /\ Files \subseteq Threads
    /\ \A t \in Threads : t \in Dirs <=> t \notin Files
    /\ DOMAIN Parent = Threads \ {Root}
    /\ \A t \in DOMAIN Parent : Parent[t] \in Dirs
    /\ \A d \in Dirs : Entries(d) = {e \in DOMAIN Parent : Parent[e] = d}
    /\ Root \notin Hidden
BY TreeAssumption DEF Entries, Threads

USE Tree

\* Before main has created a thread, all that is said of threads holds.
LEMMA ThreadInit == Init => ThreadInv
BY DEF Init, ThreadInv, Types, Mutex, Program, TokenHeld, Scanned, Created, JoinedEnded, RootThread,
       DirLabels, FileLabels, InMutex, Working

\* A step of a dirHandler that neither opens its directory nor reads from it.
LEMMA DirMoves ==
    ASSUME ThreadInv, NEW d \in Dirs, NEW label \in DirLabels,
           pc[d] \notin {"none", "opendir", "exited"}, label \notin {"none", "opendir"},
           pc[d] \in Working <=> label \in Working,
           label = "exited" => joined[d] = Len(kids[d]),
           pc' = [pc EXCEPT ![d] = label], UNCHANGED <<mainPc, unread, token, kids, joined>>
    PROVE  Program'
<1> USE DEF ThreadInv, Program
<1>1. pc \in [Threads -> DirLabels \cup FileLabels] /\ kids \in [Dirs -> Seq(Threads)]
      /\ token \in [Dirs -> Files \cup {Null}] /\ joined \in [Dirs -> Nat]
    BY DEF Types
<1>2. TokenHeld'
    BY <1>1 DEF TokenHeld
<1>3. Scanned'
    BY <1>1 DEF Scanned
<1>4. Created'
    BY <1>1 DEF Created
<1>5. JoinedEnded'
    BY <1>1 DEF JoinedEnded
<1>6. RootThread'
    BY <1>1 DEF RootThread
<1> QED
    BY <1>2, <1>3, <1>4, <1>5, <1>6

\* A step of a fileHandler.
LEMMA FileMoves ==
    ASSUME ThreadInv, NEW f \in Files, NEW label \in FileLabels,
           pc[f] \notin {"none", "exited"}, label # "none",
           pc' = [pc EXCEPT ![f] = label], UNCHANGED <<mainPc, unread, token, kids, joined, lock>>
    PROVE  Mutex' /\ Program'
<1> USE DEF ThreadInv, Program
<1>1. pc \in [Threads -> DirLabels \cup FileLabels] /\ kids \in [Dirs -> Seq(Threads)]
      /\ token \in [Dirs -> Files \cup {Null}] /\ joined \in [Dirs -> Nat]
    BY DEF Types
<1>2. TokenHeld'
    BY <1>1 DEF TokenHeld
<1>3. Scanned'
    BY <1>1 DEF Scanned
<1>4. Created'
    BY <1>1 DEF Created
<1>5. JoinedEnded'
    BY <1>1 DEF JoinedEnded
<1>6. RootThread' /\ Mutex'
    BY <1>1 DEF RootThread, Mutex
<1> QED
    BY <1>2, <1>3, <1>4, <1>5, <1>6

\* Opening a directory, or failing to, keeps what is known of the threads.
LEMMA OpendirInv ==
    ASSUME ThreadInv, NEW d \in Dirs, Opendir(d) PROVE ThreadInv'
<1> USE DEF ThreadInv, Program
<1>1. /\ pc[d] = "opendir"
      /\ UNCHANGED <<mainPc, unread, token, kids, joined, lock, list, numTokens, val>>
    BY DEF Opendir, At
<1>2. PICK label \in {"exited", "readdir"} :
        pc' = [pc EXCEPT ![d] = label] /\ (d \in Forbidden => label = "exited")
    BY DEF Opendir, Goto
<1>3. pc \in [Threads -> DirLabels \cup FileLabels] /\ kids \in [Dirs -> Seq(Threads)]
      /\ token \in [Dirs -> Files \cup {Null}] /\ joined \in [Dirs -> Nat]
    BY DEF Types
<1>4. Types'
    BY <1>1, <1>2 DEF Types, list, DirLabels, FileLabels
<1>5. Mutex' /\ TokenHeld'
    BY <1>1, <1>2, <1>3 DEF Mutex, TokenHeld, InMutex, Working
<1>6. Scanned'
    BY <1>1, <1>2, <1>3 DEF Scanned
<1>7. Created'
    BY <1>1, <1>2, <1>3 DEF Created
<1>8. JoinedEnded'
    BY <1>1, <1>2, <1>3 DEF JoinedEnded, Scanned
<1>9. RootThread'
    BY <1>1, <1>2, <1>3 DEF RootThread
<1> QED
    BY <1>4, <1>5, <1>6, <1>7, <1>8, <1>9

\* A thread is started on an entry that has been read.
LEMMA Starts ==
    ASSUME ThreadInv, NEW d \in Dirs, NEW t \in DOMAIN Parent,
           Parent[t] = d, pc[t] = "none", pc[d] \in {"readdir", "create"}, Create(d, t),
           t \notin Hidden, t \in Files => t \notin Forbidden,
           unread' = [unread EXCEPT ![d] = @ \ {t}],
           token' = [token EXCEPT ![d] = Null],
           t \in Dirs => token[d] = Null,
           t \in Files => token[d] = t,
           UNCHANGED <<mainPc, joined, lock, list, numTokens, val>>
    PROVE  ThreadInv'
<1> USE DEF ThreadInv, Program
<1> DEFINE first == IF t \in Dirs THEN "opendir" ELSE "fopen"
<1>1. /\ kids' = [kids EXCEPT ![d] = Append(@, t)]
      /\ pc' = [pc EXCEPT ![t] = first, ![d] = "readdir"]
    BY DEF Create
<1>2. pc \in [Threads -> DirLabels \cup FileLabels] /\ kids \in [Dirs -> Seq(Threads)]
      /\ unread \in [Dirs -> SUBSET DOMAIN Parent]
      /\ token \in [Dirs -> Files \cup {Null}] /\ joined \in [Dirs -> Nat]
    BY DEF Types
<1>3. t # d
    OBVIOUS
<1>4. /\ \A u \in Threads : pc'[u] = IF u = d THEN "readdir" ELSE IF u = t THEN first ELSE pc[u]
      /\ \A e \in Dirs : kids'[e] = IF e = d THEN Append(kids[d], t) ELSE kids[e]
      /\ \A e \in Dirs : token'[e] = IF e = d THEN Null ELSE token[e]
      /\ \A e \in Dirs : unread'[e] = IF e = d THEN unread[d] \ {t} ELSE unread[e]
    BY <1>1, <1>2, <1>3
<1>5. /\ kids' \in [Dirs -> Seq(Threads)]
      /\ Len(kids'[d]) = Len(kids[d]) + 1 /\ kids'[d][Len(kids[d]) + 1] = t
      /\ \A k \in 1..Len(kids[d]) : kids'[d][k] = kids[d][k]
    BY <1>1, <1>2
<1>6. Types'
    <2>1. first \in DirLabels \cup FileLabels /\ (t \in Dirs => first \in DirLabels)
          /\ (t \in Files => first \in FileLabels)
        BY DEF DirLabels, FileLabels
    <2>2. /\ \A e \in Dirs : pc'[e] \in DirLabels
          /\ \A f \in Files : pc'[f] \in FileLabels
        <3>1. \A e \in Dirs : pc[e] \in DirLabels
            BY DEF Types
        <3>2. \A f \in Files : pc[f] \in FileLabels
            BY DEF Types
        <3>3. "readdir" \in DirLabels
            BY DEF DirLabels
        <3> HIDE DEF first
        <3> QED
            BY <1>4, <2>1, <3>1, <3>2, <3>3
    <2>4. pc' \in [Threads -> DirLabels \cup FileLabels]
        <3>1. "readdir" \in DirLabels
            BY DEF DirLabels
        <3> HIDE DEF first
        <3> QED
            BY <1>1, <1>2, <2>1, <3>1
    <2>3. unread' \in [Dirs -> SUBSET DOMAIN Parent] /\ token' \in [Dirs -> Files \cup {Null}]
        BY <1>2
    <2> QED
        BY <1>5, <2>2, <2>3, <2>4 DEF Types, list
<1>7. Mutex'
    BY <1>4 DEF Mutex, InMutex
<1>8. TokenHeld'
    BY <1>4 DEF TokenHeld, InMutex, Working
<1>9. Scanned'
    BY <1>2, <1>4 DEF Scanned
<1>10. Created'
    <2> SUFFICES ASSUME NEW u \in DOMAIN Parent, pc'[u] # "none"
                 PROVE  /\ u \notin unread'[Parent[u]] /\ u \notin Hidden
                        /\ u \in Files => u \notin Forbidden
                        /\ \E k \in 1..Len(kids'[Parent[u]]) : kids'[Parent[u]][k] = u
        BY DEF Created
    <2>1. CASE u = t
        BY <2>1, <1>2, <1>4, <1>5
    <2>2. CASE u # t
        <3>1. pc[u] # "none"
            BY <2>2, <1>4
        <3>2. PICK k \in 1..Len(kids[Parent[u]]) : kids[Parent[u]][k] = u
            BY <3>1 DEF Created
        <3>3. k \in 1..Len(kids'[Parent[u]]) /\ kids'[Parent[u]][k] = u
            BY <3>2, <1>2, <1>4, <1>5
        <3>4. u \notin unread'[Parent[u]]
            BY <3>1, <1>4 DEF Created
        <3> QED
            BY <3>1, <3>3, <3>4 DEF Created
    <2> QED
        BY <2>1, <2>2
<1>11. JoinedEnded'
    <2> SUFFICES ASSUME NEW e \in Dirs
                 PROVE  /\ joined[e] <= Len(kids'[e])
                        /\ \A k \in 1..joined[e] : pc'[kids'[e][k]] = "exited"
                        /\ pc'[e] = "exited" => joined[e] = Len(kids'[e])
        BY DEF JoinedEnded
    <2>1. joined[e] \in Nat /\ kids[e] \in Seq(Threads) /\ joined[e] <= Len(kids[e])
          /\ \A k \in 1..joined[e] : kids[e][k] \in Threads /\ pc[kids[e][k]] = "exited"
        BY <1>2 DEF JoinedEnded
    <2>2. \A k \in 1..joined[e] : kids'[e][k] = kids[e][k]
        <3>1. CASE e = d
            <4>1. Len(kids[d]) \in Nat /\ \A k \in 1..joined[e] : k \in 1..Len(kids[d])
                BY <2>1, <3>1
            <4> QED
                BY <1>5, <3>1, <4>1
        <3>2. CASE e # d
            <4>1. kids'[e] = kids[e]
                BY <1>4, <3>2
            <4> QED
                BY <4>1
        <3> QED
            BY <3>1, <3>2
    <2>3. \A k \in 1..joined[e] : pc'[kids'[e][k]] = "exited"
        BY <2>1, <2>2, <1>4
    <2>4. joined[e] <= Len(kids'[e])
        BY <2>1, <1>4, <1>5
    <2>5. pc'[e] = "exited" => e # d /\ e # t /\ pc[e] = "exited"
        BY <1>4
    <2> QED
        BY <2>3, <2>4, <2>5, <1>4 DEF JoinedEnded
<1>12. RootThread'
    BY <1>4 DEF RootThread
<1> QED
    BY <1>6, <1>7, <1>8, <1>9, <1>10, <1>11, <1>12

\* So does reading the entry of a sub-directory, which starts its thread.
LEMMA ReadDirInv ==
    ASSUME ThreadInv, NEW d \in Dirs, ReadDir(d) PROVE ThreadInv'
<1> USE DEF ThreadInv, Program
<1>1. PICK e \in unread[d] \cap Dirs :
        /\ unread' = [unread EXCEPT ![d] = @ \ {e}]
        /\ IF checkValidDir(e) THEN Create(d, e) ELSE UNCHANGED <<pc, kids>>
    BY DEF ReadDir
<1>2. /\ pc[d] = "readdir"
      /\ UNCHANGED <<mainPc, token, joined, lock, list, numTokens, val>>
    BY DEF ReadDir, At
<1>3. /\ token \in [Dirs -> Files \cup {Null}] /\ unread \in [Dirs -> SUBSET DOMAIN Parent]
    BY DEF Types
<1>4. e \in DOMAIN Parent /\ Parent[e] = d /\ pc[e] = "none" /\ token[d] = Null
    BY <1>1, <1>2, <1>3 DEF Scanned, Created, TokenHeld, Working, InMutex
<1>5. CASE checkValidDir(e)
    <2>1. Create(d, e) /\ e \notin Hidden
        BY <1>1, <1>5 DEF checkValidDir
    <2>2. token' = [token EXCEPT ![d] = Null]
        BY <1>2, <1>3, <1>4
    <2> QED
        BY <1>1, <1>2, <1>4, <2>1, <2>2, Starts
<1>6. CASE ~checkValidDir(e)
    <2>1. UNCHANGED <<pc, kids>>
        BY <1>1, <1>6
    <2>2. Types'
        BY <1>1, <1>2, <2>1 DEF Types, list
    <2>3. Mutex' /\ TokenHeld' /\ JoinedEnded' /\ RootThread'
        BY <1>1, <1>2, <1>3, <2>1 DEF Mutex, TokenHeld, JoinedEnded, RootThread
    <2>4. Scanned' /\ Created'
        BY <1>1, <1>2, <1>3, <2>1 DEF Scanned, Created
    <2> QED
        BY <2>2, <2>3, <2>4
<1> QED
    BY <1>5, <1>6

\* So does reading the entry of a file, which becomes the dirHandler's token.
LEMMA ReadFileInv ==
    ASSUME ThreadInv, NEW d \in Dirs, ReadFile(d) PROVE ThreadInv'
<1> USE DEF ThreadInv, Program
<1>1. PICK f \in unread[d] \cap Files :
        /\ unread' = [unread EXCEPT ![d] = @ \ {f}]
        /\ IF f \in Forbidden \/ fds = OPEN_MAX
           THEN UNCHANGED <<pc, token, fds>>
           ELSE token' = [token EXCEPT ![d] = f] /\ Goto(d, "lock")
    BY DEF ReadFile
<1>2. /\ pc[d] = "readdir"
      /\ UNCHANGED <<mainPc, kids, joined, lock, list, numTokens, val>>
    BY DEF ReadFile, At
<1>3. /\ token \in [Dirs -> Files \cup {Null}] /\ unread \in [Dirs -> SUBSET DOMAIN Parent]
      /\ pc \in [Threads -> DirLabels \cup FileLabels] /\ kids \in [Dirs -> Seq(Threads)]
      /\ joined \in [Dirs -> Nat]
    BY DEF Types
<1>4. f \in DOMAIN Parent /\ Parent[f] = d /\ pc[f] = "none" /\ token[d] = Null
    <2>1. f \in DOMAIN Parent /\ Parent[f] = d
        BY <1>1, <1>3 DEF Scanned
    <2> QED
        BY <1>1, <1>2, <2>1 DEF Created, TokenHeld, Working, InMutex
<1>5. Scanned' /\ Created'
    <2>1. \A t \in Threads : pc'[t] # pc[t] => t = d /\ pc'[d] = "lock"
        BY <1>1, <1>3 DEF Goto
    <2> QED
        BY <1>1, <1>2, <1>3, <2>1 DEF Scanned, Created
<1>6. CASE f \in Forbidden \/ fds = OPEN_MAX
    <2>1. UNCHANGED <<pc, token>>
        BY <1>1, <1>6
    <2>2. Types'
        BY <1>1, <1>2, <2>1 DEF Types, list
    <2>3. Mutex' /\ TokenHeld' /\ JoinedEnded' /\ RootThread'
        BY <1>1, <1>2, <1>3, <2>1 DEF Mutex, TokenHeld, JoinedEnded, RootThread
    <2> QED
        BY <1>5, <2>2, <2>3
<1>7. CASE ~(f \in Forbidden \/ fds = OPEN_MAX)
    <2>1. token' = [token EXCEPT ![d] = f] /\ pc' = [pc EXCEPT ![d] = "lock"]
        BY <1>1, <1>7 DEF Goto
    <2>2. Types'
        BY <1>1, <1>2, <2>1 DEF Types, list, DirLabels, FileLabels
    <2>3. Mutex' /\ RootThread'
        BY <1>2, <1>3, <2>1 DEF Mutex, RootThread, InMutex
    <2>4. TokenHeld'
        BY <1>1, <1>2, <1>3, <1>4, <1>7, <2>1 DEF TokenHeld, Working
    <2>5. JoinedEnded'
        BY <1>2, <1>3, <2>1 DEF JoinedEnded
    <2> QED
        BY <1>5, <2>2, <2>3, <2>4, <2>5
<1> QED
    BY <1>6, <1>7

\* So does starting the thread of the file that is held.
LEMMA CreateFileHandlerInv ==
    ASSUME ThreadInv, NEW d \in Dirs, CreateFileHandler(d) PROVE ThreadInv'
<1>1. /\ pc[d] = "create" /\ Create(d, token[d]) /\ token' = [token EXCEPT ![d] = Null]
      /\ UNCHANGED <<mainPc, unread, joined, lock, list, numTokens, val>>
    BY DEF CreateFileHandler, At
<1>2. /\ token[d] \in Files \ Forbidden /\ Parent[token[d]] = d /\ pc[token[d]] = "none"
      /\ token[d] \notin unread[d]
    BY <1>1 DEF ThreadInv, Program, TokenHeld, Working
<1>3. token[d] \in DOMAIN Parent /\ token[d] \notin Hidden
    BY <1>2, TreeAssumption
<1>4. unread' = [unread EXCEPT ![d] = @ \ {token[d]}]
    BY <1>1, <1>2 DEF ThreadInv, Types
<1> QED
    BY <1>1, <1>2, <1>3, <1>4, Starts

\* So does joining the next thread of the list, which has ended.
LEMMA JoinInv ==
    ASSUME ThreadInv, NEW d \in Dirs, Join(d) PROVE ThreadInv'
<1> USE DEF ThreadInv, Program
<1>1. /\ pc[d] = "join" /\ joined[d] < Len(kids[d]) /\ pc[kids[d][joined[d] + 1]] = "exited"
      /\ joined' = [joined EXCEPT ![d] = @ + 1]
      /\ UNCHANGED <<pc, mainPc, unread, token, kids, lock, list, numTokens, val>>
    BY DEF Join, At
<1>2. kids \in [Dirs -> Seq(Threads)] /\ joined \in [Dirs -> Nat]
    BY DEF Types
<1>3. Types'
    BY <1>1 DEF Types, list
<1>4. Mutex' /\ TokenHeld' /\ Created' /\ RootThread'
    BY <1>1 DEF Mutex, TokenHeld, Created, RootThread
<1>5. Scanned'
    BY <1>1, <1>2 DEF Scanned
<1>6. JoinedEnded'
    BY <1>1, <1>2 DEF JoinedEnded
<1> QED
    BY <1>3, <1>4, <1>5, <1>6

\* So does the creation of the first thread.
LEMMA MainCreateInv ==
    ASSUME ThreadInv, MainCreate PROVE ThreadInv'
<1> USE DEF ThreadInv, Program
<1>1. /\ mainPc = "create" /\ mainPc' = "join" /\ pc' = [pc EXCEPT ![Root] = "opendir"]
      /\ UNCHANGED <<unread, token, kids, joined, lock, list, numTokens, val>>
    BY DEF MainCreate, Goto
<1>2. pc \in [Threads -> DirLabels \cup FileLabels] /\ kids \in [Dirs -> Seq(Threads)]
      /\ joined \in [Dirs -> Nat] /\ token \in [Dirs -> Files \cup {Null}]
    BY DEF Types
<1>3. pc[Root] = "none"
    BY <1>1 DEF RootThread
<1>4. Types'
    BY <1>1 DEF Types, list, DirLabels, FileLabels
<1>5. Mutex' /\ TokenHeld' /\ RootThread'
    BY <1>1, <1>2, <1>3 DEF Mutex, TokenHeld, RootThread, InMutex, Working
<1>6. Scanned' /\ Created'
    BY <1>1, <1>2, <1>3 DEF Scanned, Created
<1>7. JoinedEnded'
    BY <1>1, <1>2, <1>3 DEF JoinedEnded
<1> QED
    BY <1>4, <1>5, <1>6, <1>7

\* Every step of every thread keeps what is known of the threads.
LEMMA ThreadStep == ThreadInv /\ [Next]_vars => ThreadInv'
<1> SUFFICES ASSUME ThreadInv, [Next]_vars PROVE ThreadInv'
    OBVIOUS
<1> USE DEF ThreadInv
<1>1. ASSUME NEW d \in Dirs, EndOfDir(d) \/ DirExit(d) PROVE ThreadInv'
    <2>1. PICK label \in {"join", "exited"} :
            /\ pc[d] \in {"readdir", "join"} /\ pc' = [pc EXCEPT ![d] = label]
            /\ label = "exited" => joined[d] = Len(kids[d])
        BY <1>1 DEF EndOfDir, DirExit, At, Goto
    <2>2. UNCHANGED <<mainPc, unread, token, kids, joined, lock, list, numTokens, val>>
        BY <1>1 DEF EndOfDir, DirExit
    <2>3. Types' /\ Mutex'
        BY <2>1, <2>2 DEF Types, Mutex, InMutex, list, DirLabels, FileLabels
    <2>4. Program'
        BY <2>1, <2>2, DirMoves DEF DirLabels, Working, InMutex
    <2> QED
        BY <2>3, <2>4
<1>2. ASSUME NEW d \in Dirs, Lock(d) \/ Unlock(d) PROVE ThreadInv'
    <2>1. PICK label \in {"link", "create"} :
            /\ pc[d] \in {"lock", "unlock"} /\ pc' = [pc EXCEPT ![d] = label]
            /\ label = "link" => lock = Null /\ lock' = d
            /\ label = "create" => pc[d] = "unlock" /\ lock' = Null
        BY <1>2 DEF Lock, Unlock, At, Goto
    <2>2. UNCHANGED <<mainPc, unread, token, kids, joined, list, numTokens, val>>
        BY <1>2 DEF Lock, Unlock
    <2>3. Types'
        BY <2>1, <2>2 DEF Types, list, DirLabels, FileLabels
    <2>4. Mutex'
        BY <2>1, <2>2 DEF Types, Mutex, InMutex
    <2>5. Program'
        BY <2>1, <2>2, DirMoves DEF DirLabels, Working, InMutex
    <2> QED
        BY <2>3, <2>4, <2>5
<1>3. ASSUME NEW d \in Dirs, AppendLink(d) \/ AppendTail(d) \/ AppendSize(d) PROVE ThreadInv'
    <2>1. PICK label \in {"tail", "size", "unlock"} :
            pc[d] \in {"link", "tail", "size"} /\ pc' = [pc EXCEPT ![d] = label]
        BY <1>3 DEF AppendLink, AppendTail, AppendSize, At, Goto
    <2>2. UNCHANGED <<mainPc, unread, token, kids, joined, lock, numTokens, val>>
        BY <1>3 DEF AppendLink, AppendTail, AppendSize
    <2>3. token[d] \in Files
        BY <2>1 DEF Program, TokenHeld, Working, InMutex
    <2>4. /\ head' \in Files \cup {Null} /\ tail' \in Files \cup {Null}
          /\ next' \in [Files -> Files \cup {Null}] /\ size' \in Nat
        <3>1. CASE AppendLink(d)
            BY <2>3, <3>1 DEF AppendLink, Types
        <3>2. CASE AppendTail(d)
            BY <2>3, <3>2 DEF AppendTail, Types
        <3>3. CASE AppendSize(d)
            BY <2>3, <3>3 DEF AppendSize, Types
        <3> QED
            BY <1>3, <3>1, <3>2, <3>3
    <2>5. Types'
        BY <2>1, <2>2, <2>4 DEF Types, DirLabels, FileLabels
    <2>6. Mutex'
        BY <2>1, <2>2 DEF Types, Mutex, InMutex
    <2>7. Program'
        BY <2>1, <2>2, DirMoves DEF DirLabels, Working, InMutex
    <2> QED
        BY <2>5, <2>6, <2>7
<1>4. ASSUME NEW f \in Files, Fopen(f) \/ FileExit(f) PROVE ThreadInv'
    <2>1. PICK label \in {"parse", "crashed", "exited"} :
            pc[f] \in {"fopen", "parse"} /\ pc' = [pc EXCEPT ![f] = label]
        BY <1>4 DEF Fopen, FileExit, At, Goto
    <2>2. UNCHANGED <<mainPc, unread, token, kids, joined, lock, list, numTokens>>
        BY <1>4 DEF Fopen, FileExit
    <2>3. val' \in [Files -> Nat]
        BY <1>4 DEF Fopen, FileExit, Types
    <2>4. Types'
        BY <2>1, <2>2, <2>3 DEF Types, list, DirLabels, FileLabels
    <2> QED
        BY <2>1, <2>2, <2>4, FileMoves DEF FileLabels
<1>5. ASSUME NEW f \in Files, ParseToken(f) PROVE ThreadInv'
    <2>1. /\ UNCHANGED <<pc, mainPc, unread, token, kids, joined, lock, list, val>>
          /\ numTokens' = [numTokens EXCEPT ![f] = @ + 1]
        BY <1>5 DEF ParseToken
    <2> QED
        BY <2>1 DEF Types, list, Mutex, Program, TokenHeld, Scanned, Created, JoinedEnded, RootThread
<1>6. CASE MainJoin \/ MainOutput
    <2>1. /\ UNCHANGED <<pc, unread, token, kids, joined, lock, list, numTokens, val>>
          /\ mainPc' \in {"output", "done"} /\ mainPc # "create"
          /\ mainPc = "join" => pc[Root] = "exited"
          /\ mainPc \in {"join", "output"}
        BY <1>6 DEF MainJoin, MainOutput
    <2> QED
        BY <2>1 DEF Types, list, Mutex, Program, TokenHeld, Scanned, Created, JoinedEnded, RootThread
<1>7. CASE UNCHANGED vars
    BY <1>7 DEF vars, list, Types, Mutex, Program, TokenHeld, Scanned, Created, JoinedEnded, RootThread
<1> QED
    BY <1>1, <1>2, <1>3, <1>4, <1>5, <1>6, <1>7, OpendirInv, ReadDirInv, ReadFileInv,
       CreateFileHandlerInv, JoinInv, MainCreateInv
    DEF Next, main, dirHandler, fileHandler

-----------------------------------------------------------------------------
(***************************************************************************)
(* Who is started, and who is joined.                                      *)
(***************************************************************************)

\* A thread is started by main, or by the thread of the directory it is in.
LEMMA Births ==
    ASSUME ThreadInv, [Next]_vars,
           NEW t \in Threads, pc[t] = "none", pc'[t] # "none"
    PROVE  \/ t = Root
           \/ /\ t \in DOMAIN Parent /\ pc[Parent[t]] # "none" /\ Parent[t] \notin Forbidden
              /\ t \notin Hidden
<1> USE DEF ThreadInv, Program
<1>1. pc \in [Threads -> DirLabels \cup FileLabels]
    BY DEF Types
<1>2. ASSUME NEW d \in Dirs, ReadDir(d)
      PROVE  t \in DOMAIN Parent /\ pc[Parent[t]] # "none" /\ Parent[t] \notin Forbidden
             /\ t \notin Hidden
    <2>1. pc[d] = "readdir"
        BY <1>2 DEF ReadDir, At
    <2>2. t \in unread[d] /\ t \notin Hidden
        BY <1>1, <1>2, <2>1 DEF ReadDir, Create, checkValidDir
    <2>3. t \in Entries(d) /\ d \notin Forbidden
        BY <2>1, <2>2 DEF Scanned
    <2> QED
        BY <2>1, <2>2, <2>3
<1>3. ASSUME NEW d \in Dirs, CreateFileHandler(d)
      PROVE  t \in DOMAIN Parent /\ pc[Parent[t]] # "none" /\ Parent[t] \notin Forbidden
             /\ t \notin Hidden
    <2>1. pc[d] = "create" /\ token[d] \in Files /\ Parent[token[d]] = d
        BY <1>3 DEF CreateFileHandler, At, TokenHeld, Working
    <2>2. t = token[d]
        BY <1>1, <1>3, <2>1 DEF CreateFileHandler, Create
    <2>3. d \notin Forbidden
        BY <2>1 DEF Scanned
    <2> QED
        BY <2>1, <2>2, <2>3, TreeAssumption
<1>4. CASE MainCreate
    BY <1>1, <1>4 DEF MainCreate, Goto
<1>5. ASSUME NEW d \in Dirs,
             \/ Opendir(d) \/ ReadFile(d) \/ EndOfDir(d) \/ Lock(d) \/ AppendLink(d)
             \/ AppendTail(d) \/ AppendSize(d) \/ Unlock(d) \/ Join(d) \/ DirExit(d)
      PROVE  FALSE
    <2>1. pc[d] # "none"
        BY <1>5 DEF Opendir, ReadFile, EndOfDir, Lock, AppendLink, AppendTail, AppendSize,
                    Unlock, Join, DirExit, At
    <2>2. pc' = pc \/ \E label : pc' = [pc EXCEPT ![d] = label]
        BY <1>5 DEF Opendir, ReadFile, EndOfDir, Lock, AppendLink, AppendTail, AppendSize,
                    Unlock, Join, DirExit, Goto
    <2> QED
        BY <1>1, <2>1, <2>2
<1>6. ASSUME NEW f \in Files, fileHandler(f)
      PROVE  FALSE
    <2>1. pc[f] # "none" /\ (pc' = pc \/ \E label : pc' = [pc EXCEPT ![f] = label])
        BY <1>6 DEF fileHandler, Fopen, ParseToken, FileExit, At, Goto
    <2> QED
        BY <1>1, <2>1
<1>7. pc' # pc
    OBVIOUS
<1> QED
    BY <1>2, <1>3, <1>4, <1>5, <1>6, <1>7
    DEF Next, main, dirHandler, MainJoin, MainOutput, vars

\* No thread runs that does not descend from the first.
LEMMA GroundedStep == ThreadInv /\ Grounded /\ [Next]_vars => Grounded'
<1> SUFFICES ASSUME ThreadInv, Grounded, [Next]_vars,
                    NEW S \in SUBSET (DOMAIN Parent), \A u \in S : Parent[u] \in S,
                    NEW t \in S, pc'[t] # "none"
             PROVE  FALSE
    BY DEF Grounded
<1>1. pc[t] = "none" /\ pc[Parent[t]] = "none" /\ t # Root /\ t \in Threads
    BY DEF Grounded
<1> QED
    BY <1>1, Births

\* While anyone runs its parent runs: else some running thread would be among threads that
\* descend only from one another.
LEMMA Below == ThreadInv /\ Grounded => JoinedBelow
<1> SUFFICES ASSUME ThreadInv, Grounded PROVE JoinedBelow
    OBVIOUS
<1> USE DEF ThreadInv, Program
<1>1. ASSUME NEW t \in DOMAIN Parent, Running(t) PROVE Running(Parent[t])
    <2>1. pc[t] # "none" /\ pc[t] # "exited"
        BY <1>1 DEF Running
    <2>2. PICK k \in 1..Len(kids[Parent[t]]) : kids[Parent[t]][k] = t
        BY <2>1 DEF Created
    <2>3. t \in Entries(Parent[t]) \ unread[Parent[t]]
        BY <2>1 DEF Created
    <2>4. pc[Parent[t]] # "none"
        BY <2>3 DEF Scanned
    <2>5. pc[Parent[t]] # "exited"
        BY <2>1, <2>2 DEF JoinedEnded
    <2> QED
        BY <2>4, <2>5 DEF Running
<1>2. ASSUME mainPc \in {"output", "done"}, NEW t \in Threads, Running(t) PROVE FALSE
    <2> DEFINE S == {u \in Threads : Running(u)}
    <2>1. S \in SUBSET (DOMAIN Parent)
        BY <1>2 DEF RootThread, Running
    <2>2. \A u \in S : Parent[u] \in S
        BY <1>1, <2>1
    <2>3. \A u \in S : pc[u] = "none"
        BY <2>1, <2>2 DEF Grounded
    <2> QED
        BY <1>2, <2>3 DEF Running
<1> QED
    BY <1>1, <1>2 DEF JoinedBelow

\* Reachable holds the first directory and is closed, and no smaller set is.
LEMMA ReachableLeast ==
    /\ {Root} \ Forbidden \subseteq Reachable /\ ClosedBelow(Reachable)
    /\ \A S \in SUBSET Dirs : {Root} \ Forbidden \subseteq S /\ ClosedBelow(S) => Reachable \subseteq S
BY DEF Reachable, ClosedBelow

\* Only what can be reached is visited, since a thread starts the threads of what it reads.
LEMMA WithinStep == ThreadInv /\ Within /\ [Next]_vars => Within'
<1> SUFFICES ASSUME ThreadInv, Within, [Next]_vars,
                    NEW d \in Dirs, pc'[d] # "none", d \notin Forbidden
             PROVE  d \in Reachable
    BY DEF Within
<1>1. CASE pc[d] # "none"
    BY <1>1 DEF Within
<1>2. CASE pc[d] = "none"
    <2>1. d = Root \/ (d # Root /\ pc[Parent[d]] # "none" /\ Parent[d] \notin Forbidden
                        /\ d \notin Hidden)
        BY <1>2, Births
    <2> QED
        BY <2>1, ReachableLeast DEF Within, ClosedBelow, Open
<1> QED
    BY <1>1, <1>2

\* A fileHandler stores its count as it ends, and nobody else does.
LEMMA CountedStep == ThreadInv /\ Counted /\ [Next]_vars => Counted'
<1> SUFFICES ASSUME ThreadInv, Counted, [Next]_vars,
                    NEW f \in Files, pc'[f] = "exited"
             PROVE  val'[f] = Tokens[f]
    BY DEF Counted
<1>1. /\ pc \in [Threads -> DirLabels \cup FileLabels] /\ val \in [Files -> Nat]
      /\ \A d \in Dirs, u \in Files : d # u
    BY DEF ThreadInv, Types
<1>2. CASE pc[f] = "exited" /\ val' = val
    BY <1>2 DEF Counted
<1>3. ASSUME NEW g \in Files, FileExit(g) PROVE val'[f] = Tokens[f]
    <2>1. /\ val' = [val EXCEPT ![g] = numTokens[g]] /\ numTokens[g] = Tokens[g]
          /\ pc' = [pc EXCEPT ![g] = "exited"]
        BY <1>3 DEF FileExit, Goto
    <2> QED
        BY <1>1, <2>1 DEF Counted
<1>4. ASSUME NEW g \in Files, Fopen(g) \/ ParseToken(g) PROVE pc[f] = "exited" /\ val' = val
    BY <1>1, <1>4 DEF Fopen, ParseToken, Goto
<1>5. ASSUME NEW d \in Dirs, dirHandler(d) PROVE pc[f] = "exited" /\ val' = val
    <2>1. val' = val
        BY <1>5 DEF dirHandler, Opendir, ReadDir, ReadFile, EndOfDir, Lock, AppendLink,
                    AppendTail, AppendSize, Unlock, CreateFileHandler, Join, DirExit
    <2>2. CASE ReadDir(d) \/ CreateFileHandler(d)
        BY <1>1, <2>1, <2>2 DEF ReadDir, CreateFileHandler, Create
    <2>3. CASE ~(ReadDir(d) \/ CreateFileHandler(d))
        <3>1. pc' = pc \/ \E label : pc' = [pc EXCEPT ![d] = label]
            BY <1>5, <2>3 DEF dirHandler, Opendir, ReadFile, EndOfDir, Lock, AppendLink,
                              AppendTail, AppendSize, Unlock, Join, DirExit, Goto
        <3> QED
            BY <1>1, <2>1, <3>1
    <2> QED
        BY <2>1, <2>2, <2>3
<1>6. CASE main \/ UNCHANGED vars
    BY <1>1, <1>2, <1>6 DEF main, MainCreate, MainJoin, MainOutput, Goto, vars
<1> QED
    BY <1>2, <1>3, <1>4, <1>5, <1>6 DEF Next, fileHandler

-----------------------------------------------------------------------------
(***************************************************************************)
(* The shared list.                                                        *)
(***************************************************************************)

\* How far the holder of the mutex is with its node.
Stage == IF lock = Null THEN "link" ELSE pc[lock]
Members == Appended \cup (IF Stage \in {"tail", "size", "unlock"} THEN {token[lock]} ELSE {})

\* The nodes in the order in which they were linked: next leads from each to the one
\* behind it, and tail and size are behind by what the holder has still to store.
Chain(order) ==
    LET n == Len(order)
        stored == IF Stage = "tail" THEN n - 1 ELSE n
    IN  /\ \A i, j \in 1..n : order[i] = order[j] => i = j
        /\ {order[i] : i \in 1..n} = Members
        /\ head = IF n = 0 THEN Null ELSE order[1]
        /\ \A i \in 1..n - 1 : next[order[i]] = order[i + 1]
        /\ \A f \in Files : (f \notin Members \/ (n > 0 /\ f = order[n])) => next[f] = Null
        /\ tail = IF stored = 0 THEN Null ELSE order[stored]
        /\ size = IF Stage \in {"tail", "size"} THEN n - 1 ELSE n
        /\ Stage \in {"tail", "size", "unlock"} => n > 0 /\ order[n] = token[lock]

ListInv == \E order \in Seq(Files) : Chain(order)

\* The empty list is a chain.
LEMMA ListInit == Init => ListInv
<1> SUFFICES ASSUME Init PROVE ListInv
    OBVIOUS
<1>1. Stage = "link" /\ Members = {}
    BY DEF Init, Stage, Members, Appended
<1>2. Chain(<<>>)
    BY <1>1 DEF Init, Chain
<1>3. <<>> \in Seq(Files)
    OBVIOUS
<1> QED
    BY <1>2, <1>3 DEF ListInv

\* The files that have been appended are those with a thread, and those about to get one.
LEMMA SameAppended ==
    ASSUME ThreadInv, \A f \in Files : pc'[f] = "none" <=> pc[f] = "none",
           \A d \in Dirs : pc'[d] = "create" <=> pc[d] = "create",
           \A d \in Dirs : pc[d] = "create" => token'[d] = token[d]
    PROVE  Appended' = Appended
BY DEF Appended

\* A step that is not on the list.
LEMMA KeepsList ==
    ASSUME ThreadInv, ListInv, UNCHANGED list, Appended' = Appended, Stage' = Stage,
           Stage \in {"tail", "size", "unlock"} => lock' = lock /\ token'[lock] = token[lock]
    PROVE  ListInv'
<1>1. Members' = Members
    BY DEF Members
<1>2. PICK order \in Seq(Files) : Chain(order)
    BY DEF ListInv
<1>3. Chain(order)'
    BY <1>1, <1>2 DEF Chain, list
<1> QED
    BY <1>3 DEF ListInv

\* Every step keeps the list a chain: the three stores of appendNode between Lock and
\* Unlock by moving the stage with the label of the holder, every other by leaving it alone.
LEMMA ListStep == ThreadInv /\ ListInv /\ [Next]_vars => ListInv'
<1> SUFFICES ASSUME ThreadInv, ListInv, [Next]_vars PROVE ListInv'
    OBVIOUS
<1> USE DEF ThreadInv, Program
<1>1. /\ pc \in [Threads -> DirLabels \cup FileLabels] /\ token \in [Dirs -> Files \cup {Null}]
      /\ lock \in Dirs \cup {Null} /\ next \in [Files -> Files \cup {Null}] /\ size \in Nat
      /\ \A d \in Dirs : pc[d] \in DirLabels
    BY DEF Types
<1>2. /\ \A d \in Dirs : pc[d] \in InMutex <=> lock = d
      /\ \A d \in Dirs, f \in Files : d # f /\ d # Null /\ f # Null
    BY DEF Mutex
<1>3. PICK order \in Seq(Files) : Chain(order)
    BY DEF ListInv
<1>4. ASSUME NEW d \in Dirs, AppendLink(d) PROVE ListInv'
    <2>1. /\ pc[d] = "link" /\ pc' = [pc EXCEPT ![d] = "tail"]
          /\ UNCHANGED <<lock, tail, size, token>>
        BY <1>4 DEF AppendLink, At, Goto
    <2>2. lock = d /\ Stage = "link" /\ Stage' = "tail"
        BY <1>1, <1>2, <2>1 DEF Stage, InMutex
    <2>3. token[d] \in Files /\ Parent[token[d]] = d /\ pc[token[d]] = "none"
        BY <2>1 DEF TokenHeld, Working, InMutex
    <2>4. token[d] \notin Members /\ Members = Appended
        <3>1. ASSUME NEW e \in Dirs, token[e] = token[d], pc[e] = "create" PROVE FALSE
            <4>1. Parent[token[e]] = e
                BY <3>1 DEF TokenHeld, Working
            <4> QED
                BY <3>1, <4>1, <2>1, <2>3
        <3> QED
            BY <2>2, <2>3, <3>1 DEF Members, Appended
    <2>5. Members' = Members \cup {token[d]}
        <3>1. Appended' = Appended
            BY <1>1, <1>2, <2>1, SameAppended
        <3> QED
            BY <2>1, <2>2, <2>4, <3>1 DEF Members
    <2> DEFINE n == Len(order)
    <2>6. PICK longer \in Seq(Files) :
            /\ Len(longer) = n + 1 /\ n \in Nat /\ longer[n + 1] = token[d]
            /\ \A i \in 1..n : longer[i] = order[i] /\ order[i] \in Files
        <3> DEFINE s == Append(order, token[d])
        <3>1. s \in Seq(Files) /\ Len(s) = n + 1 /\ n \in Nat /\ s[n + 1] = token[d]
            BY <2>3
        <3>2. \A i \in 1..n : s[i] = order[i] /\ order[i] \in Files
            OBVIOUS
        <3> HIDE DEF n, s
        <3> QED
            BY <3>1, <3>2
    <2>7. /\ \A i, j \in 1..n : order[i] = order[j] => i = j
          /\ {order[i] : i \in 1..n} = Members
          /\ head = IF n = 0 THEN Null ELSE order[1]
          /\ \A i \in 1..n - 1 : next[order[i]] = order[i + 1]
          /\ \A f \in Files : (f \notin Members \/ (n > 0 /\ f = order[n])) => next[f] = Null
          /\ tail = (IF n = 0 THEN Null ELSE order[n]) /\ size = n
        BY <1>3, <2>2 DEF Chain
    <2> HIDE DEF n
    <2>8. \A i \in 1..n : longer[i] # token[d]
        BY <2>4, <2>6, <2>7
    <2>9. \A i, j \in 1..n + 1 : longer[i] = longer[j] => i = j
        BY <2>6, <2>7, <2>8
    <2>10. {longer[i] : i \in 1..n + 1} = Members'
        BY <2>5, <2>6, <2>7
    <2>11. CASE n = 0
        <3>1. head' = token[d] /\ next' = next
            BY <1>4, <2>7, <2>11 DEF AppendLink
        <3> QED
            BY <2>1, <2>2, <2>3, <2>5, <2>6, <2>7, <2>9, <2>10, <2>11, <3>1 DEF Chain, ListInv
    <2>12. CASE n # 0
        <3>1. head' = head /\ next' = [next EXCEPT ![order[n]] = token[d]]
            BY <1>2, <1>4, <2>6, <2>7, <2>12 DEF AppendLink
        <3>2. \A i \in 1..n : next'[longer[i]] = longer[i + 1]
            <4>1. ASSUME NEW i \in 1..n - 1 PROVE next'[order[i]] = order[i + 1]
                <5>0. i \in 1..n /\ n \in 1..n /\ i # n
                    BY <2>6
                <5>1. order[i] # order[n] /\ order[i] \in Files
                    BY <5>0, <2>6, <2>7
                <5> QED
                    BY <1>1, <2>6, <2>7, <3>1, <5>1
            <4>2. next'[order[n]] = token[d]
                BY <1>1, <2>6, <2>12, <3>1
            <4>3. ASSUME NEW i \in 1..n PROVE next'[longer[i]] = longer[i + 1]
                <5>1. CASE i = n
                    BY <2>6, <4>2, <5>1
                <5>2. CASE i # n
                    <6>1. i \in 1..n - 1 /\ i + 1 \in 1..n
                        BY <2>6, <5>2
                    <6> QED
                        BY <2>6, <4>1, <6>1
                <5> QED
                    BY <5>1, <5>2
            <4> QED
                BY <4>3
        <3>3. \A f \in Files : (f \notin Members' \/ f = longer[n + 1]) => next'[f] = Null
            BY <1>1, <2>3, <2>4, <2>5, <2>6, <2>7, <2>12, <3>1
        <3>4. head' = longer[1] /\ tail' = longer[n] /\ size' = n
            BY <2>1, <2>6, <2>7, <2>12, <3>1
        <3>5. Chain(longer)'
            BY <2>1, <2>2, <2>6, <2>9, <2>10, <2>12, <3>2, <3>3, <3>4 DEF Chain
        <3> QED
            BY <2>6, <3>5 DEF ListInv
    <2> QED
        BY <2>11, <2>12
<1>5. ASSUME NEW d \in Dirs, AppendTail(d) \/ AppendSize(d) PROVE ListInv'
    <2>1. PICK label \in {"size", "unlock"} :
            /\ pc[d] = (IF label = "size" THEN "tail" ELSE "size")
            /\ pc' = [pc EXCEPT ![d] = label]
            /\ label = "size" => tail' = token[d] /\ UNCHANGED <<head, next, size, lock, token>>
            /\ label = "unlock" => size' = size + 1 /\ UNCHANGED <<head, next, tail, lock, token>>
        BY <1>5 DEF AppendTail, AppendSize, At, Goto
    <2>2. lock = d /\ lock' = d /\ token' = token /\ Stage = pc[d] /\ Stage' = label
        BY <1>1, <1>2, <2>1 DEF Stage, InMutex
    <2>3. Appended' = Appended
        BY <1>1, <1>2, <2>1, <2>2, SameAppended
    <2>4. Members' = Members
        BY <2>1, <2>2, <2>3 DEF Members
    <2>5. Chain(order)'
        <3>1. Len(order) \in Nat
            BY <1>3
        <3>2. /\ \A i, j \in 1..Len(order) : order[i] = order[j] => i = j
              /\ {order[i] : i \in 1..Len(order)} = Members
              /\ head = IF Len(order) = 0 THEN Null ELSE order[1]
              /\ \A i \in 1..Len(order) - 1 : next[order[i]] = order[i + 1]
              /\ \A f \in Files :
                    f \notin Members \/ (Len(order) > 0 /\ f = order[Len(order)]) => next[f] = Null
            BY <1>3 DEF Chain
        <3>3. /\ UNCHANGED <<head, next>>
              /\ Len(order) > 0 /\ order[Len(order)] = token[d] /\ size = Len(order) - 1
            <4>1. Stage \in {"tail", "size"}
                BY <2>1, <2>2
            <4> QED
                BY <1>3, <2>1, <2>2, <4>1 DEF Chain
        <3>4. /\ tail' = order[Len(order)]
              /\ size' = IF label = "size" THEN Len(order) - 1 ELSE Len(order)
            <4>1. CASE label = "size"
                BY <2>1, <3>3, <4>1
            <4>2. CASE label = "unlock"
                <5>1. Stage = "size" /\ tail' = tail /\ size' = size + 1
                    BY <2>1, <2>2, <4>2
                <5>2. tail = order[Len(order)]
                    BY <1>3, <3>1, <3>3, <5>1 DEF Chain
                <5> QED
                    BY <3>1, <3>3, <4>2, <5>1, <5>2
            <4> QED
                BY <4>1, <4>2
        <3> QED
            BY <2>2, <2>4, <3>1, <3>2, <3>3, <3>4 DEF Chain
    <2> QED
        BY <2>5 DEF ListInv
<1>6. ASSUME NEW d \in Dirs, Unlock(d) PROVE ListInv'
    <2>1. /\ pc[d] = "unlock" /\ pc' = [pc EXCEPT ![d] = "create"] /\ lock' = Null
          /\ UNCHANGED <<list, token>>
        BY <1>6 DEF Unlock, At, Goto
    <2>2. lock = d /\ Stage = "unlock" /\ Stage' = "link"
        BY <1>2, <2>1 DEF Stage, InMutex
    <2>3. Members' = Members
        <3>1. Appended' = Appended \cup {token[d]}
            <4>1. token[d] \in Files
                BY <2>1 DEF TokenHeld, Working, InMutex
            <4>2. \A f \in Files : pc'[f] = pc[f]
                BY <1>1, <1>2, <2>1
            <4>3. \A e \in Dirs : pc'[e] = "create" <=> e = d \/ pc[e] = "create"
                BY <1>1, <2>1
            <4> QED
                BY <2>1, <4>1, <4>2, <4>3 DEF Appended
        <3> QED
            BY <2>2, <3>1 DEF Members
    <2>4. Chain(order)'
        BY <1>3, <2>1, <2>2, <2>3 DEF Chain, list
    <2> QED
        BY <2>4 DEF ListInv
<1>7. ASSUME NEW d \in Dirs, Lock(d) PROVE ListInv'
    <2>1. /\ pc[d] = "lock" /\ pc' = [pc EXCEPT ![d] = "link"] /\ lock = Null /\ lock' = d
          /\ UNCHANGED <<list, token>>
        BY <1>7 DEF Lock, At, Goto
    <2>2. Stage = "link" /\ Stage' = "link"
        BY <1>1, <1>2, <2>1 DEF Stage
    <2>3. Appended' = Appended
        BY <1>1, <1>2, <2>1, SameAppended
    <2> QED
        BY <2>1, <2>2, <2>3, KeepsList
<1>8. ASSUME NEW d \in Dirs, CreateFileHandler(d) PROVE ListInv'
    <2>1. /\ pc[d] = "create" /\ Create(d, token[d]) /\ token' = [token EXCEPT ![d] = Null]
          /\ UNCHANGED <<lock, list>>
        BY <1>8 DEF CreateFileHandler, At
    <2>2. token[d] \in Files /\ pc' = [pc EXCEPT ![token[d]] = "fopen", ![d] = "readdir"]
        BY <1>2, <2>1 DEF TokenHeld, Working, Create
    <2>3. Appended' = Appended
        BY <1>1, <1>2, <2>1, <2>2 DEF Appended
    <2>4. lock # d
        BY <1>2, <2>1 DEF InMutex
    <2>5. Stage' = Stage /\ (lock # Null => token'[lock] = token[lock])
        BY <1>1, <1>2, <2>1, <2>2, <2>4 DEF Stage
    <2> QED
        BY <2>1, <2>3, <2>5, KeepsList DEF Stage
<1>9. ASSUME NEW d \in Dirs,
             Opendir(d) \/ ReadDir(d) \/ ReadFile(d) \/ EndOfDir(d) \/ Join(d) \/ DirExit(d)
      PROVE  ListInv'
    <2>1. /\ pc[d] \notin InMutex \cup {"create", "none"} /\ UNCHANGED <<lock, list>>
          /\ \A e \in Dirs : token'[e] # token[e] => e = d
        BY <1>1, <1>9 DEF Opendir, ReadDir, ReadFile, EndOfDir, Join, DirExit, At, InMutex
    <2>2. \A t \in Threads : pc'[t] # pc[t] =>
            \/ t = d /\ pc'[d] \notin InMutex \cup {"create", "none"}
            \/ t \in Dirs /\ pc[t] = "none" /\ pc'[t] = "opendir"
        <3>1. CASE ReadDir(d)
            <4>1. PICK e \in unread[d] \cap Dirs :
                    pc' = pc \/ pc' = [pc EXCEPT ![e] = "opendir", ![d] = "readdir"]
                BY <3>1 DEF ReadDir, Create
            <4>2. pc[e] = "none"
                <5>1. unread[d] \subseteq Entries(d)
                    BY DEF Scanned
                <5> QED
                    BY <5>1 DEF Created
            <4> QED
                BY <1>1, <4>1, <4>2 DEF InMutex
        <3>2. CASE ~ReadDir(d)
            <4>1. pc' = pc \/ \E label \in {"exited", "readdir", "lock", "join"} :
                                 pc' = [pc EXCEPT ![d] = label]
                BY <1>9, <3>2 DEF Opendir, ReadFile, EndOfDir, Join, DirExit, Goto
            <4> QED
                BY <1>1, <4>1 DEF InMutex
        <3> QED
            BY <3>1, <3>2
    <2>3. Appended' = Appended
        <3>1. /\ \A f \in Files : pc'[f] = "none" <=> pc[f] = "none"
              /\ \A e \in Dirs : pc'[e] = "create" <=> pc[e] = "create"
            BY <1>2, <2>1, <2>2
        <3> QED
            BY <2>1, <3>1, SameAppended
    <2>4. lock # d
        BY <1>2, <2>1
    <2>5. Stage' = Stage
        <3>1. lock # Null => pc'[lock] = pc[lock]
            BY <1>1, <1>2, <2>2, <2>4 DEF InMutex
        <3> QED
            BY <2>1, <3>1 DEF Stage
    <2>6. Stage \in {"tail", "size", "unlock"} => lock \in Dirs /\ token'[lock] = token[lock]
        BY <1>1, <2>1, <2>4 DEF Stage
    <2> QED
        BY <2>1, <2>3, <2>5, <2>6, KeepsList
<1>10. ASSUME NEW f \in Files, fileHandler(f) PROVE ListInv'
    <2>1. /\ UNCHANGED <<lock, list, token>>
          /\ pc' = pc \/ \E label \in {"crashed", "parse", "exited"} :
                            pc[f] # "none" /\ pc' = [pc EXCEPT ![f] = label]
        BY <1>10 DEF fileHandler, Fopen, ParseToken, FileExit, At, Goto
    <2>2. /\ \A g \in Files : pc'[g] = "none" <=> pc[g] = "none"
          /\ \A d \in Dirs : pc'[d] = pc[d]
        BY <1>1, <1>2, <2>1
    <2>3. Appended' = Appended /\ Stage' = Stage
        BY <1>1, <2>1, <2>2, SameAppended DEF Stage
    <2> QED
        BY <2>1, <2>3, KeepsList
<1>11. CASE main \/ UNCHANGED vars
    <2>1. UNCHANGED <<lock, list, token>> /\ (pc' = pc \/ MainCreate)
        BY <1>11 DEF main, MainCreate, MainJoin, MainOutput, vars
    <2>2. MainCreate => pc[Root] = "none" /\ pc' = [pc EXCEPT ![Root] = "opendir"]
        BY DEF MainCreate, Goto, RootThread
    <2>3. /\ \A g \in Files : pc'[g] = pc[g]
          /\ \A d \in Dirs : pc'[d] = "create" <=> pc[d] = "create"
          /\ \A d \in Dirs : pc'[d] # pc[d] => pc[d] = "none"
        BY <1>1, <1>2, <2>1, <2>2
    <2>4. Appended' = Appended /\ Stage' = Stage
        BY <1>1, <1>2, <2>1, <2>3, SameAppended DEF Stage, InMutex
    <2> QED
        BY <2>1, <2>4, KeepsList
<1> QED
    BY <1>4, <1>5, <1>6, <1>7, <1>8, <1>9, <1>10, <1>11 DEF Next, dirHandler

\* When nobody is at the list, the walk from head meets the nodes in their order.
LEMMA WalkIsChain ==
    ASSUME ThreadInv, NEW order \in Seq(Files), Chain(order), Stage = "link"
    PROVE  /\ DOMAIN Walk = 1..Len(order)
           /\ \A k \in 1..Len(order) : Walk[k] = order[k]
<1> DEFINE n == Len(order)
           from[k \in 1..size + 1] ==
               IF k = 1 THEN head
               ELSE LET f == from[k-1] IN IF f = Null THEN Null ELSE next[f]
           found == [k \in 1..n + 1 |-> IF k <= n THEN order[k] ELSE Null]
<1>1. /\ n \in Nat /\ size = n /\ \A k \in 1..n : order[k] \in Files /\ order[k] # Null
      /\ head = IF n = 0 THEN Null ELSE order[1]
      /\ \A k \in 1..n - 1 : next[order[k]] = order[k + 1]
      /\ n > 0 => next[order[n]] = Null
    <2> HIDE DEF from, found
    <2>0. n \in Nat /\ \A k \in 1..n : order[k] \in Files
        OBVIOUS
    <2>1. n \in Nat /\ \A k \in 1..n : order[k] \in Files /\ order[k] # Null
        BY <2>0, TreeAssumption
    <2>2. n > 0 => order[n] \in Files
        BY <2>1
    <2> HIDE DEF n
    <2> QED
        BY <2>1, <2>2 DEF Chain, n
<1>2. ASSUME NEW k \in 1..n + 1
      PROVE  found[k] = IF k = 1 THEN head
                        ELSE IF found[k-1] = Null THEN Null ELSE next[found[k-1]]
    <2>1. CASE k = 1
        BY <1>1, <2>1
    <2>2. CASE k # 1
        <3>1. k - 1 \in 1..n /\ found[k-1] = order[k-1]
            BY <1>1, <2>2
        <3>2. next[order[k-1]] = found[k]
            <4>1. CASE k = n + 1
                BY <1>1, <2>2, <4>1
            <4>2. CASE k # n + 1
                <5>1. k - 1 \in 1..n - 1 /\ k <= n
                    BY <1>1, <2>2, <4>2
                <5> QED
                    BY <1>1, <5>1
            <4> QED
                BY <4>1, <4>2
        <3> QED
            BY <1>1, <2>2, <3>1, <3>2
    <2> QED
        BY <2>1, <2>2
<1>3. from = [k \in 1..n + 1 |-> IF k = 1 THEN head
                                 ELSE IF from[k-1] = Null THEN Null ELSE next[from[k-1]]]
    <2>1. found = [k \in 1..n + 1 |-> IF k = 1 THEN head
                                      ELSE IF found[k-1] = Null THEN Null ELSE next[found[k-1]]]
        BY <1>2
    <2> HIDE DEF found
    <2> QED
        BY <1>1, <2>1
<1>4. Walk = [m \in {k \in DOMAIN from : from[k] # Null} |-> from[m]]
    BY DEF Walk
<1> HIDE DEF from
<1>5. \A k \in 1..n + 1 : from[k] = found[k]
    <2> DEFINE Bad == {k \in 1..n + 1 : from[k] # found[k]}
    <2> SUFFICES ASSUME Bad # {} PROVE FALSE
        OBVIOUS
    <2>1. Bad \in SUBSET Nat
        BY <1>1
    <2>2. PICK k \in Bad : \A j \in Bad : k <= j
        <3> HIDE DEF Bad
        <3> QED
            BY <2>1, Least
    <2>3. k \in 1..n + 1 /\ from[k] # found[k]
        OBVIOUS
    <2>4. k # 1
        BY <1>1, <1>2, <1>3, <2>3
    <2>5. k - 1 \in 1..n + 1 /\ from[k-1] = found[k-1]
        <3>1. k - 1 \in 1..n + 1 /\ k - 1 < k
            BY <1>1, <2>3, <2>4
        <3> QED
            BY <1>1, <2>2, <3>1
    <2> HIDE DEF found, Bad
    <2> QED
        BY <1>2, <1>3, <2>3, <2>4, <2>5
<1>6. {k \in DOMAIN from : from[k] # Null} = 1..n
    BY <1>1, <1>3, <1>5
<1> HIDE DEF n
<1>7. \A k \in 1..n : from[k] = order[k]
    BY <1>1, <1>5
<1> QED
    BY <1>4, <1>6, <1>7 DEF n

\* An injective sequence is as long as the set of its elements is large.
LEMMA ChainSize ==
    ASSUME NEW order \in Seq(Files),
           \A i, j \in 1..Len(order) : order[i] = order[j] => i = j
    PROVE  Cardinality({order[i] : i \in 1..Len(order)}) = Len(order)
<1> DEFINE n == Len(order)
           R == {order[i] : i \in 1..n}
<1>1. n \in Nat /\ order \in [1..n -> R]
    OBVIOUS
<1>2. ExistsBijection(1..n, R)
    <2>1. \A i, j \in 1..n : order[i] = order[j] => i = j
        OBVIOUS
    <2>2. \A x \in R : \E i \in 1..n : order[i] = x
        OBVIOUS
    <2> HIDE DEF n, R
    <2>3. order \in Bijection(1..n, R)
        BY <1>1, <2>1, <2>2 DEF Bijection, Injection, Surjection, IsInjective
    <2> QED
        BY <2>3 DEF ExistsBijection
<1>3. IsFiniteSet(1..n) /\ Cardinality(1..n) = n
    <2>1. ASSUME NEW m \in Nat PROVE IsFiniteSet(1..m) /\ Cardinality(1..m) = m
        <3>1. 1 \in Int /\ m \in Int
            OBVIOUS
        <3>2. Cardinality(1..m) = (IF 1 > m THEN 0 ELSE m - 1 + 1) /\ IsFiniteSet(1..m)
            BY <3>1, FS_Interval
        <3> QED
            BY <3>2
    <2> HIDE DEF n
    <2> QED
        BY <1>1, <2>1
<1> HIDE DEF n, R
<1>4. Cardinality(R) = n
    BY <1>2, <1>3, FS_Bijection
<1> QED
    BY <1>4 DEF n, R

\* When the mutex is free the chain is what ListIntact says of the list.
LEMMA Intact == ThreadInv /\ ListInv => ListIntact
<1> SUFFICES ASSUME ThreadInv, ListInv, lock = Null
             PROVE  /\ {Walk[n] : n \in DOMAIN Walk} = Appended
                    /\ size = Cardinality(Appended) /\ Cardinality(DOMAIN Walk) = size
                    /\ size > 0 => Walk[size] = tail
    BY DEF ListIntact
<1>1. PICK order \in Seq(Files) : Chain(order)
    BY DEF ListInv
<1>2. Stage = "link" /\ Members = Appended
    BY DEF Stage, Members
<1>3. /\ DOMAIN Walk = 1..Len(order)
      /\ \A k \in 1..Len(order) : Walk[k] = order[k]
    BY <1>1, <1>2, WalkIsChain
<1>4. /\ {order[i] : i \in 1..Len(order)} = Appended /\ size = Len(order)
      /\ \A i, j \in 1..Len(order) : order[i] = order[j] => i = j
      /\ tail = IF Len(order) = 0 THEN Null ELSE order[Len(order)]
    BY <1>1, <1>2 DEF Chain
<1>5. {Walk[n] : n \in DOMAIN Walk} = Appended
    BY <1>3, <1>4
<1>6. Len(order) \in Nat /\ Cardinality(1..Len(order)) = Len(order)
    <2>1. Len(order) \in Nat
        OBVIOUS
    <2>2. ASSUME NEW n \in Nat PROVE Cardinality(1..n) = n
        BY FS_Interval
    <2> QED
        BY <2>1, <2>2
<1>7. size = Cardinality(Appended) /\ Cardinality(DOMAIN Walk) = size
    BY <1>3, <1>4, <1>6, ChainSize
<1>8. size > 0 => Walk[size] = tail
    BY <1>3, <1>4, <1>6
<1> QED
    BY <1>5, <1>7, <1>8

-----------------------------------------------------------------------------
(***************************************************************************)
(* The file descriptors.                                                   *)
(***************************************************************************)

\* The directories that have been opened, the files whose permission has been checked,
\* and those that are being read: each may hold a descriptor, and only the last gives
\* it back.
Opened == {d \in Dirs : pc[d] \notin {"none", "opendir"} /\ d \notin Forbidden}
Checked == {f \in Files : pc[f] # "none" \/ \E d \in Dirs : token[d] = f}
Parsing == {f \in Files : pc[f] = "parse"}

FdInv ==
    /\ fds \in 0..OPEN_MAX
    /\ Cardinality(Parsing) <= fds
    /\ fds <= Cardinality(Opened) + Cardinality(Checked) + Cardinality(Parsing)

\* The three sets are finite, and have cardinalities.
LEMMA FdSets ==
    /\ IsFiniteSet(Opened) /\ IsFiniteSet(Checked) /\ IsFiniteSet(Parsing)
    /\ Cardinality(Opened) \in Nat /\ Cardinality(Checked) \in Nat /\ Cardinality(Parsing) \in Nat
<1>1. Opened \in SUBSET Dirs /\ Checked \in SUBSET Files /\ Parsing \in SUBSET Files
    BY DEF Opened, Checked, Parsing
<1>2. IsFiniteSet(Dirs) /\ IsFiniteSet(Files)
    BY TreeAssumption
<1>3. IsFiniteSet(Opened) /\ IsFiniteSet(Checked) /\ IsFiniteSet(Parsing)
    BY <1>1, <1>2, FS_Subset
<1> QED
    BY <1>3, FS_CardinalityType

\* Nothing is open before the first thread.
LEMMA FdInit == Init => FdInv
<1> SUFFICES ASSUME Init PROVE FdInv
    OBVIOUS
<1>1. Parsing = {} /\ fds = 0
    BY DEF Init, Parsing
<1>2. OPEN_MAX \in Nat
    BY TreeAssumption
<1> QED
    BY <1>1, <1>2, FdSets, FS_EmptySet DEF FdInv

\* A step that opens nothing and closes nothing.
LEMMA KeepsFds ==
    ASSUME FdInv, fds' = fds, Opened' = Opened, Checked' = Checked, Parsing' = Parsing
    PROVE  FdInv'
BY DEF FdInv

\* Each open is paid for by a directory, a check or a file that had not had one before.
LEMMA FdStep == ThreadInv /\ FdInv /\ [Next]_vars => FdInv'
<1> SUFFICES ASSUME ThreadInv, FdInv, [Next]_vars PROVE FdInv'
    OBVIOUS
<1> USE DEF ThreadInv, Program
<1>1. /\ pc \in [Threads -> DirLabels \cup FileLabels] /\ token \in [Dirs -> Files \cup {Null}]
      /\ \A d \in Dirs, f \in Files : d # f /\ f # Null
      /\ OPEN_MAX \in Nat /\ fds \in 0..OPEN_MAX
    <2>1. OPEN_MAX \in Nat /\ fds \in 0..OPEN_MAX
        BY TreeAssumption DEF FdInv
    <2>2. \A d \in Dirs, f \in Files : d # f /\ f # Null
        BY TreeAssumption
    <2>3. pc \in [Threads -> DirLabels \cup FileLabels] /\ token \in [Dirs -> Files \cup {Null}]
        BY DEF Types
    <2> QED
        BY <2>1, <2>2, <2>3
<1>2. ASSUME NEW d \in Dirs, Opendir(d) PROVE FdInv'
    <2>1. PICK label \in {"exited", "readdir"} :
            /\ pc[d] = "opendir" /\ pc' = [pc EXCEPT ![d] = label] /\ token' = token
            /\ IF d \in Forbidden \/ fds = OPEN_MAX THEN fds' = fds ELSE fds' = fds + 1
        BY <1>2 DEF Opendir, At, Goto
    <2>2. Checked' = Checked /\ Parsing' = Parsing
        BY <1>1, <2>1 DEF Checked, Parsing
    <2>3. d \notin Opened
          /\ Opened' = IF d \in Forbidden THEN Opened ELSE Opened \cup {d}
        BY <1>1, <2>1 DEF Opened
    <2>4. Cardinality(Opened') =
            IF d \in Forbidden THEN Cardinality(Opened) ELSE Cardinality(Opened) + 1
        BY <2>3, FdSets, FS_AddElement
    <2> QED
        BY <1>1, <2>1, <2>2, <2>4, FdSets DEF FdInv
<1>3. ASSUME NEW d \in Dirs, ReadFile(d) PROVE FdInv'
    <2>1. PICK f \in unread[d] \cap Files :
            IF f \in Forbidden \/ fds = OPEN_MAX
            THEN UNCHANGED <<pc, token, fds>>
            ELSE /\ token' = [token EXCEPT ![d] = f]
                 /\ pc' = [pc EXCEPT ![d] = "lock"] /\ fds' = fds + 1
        BY <1>3 DEF ReadFile, Goto
    <2>2. pc[d] = "readdir" /\ token[d] = Null
        BY <1>3 DEF ReadFile, At, TokenHeld, Working, InMutex
    <2>3. CASE f \in Forbidden \/ fds = OPEN_MAX
        BY <2>1, <2>3, KeepsFds DEF Opened, Checked, Parsing
    <2>4. CASE ~(f \in Forbidden \/ fds = OPEN_MAX)
        <3>1. Opened' = Opened /\ Parsing' = Parsing
            BY <1>1, <2>1, <2>2, <2>4 DEF Opened, Parsing
        <3>2. f \in DOMAIN Parent /\ Parent[f] = d /\ pc[f] = "none"
            <4>1. f \in Entries(d)
                BY DEF Scanned
            <4> QED
                BY <4>1 DEF Created
        <3>3. f \notin Checked
            BY <1>1, <2>2, <3>2 DEF Checked, TokenHeld
        <3>4. Checked' = Checked \cup {f}
            <4>1. \A g \in Files : pc'[g] = pc[g]
                BY <1>1, <2>1, <2>4
            <4>2. \A e \in Dirs : token'[e] = IF e = d THEN f ELSE token[e]
                BY <1>1, <2>1, <2>4
            <4> QED
                BY <1>1, <2>2, <4>1, <4>2 DEF Checked
        <3>5. Cardinality(Checked') = Cardinality(Checked) + 1
            BY <3>3, <3>4, FdSets, FS_AddElement
        <3> QED
            BY <1>1, <2>1, <2>4, <3>1, <3>5, FdSets DEF FdInv
    <2> QED
        BY <2>3, <2>4
<1>4. ASSUME NEW f \in Files, Fopen(f) PROVE FdInv'
    <2>1. PICK label \in {"crashed", "parse"} :
            /\ pc[f] = "fopen" /\ pc' = [pc EXCEPT ![f] = label] /\ token' = token
            /\ fds' = IF label = "parse" THEN fds + 1 ELSE fds
            /\ label = "parse" => fds # OPEN_MAX
        BY <1>4 DEF Fopen, At, Goto
    <2>2. Opened' = Opened /\ Checked' = Checked
        BY <1>1, <2>1 DEF Opened, Checked
    <2>3. f \notin Parsing /\ Parsing' = IF label = "parse" THEN Parsing \cup {f} ELSE Parsing
        BY <1>1, <2>1 DEF Parsing
    <2>4. Cardinality(Parsing') =
            IF label = "parse" THEN Cardinality(Parsing) + 1 ELSE Cardinality(Parsing)
        BY <2>3, FdSets, FS_AddElement
    <2> QED
        BY <1>1, <2>1, <2>2, <2>4, FdSets DEF FdInv
<1>5. ASSUME NEW f \in Files, FileExit(f) PROVE FdInv'
    <2>1. /\ pc[f] = "parse" /\ pc' = [pc EXCEPT ![f] = "exited"] /\ token' = token
          /\ fds' = fds - 1
        BY <1>5 DEF FileExit, At, Goto
    <2>2. Opened' = Opened /\ Checked' = Checked
        BY <1>1, <2>1 DEF Opened, Checked
    <2>3. f \in Parsing /\ Parsing' = Parsing \ {f}
        BY <1>1, <2>1 DEF Parsing
    <2>4. Cardinality(Parsing') = Cardinality(Parsing) - 1
        BY <2>3, FdSets, FS_RemoveElement
    <2>5. Cardinality(Parsing') \in Nat
        BY <2>3, <2>4, FdSets, FS_RemoveElement, FS_CardinalityType
    <2> QED
        BY <1>1, <2>1, <2>2, <2>4, <2>5, FdSets DEF FdInv
<1>6. ASSUME NEW d \in Dirs, ReadDir(d) PROVE FdInv'
    <2>1. /\ pc[d] = "readdir" /\ UNCHANGED <<token, fds>>
        BY <1>6 DEF ReadDir, At
    <2>2. PICK e \in unread[d] \cap Dirs :
            pc' = pc \/ pc' = [pc EXCEPT ![e] = "opendir", ![d] = "readdir"]
        BY <1>6 DEF ReadDir, Create
    <2>3. pc[e] = "none"
        <3>1. unread[d] \subseteq Entries(d)
            BY DEF Scanned
        <3> QED
            BY <3>1 DEF Created
    <2>4. Opened' = Opened /\ Checked' = Checked /\ Parsing' = Parsing
        BY <1>1, <2>1, <2>2, <2>3 DEF Opened, Checked, Parsing
    <2> QED
        BY <2>1, <2>4, KeepsFds
<1>7. ASSUME NEW d \in Dirs, CreateFileHandler(d) PROVE FdInv'
    <2>1. /\ pc[d] = "create" /\ Create(d, token[d]) /\ token' = [token EXCEPT ![d] = Null]
          /\ fds' = fds
        BY <1>7 DEF CreateFileHandler, At
    <2>2. token[d] \in Files /\ pc[token[d]] = "none"
          /\ pc' = [pc EXCEPT ![token[d]] = "fopen", ![d] = "readdir"]
        BY <1>1, <2>1 DEF TokenHeld, Working, Create
    <2>3. Opened' = Opened /\ Parsing' = Parsing
        BY <1>1, <2>1, <2>2 DEF Opened, Parsing
    <2>4. Checked' = Checked
        <3>1. \A g \in Files : pc'[g] = IF g = token[d] THEN "fopen" ELSE pc[g]
            BY <1>1, <2>2
        <3>2. \A e \in Dirs : token'[e] = IF e = d THEN Null ELSE token[e]
            BY <1>1, <2>1
        <3> QED
            BY <1>1, <2>2, <3>1, <3>2 DEF Checked
    <2> QED
        BY <2>1, <2>3, <2>4, KeepsFds
<1>8. ASSUME NEW d \in Dirs,
             \/ EndOfDir(d) \/ Lock(d) \/ AppendLink(d) \/ AppendTail(d) \/ AppendSize(d)
             \/ Unlock(d) \/ Join(d) \/ DirExit(d)
      PROVE  FdInv'
    <2>1. pc[d] \notin {"none", "opendir"} /\ UNCHANGED <<token, fds>>
        BY <1>8 DEF EndOfDir, Lock, AppendLink, AppendTail, AppendSize, Unlock, Join, DirExit, At
    <2>2. pc' = pc \/ \E label \in DirLabels \ {"none", "opendir"} : pc' = [pc EXCEPT ![d] = label]
        BY <1>8 DEF EndOfDir, Lock, AppendLink, AppendTail, AppendSize, Unlock, Join, DirExit,
                    Goto, DirLabels
    <2>3. Opened' = Opened /\ Checked' = Checked /\ Parsing' = Parsing
        BY <1>1, <2>1, <2>2 DEF Opened, Checked, Parsing
    <2> QED
        BY <2>1, <2>3, KeepsFds
<1>9. ASSUME NEW f \in Files, ParseToken(f) PROVE FdInv'
    BY <1>9, KeepsFds DEF ParseToken, Opened, Checked, Parsing
<1>10. CASE main \/ UNCHANGED vars
    <2>1. UNCHANGED <<token, fds>> /\ (pc' = pc \/ MainCreate)
        BY <1>10 DEF main, MainCreate, MainJoin, MainOutput, vars
    <2>2. MainCreate => pc[Root] = "none" /\ pc' = [pc EXCEPT ![Root] = "opendir"]
        BY DEF MainCreate, Goto, RootThread
    <2>3. Opened' = Opened /\ Checked' = Checked /\ Parsing' = Parsing
        BY <1>1, <2>1, <2>2 DEF Opened, Checked, Parsing
    <2> QED
        BY <2>1, <2>3, KeepsFds
<1> QED
    BY <1>2, <1>3, <1>4, <1>5, <1>6, <1>7, <1>8, <1>9, <1>10
    DEF Next, dirHandler, fileHandler

-----------------------------------------------------------------------------
(***************************************************************************)
(* The theorems that hold however few descriptors there are.               *)
(***************************************************************************)
\* All of it together is inductive.
IInv == ThreadInv /\ Grounded /\ Within /\ Counted /\ ListInv /\ FdInv

\* The inductive invariant holds in every state of every run.
THEOREM Inductive == Spec => []IInv
<1>1. Init => IInv
    <2>1. Init => Grounded /\ Within /\ Counted
        BY DEF Init, Grounded, Within, Counted
    <2> QED
        BY <2>1, ThreadInit, ListInit, FdInit DEF IInv
<1>2. IInv /\ [Next]_vars => IInv'
    BY ThreadStep, GroundedStep, WithinStep, CountedStep, ListStep, FdStep DEF IInv
<1> QED
    BY <1>1, <1>2, PTL DEF Spec

\* Every variable keeps its type; of the descriptors, no more are open than there are.
THEOREM TypeCorrect == Spec => []TypeOK
<1>1. IInv => TypeOK
    BY DEF IInv, ThreadInv, Types, FdInv, TypeOK
<1> QED
    BY <1>1, Inductive, PTL

\* Whenever the mutex is free, the list is one chain that meets every file appended so far
\* once, in whatever order the directories' threads came to it.
THEOREM ListSound == Spec => []ListIntact
<1>1. IInv => ListIntact
    BY Intact DEF IInv
<1> QED
    BY <1>1, Inductive, PTL

\* Whoever has ended has joined all it started: main reads the list when nobody runs.
THEOREM JoinsSound == Spec => []JoinedBelow
<1>1. IInv => JoinedBelow
    BY Below DEF IInv
<1> QED
    BY <1>1, Inductive, PTL

-----------------------------------------------------------------------------
(***************************************************************************)
(* That the threads come to an end: some thread can always go on, and      *)
(* every step leaves less to do.                                           *)
(***************************************************************************)
\* The conditions under which a thread can take its next step: it waits only for the
\* mutex and for the thread that it joins.
DirGoes(d) ==
    \/ pc[d] \in DirLabels \ {"none", "lock", "join", "exited"}
    \/ pc[d] = "lock" /\ lock = Null
    \/ pc[d] = "join" /\ (joined[d] < Len(kids[d]) => pc[kids[d][joined[d] + 1]] = "exited")
FileGoes(f) == pc[f] = "fopen" \/ (pc[f] = "parse" /\ numTokens[f] <= Tokens[f])
MainGoes == mainPc \in {"create", "output"} \/ (mainPc = "join" /\ pc[Root] = "exited")
SomeoneGoes ==
    ~Crashed /\ mainPc # "done" =>
        MainGoes \/ (\E d \in Dirs : DirGoes(d)) \/ (\E f \in Files : FileGoes(f))

\* Who is in a directory's list of threads was started for an entry of that directory.
Descended ==
    \A d \in Dirs : \A k \in 1..Len(kids[d]) :
        /\ kids[d][k] \in DOMAIN Parent /\ Parent[kids[d][k]] = d /\ pc[kids[d][k]] # "none"

\* A fileHandler counts no more tokens than its file holds.
Parsed == \A f \in Files : numTokens[f] <= Tokens[f]

LEMMA ParsedStep == ThreadInv /\ Parsed /\ [Next]_vars => Parsed'
<1> SUFFICES ASSUME ThreadInv, Parsed, [Next]_vars, NEW f \in Files PROVE numTokens'[f] <= Tokens[f]
    BY DEF Parsed
<1>1. numTokens \in [Files -> Nat] /\ Tokens[f] \in Nat /\ numTokens[f] <= Tokens[f]
    BY TreeAssumption DEF ThreadInv, Types, Parsed
<1>2. numTokens' = numTokens \/ \E g \in Files : ParseToken(g)
    BY DEF Next, main, MainCreate, MainJoin, MainOutput, dirHandler, Opendir, ReadDir, ReadFile,
           EndOfDir, Lock, AppendLink, AppendTail, AppendSize, Unlock, CreateFileHandler, Join,
           DirExit, fileHandler, Fopen, FileExit, vars
<1> QED
    BY <1>1, <1>2 DEF ParseToken

\* The list of threads grows by an entry that is started.
LEMMA Listings ==
    ASSUME ThreadInv, [Next]_vars
    PROVE  /\ \A t \in Threads : pc[t] # "none" => pc'[t] # "none"
           /\ \/ kids' = kids
              \/ \E d \in Dirs, t \in DOMAIN Parent :
                    Parent[t] = d /\ pc'[t] # "none" /\ kids' = [kids EXCEPT ![d] = Append(@, t)]
<1>1. /\ pc \in [Threads -> DirLabels \cup FileLabels] /\ kids \in [Dirs -> Seq(Threads)]
      /\ unread \in [Dirs -> SUBSET DOMAIN Parent]
    BY DEF ThreadInv, Types
<1>2. ASSUME NEW d \in Dirs, NEW t \in DOMAIN Parent, Parent[t] = d, Create(d, t)
      PROVE  /\ \A u \in Threads : pc[u] # "none" => pc'[u] # "none"
             /\ pc'[t] # "none" /\ kids' = [kids EXCEPT ![d] = Append(@, t)]
    <2>1. PICK first \in {"opendir", "fopen"} :
            /\ pc' = [pc EXCEPT ![t] = first, ![d] = "readdir"]
            /\ kids' = [kids EXCEPT ![d] = Append(@, t)]
        BY <1>2 DEF Create
    <2>2. \A u \in Threads : pc'[u] = IF u = d THEN "readdir" ELSE IF u = t THEN first ELSE pc[u]
        BY <1>1, <2>1
    <2>3. "readdir" # "none" /\ first # "none"
        OBVIOUS
    <2>4. t \in Threads
        OBVIOUS
    <2>5. pc'[t] # "none"
        BY <2>2, <2>3, <2>4
    <2>6. \A u \in Threads : pc[u] # "none" => pc'[u] # "none"
        BY <2>2, <2>3
    <2> QED
        BY <2>1, <2>5, <2>6
<1>3. ASSUME NEW d \in Dirs, ReadDir(d)
      PROVE  \/ UNCHANGED <<pc, kids>>
             \/ \E t \in DOMAIN Parent : Parent[t] = d /\ Create(d, t)
    <2>1. PICK t \in unread[d] : IF checkValidDir(t) THEN Create(d, t) ELSE UNCHANGED <<pc, kids>>
        BY <1>3 DEF ReadDir
    <2>2. t \in DOMAIN Parent /\ Parent[t] = d
        BY <1>1, <2>1 DEF ThreadInv, Program, Scanned
    <2> QED
        BY <2>1, <2>2
<1>4. ASSUME NEW d \in Dirs, CreateFileHandler(d)
      PROVE  \E t \in DOMAIN Parent : Parent[t] = d /\ Create(d, t)
    <2>1. pc[d] = "create" /\ Create(d, token[d])
        BY <1>4 DEF CreateFileHandler, At
    <2>2. token[d] \in Files /\ Parent[token[d]] = d
        BY <2>1 DEF ThreadInv, Program, TokenHeld, Working
    <2>3. token[d] \in DOMAIN Parent
        BY <2>2
    <2> QED
        BY <2>1, <2>2, <2>3
<1>5. ASSUME NEW d \in Dirs,
             Opendir(d) \/ ReadFile(d) \/ EndOfDir(d) \/ Lock(d) \/ AppendLink(d) \/ AppendTail(d)
             \/ AppendSize(d) \/ Unlock(d) \/ Join(d) \/ DirExit(d)
      PROVE  kids' = kids /\ \A t \in Threads : pc[t] # "none" => pc'[t] # "none"
    BY <1>1, <1>5 DEF Opendir, ReadFile, EndOfDir, Lock, AppendLink, AppendTail, AppendSize, Unlock,
                      Join, DirExit, Goto
<1>6. ASSUME NEW f \in Files, fileHandler(f)
      PROVE  kids' = kids /\ \A t \in Threads : pc[t] # "none" => pc'[t] # "none"
    BY <1>1, <1>6 DEF fileHandler, Fopen, ParseToken, FileExit, Goto
<1>7. main \/ UNCHANGED vars =>
         kids' = kids /\ \A t \in Threads : pc[t] # "none" => pc'[t] # "none"
    BY <1>1 DEF main, MainCreate, MainJoin, MainOutput, Goto, vars
<1> QED
    BY <1>2, <1>3, <1>4, <1>5, <1>6, <1>7 DEF Next, dirHandler

LEMMA DescendedStep == ThreadInv /\ Descended /\ [Next]_vars => Descended'
<1> SUFFICES ASSUME ThreadInv, Descended, [Next]_vars, NEW d \in Dirs, NEW k \in 1..Len(kids'[d])
             PROVE  /\ kids'[d][k] \in DOMAIN Parent /\ Parent[kids'[d][k]] = d
                    /\ pc'[kids'[d][k]] # "none"
    BY DEF Descended
<1>1. kids \in [Dirs -> Seq(Threads)] /\ \A t \in Threads : pc[t] # "none" => pc'[t] # "none"
    BY Listings DEF ThreadInv, Types
<1>2. CASE kids' = kids
    BY <1>1, <1>2 DEF Descended
<1>3. CASE kids' # kids
    <2>1. PICK e \in Dirs, t \in DOMAIN Parent :
            Parent[t] = e /\ pc'[t] # "none" /\ kids' = [kids EXCEPT ![e] = Append(@, t)]
        BY <1>3, Listings
    <2>2. CASE e # d
        BY <1>1, <2>1, <2>2 DEF Descended
    <2>3. CASE e = d
        <3>1. /\ kids[d] \in Seq(Threads) /\ kids'[d] = Append(kids[d], t)
              /\ k \in 1..Len(kids[d]) + 1
            BY <1>1, <2>1, <2>3
        <3>2. CASE k = Len(kids[d]) + 1
            BY <2>1, <2>3, <3>1, <3>2
        <3>3. CASE k # Len(kids[d]) + 1
            <4>1. k \in 1..Len(kids[d]) /\ kids'[d][k] = kids[d][k]
                BY <3>1, <3>3
            <4> QED
                BY <1>1, <4>1 DEF Descended
        <3> QED
            BY <3>2, <3>3
    <2> QED
        BY <2>2, <2>3
<1> QED
    BY <1>2, <1>3

\* If nobody could go on, every dirHandler that runs would wait for another: by the
\* pigeonhole two would wait for the same, or one for the first, whom only main joins.
LEMMA NobodyStuck == ThreadInv /\ Descended /\ Parsed => SomeoneGoes
<1> SUFFICES ASSUME ThreadInv, Descended, Parsed, ~Crashed, mainPc # "done", ~MainGoes,
                    \A d \in Dirs : ~DirGoes(d), \A f \in Files : ~FileGoes(f)
             PROVE  FALSE
    BY DEF SomeoneGoes
<1> DEFINE T == {d \in Dirs : Running(d)}
<1> DEFINE kid == [d \in T |-> kids[d][joined[d] + 1]]
<1>1. /\ \A d \in Dirs : pc[d] \in DirLabels
      /\ \A f \in Files : pc[f] \in FileLabels
      /\ kids \in [Dirs -> Seq(Threads)] /\ joined \in [Dirs -> Nat]
    BY DEF ThreadInv, Types
<1>2. \A f \in Files : ~Running(f)
    BY <1>1 DEF FileGoes, Running, FileLabels, Crashed, Parsed
<1>3. Root \in T
    <2>1. mainPc = "join" /\ pc[Root] # "exited"
        BY DEF MainGoes, ThreadInv, Types
    <2> QED
        <3>1. pc[Root] # "none"
            BY <2>1 DEF ThreadInv, Program, RootThread
        <3> QED
            BY <2>1, <3>1 DEF Running
<1>4. \A d \in T : pc[d] = "join"
    <2>1. \A d \in Dirs : pc[d] # "link" /\ pc[d] # "tail" /\ pc[d] # "size" /\ pc[d] # "unlock"
        BY <1>1 DEF DirGoes, DirLabels
    <2>2. lock = Null
        BY <2>1 DEF ThreadInv, Types, Mutex, InMutex
    <2> QED
        BY <1>1, <2>2 DEF DirGoes, Running, DirLabels
<1>5. ASSUME NEW d \in T PROVE kid[d] \in T \ {Root} /\ Parent[kid[d]] = d
    <2>1. joined[d] < Len(kids[d]) /\ pc[kids[d][joined[d] + 1]] # "exited"
        BY <1>4 DEF DirGoes
    <2>2. joined[d] + 1 \in 1..Len(kids[d])
        BY <1>1, <2>1
    <2>3. /\ kids[d][joined[d] + 1] \in DOMAIN Parent /\ Parent[kids[d][joined[d] + 1]] = d
          /\ pc[kids[d][joined[d] + 1]] # "none"
        BY <2>2 DEF Descended
    <2> QED
        <3>1. PICK t : t = kids[d][joined[d] + 1]
            OBVIOUS
        <3>2. t \in DOMAIN Parent /\ Parent[t] = d /\ Running(t)
            BY <2>1, <2>3, <3>1 DEF Running
        <3>3. t \in T \ {Root}
            BY <1>2, <3>2
        <3>4. kid[d] = t
            BY <3>1
        <3> QED
            BY <3>2, <3>3, <3>4
<1>6. IsFiniteSet(T) /\ IsFiniteSet(T \ {Root}) /\ Cardinality(T \ {Root}) < Cardinality(T)
    <2>1. IsFiniteSet(T)
        BY FS_Subset, TreeAssumption
    <2> HIDE DEF T
    <2>2. Cardinality(T \ {Root}) = Cardinality(T) - 1 /\ IsFiniteSet(T \ {Root})
        BY <1>3, <2>1, FS_RemoveElement
    <2>3. Cardinality(T) \in Nat
        BY <2>1, FS_CardinalityType
    <2> QED
        BY <2>1, <2>2, <2>3
<1>7. kid \in [T -> T \ {Root}]
    BY <1>5
<1> HIDE DEF T, kid
<1>8. PICK d \in T, e \in T : d # e /\ kid[d] = kid[e]
    BY <1>6, <1>7, FS_PigeonHole
<1> QED
    BY <1>5, <1>8

\* No thread waits for ever on the mutex or in a join: as long as main is not done and no
\* file failed to open, one of the threads can go on.
THEOREM NoDeadlock == Spec => []SomeoneGoes
<1>1. Init => Descended /\ Parsed
    BY TreeAssumption DEF Init, Descended, Parsed
<1>2. IInv /\ Descended /\ Parsed /\ [Next]_vars => Descended' /\ Parsed'
    BY DescendedStep, ParsedStep DEF IInv
<1>3. IInv /\ Descended /\ Parsed => SomeoneGoes
    BY NobodyStuck DEF IInv
<1> QED
    BY <1>1, <1>2, <1>3, Inductive, PTL DEF Spec

\* How many labels a thread has at most still in front of it, between two readings of an
\* entry or the joins of two threads.
Rank ==
    [label \in DirLabels \cup FileLabels |->
        CASE label = "none" -> 10 [] label \in {"opendir", "fopen"} -> 9 [] label = "lock" -> 8
          [] label = "link" -> 7 [] label = "tail" -> 6 [] label = "size" -> 5
          [] label = "unlock" -> 4 [] label = "create" -> 3
          [] label \in {"readdir", "parse"} -> 2 [] label = "join" -> 1 [] OTHER -> 0]

\* A dirHandler has fewer entries to read, or is nearer to the next, or has one thread
\* less to join.
DirNearer(d) ==
    \/ unread'[d] \subseteq unread[d] /\ unread'[d] # unread[d]
    \/ unread'[d] = unread[d] /\ Rank[pc'[d]] < Rank[pc[d]]
    \/ /\ unread'[d] = unread[d] /\ pc'[d] = pc[d] /\ kids'[d] = kids[d]
       /\ joined[d] < joined'[d] /\ joined'[d] <= Len(kids[d])
DirStays(d) ==
    unread'[d] = unread[d] /\ pc'[d] = pc[d] /\ kids'[d] = kids[d] /\ joined'[d] = joined[d]

FileNearer(f) ==
    \/ Rank[pc'[f]] < Rank[pc[f]]
    \/ pc'[f] = pc[f] /\ numTokens[f] < numTokens'[f] /\ numTokens'[f] <= Tokens[f]
FileStays(f) == pc'[f] = pc[f] /\ numTokens'[f] = numTokens[f]

MainNearer == <<mainPc, mainPc'>> \in {<<"create", "join">>, <<"join", "output">>, <<"output", "done">>}

\* Somebody is nearer to the end and nobody farther from it.
Advance ==
    /\ \A d \in Dirs : DirNearer(d) \/ DirStays(d)
    /\ \A f \in Files : FileNearer(f) \/ FileStays(f)
    /\ MainNearer \/ mainPc' = mainPc
    /\ MainNearer \/ (\E d \in Dirs : DirNearer(d)) \/ (\E f \in Files : FileNearer(f))

\* The ranks, one by one.
LEMMA Ranks ==
    /\ Rank["none"] = 10 /\ Rank["opendir"] = 9 /\ Rank["fopen"] = 9 /\ Rank["lock"] = 8
    /\ Rank["link"] = 7 /\ Rank["tail"] = 6 /\ Rank["size"] = 5 /\ Rank["unlock"] = 4
    /\ Rank["create"] = 3 /\ Rank["readdir"] = 2 /\ Rank["parse"] = 2 /\ Rank["join"] = 1
    /\ Rank["exited"] = 0 /\ Rank["crashed"] = 0
BY DEF Rank, DirLabels, FileLabels

\* A thread that moves alone.
LEMMA DirAdvances ==
    ASSUME ThreadInv, NEW d \in Dirs, NEW label, Rank[label] < Rank[pc[d]],
           pc' = [pc EXCEPT ![d] = label],
           UNCHANGED <<mainPc, unread, kids, joined, numTokens>>
    PROVE  Advance
<1>1. \A t \in Threads : pc'[t] = IF t = d THEN label ELSE pc[t]
    BY DEF ThreadInv, Types
<1>2. DirNearer(d)
    BY <1>1 DEF DirNearer
<1>3. \A e \in Dirs \ {d} : DirStays(e)
    BY <1>1 DEF DirStays
<1>4. \A f \in Files : FileStays(f)
    BY <1>1 DEF FileStays
<1> QED
    BY <1>2, <1>3, <1>4 DEF Advance

LEMMA FileAdvances ==
    ASSUME ThreadInv, NEW f \in Files, NEW label, Rank[label] < Rank[pc[f]],
           pc' = [pc EXCEPT ![f] = label],
           UNCHANGED <<mainPc, unread, kids, joined, numTokens>>
    PROVE  Advance
<1>1. \A t \in Threads : pc'[t] = IF t = f THEN label ELSE pc[t]
    BY DEF ThreadInv, Types
<1>2. FileNearer(f)
    BY <1>1 DEF FileNearer
<1>3. \A g \in Files \ {f} : FileStays(g)
    BY <1>1 DEF FileStays
<1>4. \A d \in Dirs : DirStays(d)
    BY <1>1 DEF DirStays
<1> QED
    BY <1>2, <1>3, <1>4 DEF Advance

\* A thread that starts another, which has not run before.
LEMMA StartAdvances ==
    ASSUME ThreadInv, NEW d \in Dirs, NEW t \in DOMAIN Parent, Create(d, t), pc[t] = "none",
           \/ pc[d] = "create" /\ UNCHANGED unread
           \/ /\ pc[d] = "readdir" /\ unread' = [unread EXCEPT ![d] = @ \ {t}]
              /\ t \in unread[d],
           UNCHANGED <<mainPc, joined, numTokens>>
    PROVE  Advance
<1>1. /\ pc \in [Threads -> DirLabels \cup FileLabels] /\ kids \in [Dirs -> Seq(Threads)]
      /\ unread \in [Dirs -> SUBSET DOMAIN Parent]
    BY DEF ThreadInv, Types
<1>2. t # d /\ t \in Threads
    OBVIOUS
<1>3. PICK first \in {"opendir", "fopen"} :
        /\ pc' = [pc EXCEPT ![t] = first, ![d] = "readdir"]
        /\ kids' = [kids EXCEPT ![d] = Append(@, t)]
    BY DEF Create
<1>4. \A u \in Threads : pc'[u] = IF u = d THEN "readdir" ELSE IF u = t THEN first ELSE pc[u]
    BY <1>1, <1>2, <1>3
<1>5. Rank[pc'[t]] < Rank[pc[t]] /\ Rank["readdir"] < Rank["create"]
    BY <1>2, <1>4, Ranks
<1>6. \A e \in Dirs \ {d} : unread'[e] = unread[e] /\ kids'[e] = kids[e]
    BY <1>1, <1>3
<1>7. DirNearer(d)
    BY <1>1, <1>4, <1>5 DEF DirNearer
<1>8. t \in Dirs => DirNearer(t)
    BY <1>2, <1>5, <1>6 DEF DirNearer
<1>9. t \in Files => FileNearer(t)
    BY <1>5 DEF FileNearer
<1>10. \A e \in Dirs \ {d, t} : DirStays(e)
    BY <1>4, <1>6 DEF DirStays
<1>11. \A f \in Files \ {t} : FileStays(f)
    BY <1>4 DEF FileStays
<1> QED
    BY <1>7, <1>8, <1>9, <1>10, <1>11 DEF Advance

LEMMA EveryStepAdvances == ThreadInv /\ Next => Advance
<1> SUFFICES ASSUME ThreadInv, Next PROVE Advance
    OBVIOUS
<1> USE Ranks
<1>1. /\ pc \in [Threads -> DirLabels \cup FileLabels] /\ kids \in [Dirs -> Seq(Threads)]
      /\ unread \in [Dirs -> SUBSET DOMAIN Parent] /\ joined \in [Dirs -> Nat]
      /\ numTokens \in [Files -> Nat]
    BY DEF ThreadInv, Types
<1>2. ASSUME NEW d \in Dirs, NEW f \in Files PROVE d # f
    OBVIOUS
<1>3. ASSUME NEW d \in Dirs,
             Opendir(d) \/ EndOfDir(d) \/ Lock(d) \/ AppendLink(d) \/ AppendTail(d)
             \/ AppendSize(d) \/ Unlock(d) \/ DirExit(d)
      PROVE  Advance
    <2>1. UNCHANGED <<mainPc, unread, kids, joined, numTokens>>
        BY <1>3 DEF Opendir, EndOfDir, Lock, AppendLink, AppendTail, AppendSize, Unlock, DirExit
    <2>2. PICK label : pc' = [pc EXCEPT ![d] = label] /\ Rank[label] < Rank[pc[d]]
        BY <1>3 DEF Opendir, EndOfDir, Lock, AppendLink, AppendTail, AppendSize, Unlock, DirExit,
                    At, Goto
    <2> QED
        BY <2>1, <2>2, DirAdvances
<1>4. ASSUME NEW d \in Dirs, ReadDir(d) PROVE Advance
    <2>1. PICK e \in unread[d] \cap Dirs :
            /\ unread' = [unread EXCEPT ![d] = @ \ {e}]
            /\ IF checkValidDir(e) THEN Create(d, e) ELSE UNCHANGED <<pc, kids>>
        BY <1>4 DEF ReadDir
    <2>2. pc[d] = "readdir" /\ UNCHANGED <<mainPc, joined, numTokens>>
        BY <1>4 DEF ReadDir, At
    <2>3. e \in DOMAIN Parent /\ pc[e] = "none"
        BY <1>1, <2>1 DEF ThreadInv, Program, Scanned, Created
    <2>4. CASE checkValidDir(e)
        BY <2>1, <2>2, <2>3, <2>4, StartAdvances
    <2>5. CASE ~checkValidDir(e)
        <3>1. UNCHANGED <<pc, kids>>
            BY <2>1, <2>5
        <3>2. DirNearer(d) /\ \A u \in Dirs \ {d} : DirStays(u)
            BY <1>1, <2>1, <2>2, <3>1 DEF DirNearer, DirStays
        <3>3. \A f \in Files : FileStays(f)
            BY <2>2, <3>1 DEF FileStays
        <3> QED
            BY <2>2, <3>2, <3>3 DEF Advance
    <2> QED
        BY <2>4, <2>5
<1>5. ASSUME NEW d \in Dirs, ReadFile(d) PROVE Advance
    <2>1. PICK f \in unread[d] \cap Files :
            /\ unread' = [unread EXCEPT ![d] = @ \ {f}]
            /\ pc' = pc \/ pc' = [pc EXCEPT ![d] = "lock"]
        BY <1>5 DEF ReadFile, Goto
    <2>2. UNCHANGED <<mainPc, kids, joined, numTokens>>
        BY <1>5 DEF ReadFile
    <2>3. \A t \in Threads \ {d} : pc'[t] = pc[t]
        BY <1>1, <2>1
    <2>4. DirNearer(d) /\ \A u \in Dirs \ {d} : DirStays(u)
        BY <1>1, <2>1, <2>2, <2>3 DEF DirNearer, DirStays
    <2>5. \A g \in Files : FileStays(g)
        BY <2>2, <2>3 DEF FileStays
    <2> QED
        BY <2>2, <2>4, <2>5 DEF Advance
<1>6. ASSUME NEW d \in Dirs, CreateFileHandler(d) PROVE Advance
    <2>1. /\ pc[d] = "create" /\ Create(d, token[d])
          /\ UNCHANGED <<mainPc, unread, joined, numTokens>>
        BY <1>6 DEF CreateFileHandler, At
    <2>2. token[d] \in DOMAIN Parent /\ pc[token[d]] = "none"
        BY <2>1 DEF ThreadInv, Program, TokenHeld, Working
    <2> QED
        BY <2>1, <2>2, StartAdvances
<1>7. ASSUME NEW d \in Dirs, Join(d) PROVE Advance
    <2>1. /\ joined[d] < Len(kids[d]) /\ joined' = [joined EXCEPT ![d] = @ + 1]
          /\ UNCHANGED <<pc, mainPc, unread, kids, numTokens>>
        BY <1>7 DEF Join
    <2>2. DirNearer(d) /\ \A u \in Dirs \ {d} : DirStays(u)
        BY <1>1, <2>1 DEF DirNearer, DirStays
    <2>3. \A f \in Files : FileStays(f)
        BY <2>1 DEF FileStays
    <2> QED
        BY <2>1, <2>2, <2>3 DEF Advance
<1>8. ASSUME NEW f \in Files, Fopen(f) \/ FileExit(f) PROVE Advance
    <2>1. UNCHANGED <<mainPc, unread, kids, joined, numTokens>>
        BY <1>8 DEF Fopen, FileExit
    <2>2. PICK label : pc' = [pc EXCEPT ![f] = label] /\ Rank[label] < Rank[pc[f]]
        BY <1>8 DEF Fopen, FileExit, At, Goto
    <2> QED
        BY <2>1, <2>2, FileAdvances
<1>9. ASSUME NEW f \in Files, ParseToken(f) PROVE Advance
    <2>1. /\ numTokens[f] < Tokens[f] /\ numTokens' = [numTokens EXCEPT ![f] = @ + 1]
          /\ UNCHANGED <<pc, mainPc, unread, kids, joined>>
        BY <1>9 DEF ParseToken
    <2>2. FileNearer(f) /\ \A g \in Files \ {f} : FileStays(g)
        <3>1. numTokens[f] \in Nat /\ Tokens[f] \in Nat /\ pc' = pc
            BY <1>1, <2>1, TreeAssumption
        <3>2. numTokens'[f] = numTokens[f] + 1 /\ \A g \in Files \ {f} : numTokens'[g] = numTokens[g]
            BY <1>1, <2>1
        <3> QED
            BY <2>1, <3>1, <3>2 DEF FileNearer, FileStays
    <2>3. \A d \in Dirs : DirStays(d)
        BY <2>1 DEF DirStays
    <2> QED
        BY <2>1, <2>2, <2>3 DEF Advance
<1>10. CASE MainCreate
    <2>1. /\ mainPc = "create" /\ mainPc' = "join" /\ pc' = [pc EXCEPT ![Root] = "opendir"]
          /\ UNCHANGED <<unread, kids, joined, numTokens>>
        BY <1>10 DEF MainCreate, Goto
    <2>2. pc[Root] = "none"
        BY <2>1 DEF ThreadInv, Program, RootThread
    <2>3. \A t \in Threads : pc'[t] = IF t = Root THEN "opendir" ELSE pc[t]
        BY <1>1, <2>1
    <2>4. DirNearer(Root) /\ \A u \in Dirs \ {Root} : DirStays(u)
        BY <2>1, <2>2, <2>3 DEF DirNearer, DirStays
    <2>5. \A f \in Files : FileStays(f)
        BY <2>1, <2>3 DEF FileStays
    <2>6. MainNearer
        BY <2>1 DEF MainNearer
    <2> QED
        BY <2>4, <2>5, <2>6 DEF Advance
<1>11. CASE MainJoin \/ MainOutput
    <2>1. MainNearer /\ UNCHANGED <<pc, unread, kids, joined, numTokens>>
        BY <1>11 DEF MainJoin, MainOutput, MainNearer
    <2> QED
        BY <2>1 DEF Advance, DirStays, FileStays
<1> QED
    BY <1>3, <1>4, <1>5, <1>6, <1>7, <1>8, <1>9, <1>10, <1>11
    DEF Next, main, dirHandler, fileHandler

\* Each step of any thread leaves less to do and undoes nothing: since the entries, the
\* ranks, the threads to join and the tokens are finitely many, the scan takes a bounded number of
\* steps, however they are interleaved.
THEOREM StepsAdvance == Spec => [][Advance]_vars
<1>1. IInv /\ [Next]_vars => [Advance]_vars
    BY EveryStepAdvances DEF IInv
<1> QED
    BY <1>1, Inductive, PTL DEF Spec

-----------------------------------------------------------------------------
(***************************************************************************)
(* With a descriptor for each directory that can be reached, and two for   *)
(* each file in them, nothing is left out.                                 *)
(***************************************************************************)
EnoughDescriptors == OPEN_MAX >= Cardinality(Reachable) + 2 * Cardinality(Readable)

\* No file was lost after its check, and what a dirHandler has read from its directory it
\* has dealt with.
NoneSkipped ==
    /\ CheckedFileOpens
    /\ \A d \in Dirs : pc[d] \in {"join", "exited"} /\ d \notin Forbidden => unread[d] = {}
    /\ \A d \in Dirs : \A e \in Entries(d) \ unread[d] :
          pc[e] # "none" \/ token[d] = e \/ (IF e \in Dirs THEN e \in Hidden ELSE e \in Forbidden)

\* Descriptors are only for what can be reached and read.
LEMMA Bounds ==
    ASSUME IInv
    PROVE  Opened \subseteq Reachable /\ Checked \subseteq Readable /\ Parsing \subseteq Readable
<1> USE DEF IInv, ThreadInv, Program
<1>1. Opened \subseteq Reachable
    BY DEF Opened, Within
<1>2. ASSUME NEW f \in Files, pc[f] # "none" PROVE f \in Readable
    <2>1. f \in DOMAIN Parent /\ f \notin unread[Parent[f]] /\ f \notin Forbidden
        BY <1>2 DEF Created
    <2>2. pc[Parent[f]] # "none" /\ Parent[f] \notin Forbidden
        BY <2>1 DEF Scanned
    <2> QED
        BY <2>1, <2>2 DEF Readable, Within
<1>3. ASSUME NEW d \in Dirs, token[d] \in Files PROVE token[d] \in Readable
    <2>1. /\ pc[d] \in Working /\ token[d] \notin Forbidden /\ Parent[token[d]] = d
        BY <1>3 DEF TokenHeld
    <2>2. d \notin Forbidden /\ pc[d] # "none"
        BY <2>1 DEF Scanned, Working, InMutex
    <2> QED
        BY <1>3, <2>1, <2>2 DEF Readable, Within
<1>4. Checked \subseteq Readable
    BY <1>2, <1>3 DEF Checked
<1>5. Parsing \subseteq Readable
    BY <1>2 DEF Parsing
<1> QED
    BY <1>1, <1>4, <1>5

\* While something is still to be opened, a descriptor is left for it.
LEMMA Room ==
    ASSUME EnoughDescriptors, IInv,
           \/ \E d \in Reachable : d \notin Opened
           \/ \E f \in Readable : f \notin Checked
           \/ \E f \in Readable : f \notin Parsing
    PROVE  fds # OPEN_MAX
<1>1. IsFiniteSet(Reachable) /\ IsFiniteSet(Readable)
    <2>1. Reachable \in SUBSET Dirs /\ Readable \in SUBSET Files
        BY DEF Reachable, Readable
    <2>2. IsFiniteSet(Dirs) /\ IsFiniteSet(Files)
        BY TreeAssumption
    <2> QED
        BY <2>1, <2>2, FS_Subset
<1>2. Cardinality(Reachable) \in Nat /\ Cardinality(Readable) \in Nat
    BY <1>1, FS_CardinalityType
<1>3. /\ Opened \in SUBSET Reachable /\ Checked \in SUBSET Readable /\ Parsing \in SUBSET Readable
    BY Bounds
<1>4. /\ Cardinality(Opened) <= Cardinality(Reachable)
      /\ Cardinality(Reachable) = Cardinality(Opened) => Reachable = Opened
    BY <1>1, <1>3, FS_Subset
<1>5. /\ Cardinality(Checked) <= Cardinality(Readable)
      /\ Cardinality(Readable) = Cardinality(Checked) => Readable = Checked
    BY <1>1, <1>3, FS_Subset
<1>6. /\ Cardinality(Parsing) <= Cardinality(Readable)
      /\ Cardinality(Readable) = Cardinality(Parsing) => Readable = Parsing
    BY <1>1, <1>3, FS_Subset
<1>7. fds <= Cardinality(Opened) + Cardinality(Checked) + Cardinality(Parsing)
      /\ fds \in 0..OPEN_MAX /\ OPEN_MAX \in Nat
    BY TreeAssumption DEF IInv, FdInv
<1>8. \/ Cardinality(Opened) # Cardinality(Reachable)
      \/ Cardinality(Checked) # Cardinality(Readable)
      \/ Cardinality(Parsing) # Cardinality(Readable)
    BY <1>4, <1>5, <1>6
<1> QED
    BY <1>2, <1>4, <1>5, <1>6, <1>7, <1>8, FdSets DEF EnoughDescriptors

\* With room for every open, no step skips anything.
LEMMA NoneSkippedStep ==
    ASSUME EnoughDescriptors PROVE IInv /\ NoneSkipped /\ [Next]_vars => NoneSkipped'
<1> SUFFICES ASSUME IInv, NoneSkipped, [Next]_vars PROVE NoneSkipped'
    OBVIOUS
<1> USE DEF IInv, ThreadInv, Program
<1>1. /\ pc \in [Threads -> DirLabels \cup FileLabels] /\ token \in [Dirs -> Files \cup {Null}]
      /\ unread \in [Dirs -> SUBSET DOMAIN Parent]
    BY DEF Types
<1>2. \A d \in Dirs, f \in Files : d # f /\ f # Null /\ d # Null
    BY TreeAssumption
<1>3. /\ \A f \in Files : pc[f] # "crashed"
      /\ \A d \in Dirs : pc[d] \in {"join", "exited"} /\ d \notin Forbidden => unread[d] = {}
      /\ \A d \in Dirs : \A e \in Entries(d) \ unread[d] :
            pc[e] # "none" \/ token[d] = e \/ (IF e \in Dirs THEN e \in Hidden ELSE e \in Forbidden)
    BY DEF NoneSkipped, CheckedFileOpens
<1> HIDE DEF NoneSkipped
<1>4. ASSUME NEW d \in Dirs, Opendir(d) PROVE NoneSkipped'
    <2>1. pc[d] = "opendir" /\ UNCHANGED <<unread, token>>
        BY <1>4 DEF Opendir, At
    <2>2. d \notin Forbidden => d \in Reachable /\ d \notin Opened
        BY <2>1 DEF Within, Opened
    <2>3. d \notin Forbidden => fds # OPEN_MAX
        BY <2>2, Room
    <2>4. PICK label \in {"exited", "readdir"} :
            pc' = [pc EXCEPT ![d] = label] /\ (d \notin Forbidden => label = "readdir")
        BY <1>4, <2>3 DEF Opendir, Goto
    <2>5. \A t \in Threads : pc'[t] = IF t = d THEN label ELSE pc[t]
        BY <1>1, <2>4
    <2> QED
        BY <1>2, <1>3, <2>1, <2>4, <2>5 DEF NoneSkipped, CheckedFileOpens
<1>5. ASSUME NEW d \in Dirs, ReadDir(d) PROVE NoneSkipped'
    <2>1. pc[d] = "readdir" /\ token' = token
        BY <1>5 DEF ReadDir, At
    <2>2. PICK e \in unread[d] \cap Dirs :
            /\ unread' = [unread EXCEPT ![d] = @ \ {e}]
            /\ IF e \notin Hidden THEN pc' = [pc EXCEPT ![e] = "opendir", ![d] = "readdir"]
                                  ELSE pc' = pc
        BY <1>5 DEF ReadDir, Create, checkValidDir
    <2>3. pc[e] = "none" /\ e # d
        <3>1. unread[d] \subseteq Entries(d)
            BY DEF Scanned
        <3> QED
            BY <2>1, <3>1 DEF Created
    <2>4. /\ \A t \in Threads : pc'[t] # pc[t] => t = e /\ pc'[e] = "opendir"
          /\ e \notin Hidden => pc'[e] = "opendir"
        BY <1>1, <2>1, <2>2, <2>3
    <2>5. \A c \in Dirs : unread'[c] = IF c = d THEN unread[d] \ {e} ELSE unread[c]
        BY <1>1, <2>2
    <2>6. \A f \in Files : pc'[f] # "crashed"
        BY <1>2, <1>3, <2>4
    <2>7. \A c \in Dirs : pc'[c] \in {"join", "exited"} /\ c \notin Forbidden => unread'[c] = {}
        BY <1>3, <2>1, <2>4, <2>5
    <2>8. \A c \in Dirs : \A x \in Entries(c) \ unread'[c] :
            pc'[x] # "none" \/ token'[c] = x \/ (IF x \in Dirs THEN x \in Hidden ELSE x \in Forbidden)
        BY <1>3, <2>1, <2>2, <2>4, <2>5
    <2> QED
        BY <2>6, <2>7, <2>8 DEF NoneSkipped, CheckedFileOpens
<1>6. ASSUME NEW d \in Dirs, ReadFile(d) PROVE NoneSkipped'
    <2>1. PICK f \in unread[d] \cap Files :
            /\ unread' = [unread EXCEPT ![d] = @ \ {f}]
            /\ IF f \in Forbidden \/ fds = OPEN_MAX
               THEN UNCHANGED <<pc, token>>
               ELSE token' = [token EXCEPT ![d] = f] /\ pc' = [pc EXCEPT ![d] = "lock"]
        BY <1>6 DEF ReadFile, Goto
    <2>2. pc[d] = "readdir" /\ token[d] = Null
        BY <1>6 DEF ReadFile, At, TokenHeld, Working, InMutex
    <2>3. f \in DOMAIN Parent /\ Parent[f] = d /\ pc[f] = "none" /\ d \notin Forbidden
        <3>1. f \in Entries(d)
            BY DEF Scanned
        <3> QED
            BY <2>2, <3>1 DEF Created, Scanned
    <2>4. f \notin Forbidden => fds # OPEN_MAX
        <3>1. f \notin Forbidden => f \in Readable
            BY <2>2, <2>3 DEF Readable, Within
        <3>2. f \notin Checked
            BY <1>2, <2>2, <2>3 DEF Checked, TokenHeld
        <3> QED
            BY <3>1, <3>2, Room
    <2>5. /\ \A t \in Threads : pc'[t] # pc[t] => t = d /\ pc'[d] = "lock"
          /\ \A c \in Dirs : c # d => token'[c] = token[c]
          /\ f \in Forbidden \/ token'[d] = f
        BY <1>1, <2>1, <2>4
    <2>6. \A c \in Dirs : unread'[c] = IF c = d THEN unread[d] \ {f} ELSE unread[c]
        BY <1>1, <2>1
    <2>7. \A g \in Files : pc'[g] # "crashed"
        BY <1>2, <1>3, <2>5
    <2>8. \A c \in Dirs : pc'[c] \in {"join", "exited"} /\ c \notin Forbidden => unread'[c] = {}
        BY <1>3, <2>2, <2>5, <2>6
    <2>9. \A c \in Dirs : \A x \in Entries(c) \ unread'[c] :
            pc'[x] # "none" \/ token'[c] = x \/ (IF x \in Dirs THEN x \in Hidden ELSE x \in Forbidden)
        <3> SUFFICES ASSUME NEW c \in Dirs, NEW x \in Entries(c) \ unread'[c]
                     PROVE  \/ pc'[x] # "none" \/ token'[c] = x
                            \/ IF x \in Dirs THEN x \in Hidden ELSE x \in Forbidden
            OBVIOUS
        <3>1. pc[x] # "none" => pc'[x] # "none"
            BY <2>2, <2>5
        <3>2. CASE x = f
            BY <1>2, <2>3, <2>5, <3>2
        <3>3. CASE x # f
            <4>1. x \in Entries(c) \ unread[c]
                BY <2>6, <3>3
            <4>2. token[c] = x => c # d
                BY <1>2, <2>2
            <4> QED
                BY <1>3, <2>5, <3>1, <4>1, <4>2
        <3> QED
            BY <3>2, <3>3
    <2> QED
        BY <2>7, <2>8, <2>9 DEF NoneSkipped, CheckedFileOpens
<1>7. ASSUME NEW d \in Dirs, CreateFileHandler(d) PROVE NoneSkipped'
    <2>1. /\ pc[d] = "create" /\ Create(d, token[d]) /\ token' = [token EXCEPT ![d] = Null]
          /\ unread' = unread
        BY <1>7 DEF CreateFileHandler, At
    <2>2. token[d] \in Files /\ pc' = [pc EXCEPT ![token[d]] = "fopen", ![d] = "readdir"]
        BY <1>2, <2>1 DEF TokenHeld, Working, Create
    <2>3. /\ \A t \in Threads : pc'[t] = IF t = d THEN "readdir" ELSE IF t = token[d] THEN "fopen"
                                         ELSE pc[t]
          /\ \A c \in Dirs : c # d => token'[c] = token[c]
        BY <1>1, <1>2, <2>1, <2>2
    <2>4. pc[d] = "create" /\ pc[token[d]] = "none"
        BY <2>1 DEF TokenHeld, Working
    <2>5. /\ \A g \in Files : pc'[g] # "crashed"
          /\ \A c \in Dirs : pc'[c] \in {"join", "exited"} => pc[c] \in {"join", "exited"}
          /\ \A t \in Threads : pc[t] # "none" => pc'[t] # "none"
        <3> HIDE DEF IInv, ThreadInv, Program
        <3>1. \A t \in Threads : pc'[t] \in {"readdir", "fopen", pc[t]}
            BY <2>3
        <3>2. \A g \in Files : pc[g] # "crashed"
            BY <1>3
        <3> QED
            BY <3>1, <3>2
    <2>6. \A c \in Dirs : \A x \in Entries(c) \ unread[c] :
            pc'[x] # "none" \/ token'[c] = x \/ (IF x \in Dirs THEN x \in Hidden ELSE x \in Forbidden)
        <3>1. pc'[token[d]] = "fopen"
            BY <1>2, <2>2, <2>3
        <3> QED
            BY <1>3, <2>3, <2>5, <3>1
    <2> QED
        BY <1>3, <2>1, <2>5, <2>6 DEF NoneSkipped, CheckedFileOpens
<1>8. ASSUME NEW d \in Dirs,
             \/ EndOfDir(d) \/ Lock(d) \/ AppendLink(d) \/ AppendTail(d) \/ AppendSize(d)
             \/ Unlock(d) \/ Join(d) \/ DirExit(d)
      PROVE  NoneSkipped'
    <2>1. pc[d] # "none" /\ UNCHANGED <<token, unread>>
        BY <1>8 DEF EndOfDir, Lock, AppendLink, AppendTail, AppendSize, Unlock, Join, DirExit, At
    <2>2. \/ pc' = pc
          \/ \E label \in DirLabels \ {"none"} :
                /\ pc' = [pc EXCEPT ![d] = label]
                /\ label \in {"join", "exited"} => unread[d] = {} \/ pc[d] = "join"
        BY <1>8 DEF EndOfDir, Lock, AppendLink, AppendTail, AppendSize, Unlock, Join, DirExit,
                    At, Goto, DirLabels
    <2>3. CASE pc' = pc
        BY <1>3, <2>1, <2>3 DEF NoneSkipped, CheckedFileOpens
    <2>4. CASE pc' # pc
        <3>1. PICK label \in DirLabels \ {"none"} :
                /\ pc' = [pc EXCEPT ![d] = label]
                /\ label \in {"join", "exited"} => unread[d] = {} \/ pc[d] = "join"
            BY <2>2, <2>4
        <3>2. \A t \in Threads : pc'[t] = IF t = d THEN label ELSE pc[t]
            BY <1>1, <3>1
        <3> QED
            BY <1>2, <1>3, <2>1, <3>1, <3>2 DEF NoneSkipped, CheckedFileOpens
    <2> QED
        BY <2>3, <2>4
<1>9. ASSUME NEW f \in Files, fileHandler(f) PROVE NoneSkipped'
    <2>1. UNCHANGED <<token, unread>>
        BY <1>9 DEF fileHandler, Fopen, ParseToken, FileExit
    <2>2. pc' = pc \/ \E label \in {"parse", "exited"} : pc' = [pc EXCEPT ![f] = label]
        <3>1. CASE Fopen(f)
            <4>1. pc[f] = "fopen"
                BY <3>1 DEF Fopen, At
            <4>2. f \in Readable /\ f \notin Parsing
                <5>1. f \in Checked
                    BY <4>1 DEF Checked
                <5> QED
                    BY <4>1, <5>1, Bounds DEF Parsing
            <4>3. fds # OPEN_MAX
                BY <4>2, Room
            <4> QED
                BY <3>1, <4>3 DEF Fopen, Goto
        <3>2. CASE ParseToken(f) \/ FileExit(f)
            BY <3>2 DEF ParseToken, FileExit, Goto
        <3> QED
            BY <1>9, <3>1, <3>2 DEF fileHandler
    <2>3. CASE pc' = pc
        BY <1>3, <2>1, <2>3 DEF NoneSkipped, CheckedFileOpens
    <2>4. CASE pc' # pc
        <3>1. PICK label \in {"parse", "exited"} : pc' = [pc EXCEPT ![f] = label]
            BY <2>2, <2>4
        <3>2. \A t \in Threads : pc'[t] = IF t = f THEN label ELSE pc[t]
            BY <1>1, <3>1
        <3> QED
            BY <1>2, <1>3, <2>1, <3>2 DEF NoneSkipped, CheckedFileOpens
    <2> QED
        BY <2>3, <2>4
<1>10. CASE main \/ UNCHANGED vars
    <2>1. UNCHANGED <<token, unread>>
          /\ (pc' = pc \/ pc' = [pc EXCEPT ![Root] = "opendir"])
        BY <1>10 DEF main, MainCreate, MainJoin, MainOutput, Goto, vars
    <2>2. \A t \in Threads : pc'[t] = pc[t] \/ (t = Root /\ pc'[t] = "opendir")
        BY <1>1, <2>1
    <2> QED
        BY <1>2, <1>3, <2>1, <2>2 DEF NoneSkipped, CheckedFileOpens
<1> QED
    BY <1>4, <1>5, <1>6, <1>7, <1>8, <1>9, <1>10 DEF Next, dirHandler

\* Nothing has been skipped before anything has been read.
LEMMA NoneSkippedInit == Init => NoneSkipped
BY DEF Init, NoneSkipped, CheckedFileOpens

\* Nothing was skipped and everyone has ended: the files listed are those that can be read.
LEMMA Complete == IInv /\ NoneSkipped => OutputComplete
<1> SUFFICES ASSUME IInv, NoneSkipped, mainPc = "output"
             PROVE  Listed = Readable /\ \A f \in Readable : val[f] = Tokens[f]
    BY DEF OutputComplete
<1> USE DEF IInv, ThreadInv, Program
<1>1. \A t \in Threads : pc[t] \in {"none", "exited"}
    BY Below DEF JoinedBelow, Running
<1>2. pc[Root] = "exited"
    BY DEF RootThread
<1>3. \A d \in Dirs : token[d] = Null
    BY <1>1 DEF TokenHeld, Working, InMutex
<1>4. lock = Null
    <2>1. lock \in Dirs => pc[lock] \in InMutex
        BY DEF Mutex
    <2> QED
        BY <1>1, <2>1 DEF InMutex, Types
<1>5. Listed = Appended
    BY <1>4, Intact DEF ListIntact, Listed
<1>6. Appended = {f \in Files : pc[f] = "exited"}
    BY <1>1 DEF Appended
<1>7. Appended \subseteq Readable
    BY Bounds DEF Appended, Checked
<1> DEFINE V == {d \in Dirs : d \notin Forbidden /\ pc[d] = "exited"}
<1>8. ASSUME NEW d \in V, NEW e \in DOMAIN Parent, Parent[e] = d,
             IF e \in Dirs THEN e \notin Hidden ELSE e \notin Forbidden
      PROVE  pc[e] = "exited"
    <2>1. e \in Entries(d) \ unread[d]
        BY <1>8 DEF NoneSkipped
    <2>2. token[d] # e
        BY <1>3
    <2> QED
        BY <1>1, <1>8, <2>1, <2>2 DEF NoneSkipped
<1>9. Reachable \subseteq V
    <2>1. ClosedBelow(V)
        BY <1>8 DEF ClosedBelow, Open
    <2>2. {Root} \ Forbidden \subseteq V /\ V \in SUBSET Dirs
        BY <1>2
    <2> HIDE DEF V
    <2> QED
        BY <2>1, <2>2, ReachableLeast
<1>10. \A f \in Readable : pc[f] = "exited"
    BY <1>8, <1>9 DEF Readable
<1>11. Readable \subseteq Appended
    BY <1>6, <1>10 DEF Readable
<1>12. \A f \in Readable : val[f] = Tokens[f]
    BY <1>10 DEF Counted, Readable
<1> QED
    BY <1>5, <1>7, <1>11, <1>12

\* main outputs with every file that can be read on the list, and every count final.
THEOREM OutputSound == ASSUME EnoughDescriptors PROVE Spec => []OutputComplete
<1>1. Init => IInv /\ NoneSkipped
    <2>1. Init => Grounded /\ Within /\ Counted
        BY DEF Init, Grounded, Within, Counted
    <2> QED
        BY <2>1, ThreadInit, ListInit, FdInit, NoneSkippedInit DEF IInv
<1>2. IInv /\ NoneSkipped /\ [Next]_vars => NoneSkipped'
    BY NoneSkippedStep
<1>3. IInv /\ NoneSkipped => OutputComplete
    BY Complete
<1> QED
    BY <1>1, <1>2, <1>3, Inductive, PTL DEF Spec

\* A file that passed the permission check is opened: what the comment at the check
\* promises and, when descriptors run out, the code does not keep.
THEOREM ChecksHold == ASSUME EnoughDescriptors PROVE Spec => []CheckedFileOpens
<1>1. Init => NoneSkipped
    BY NoneSkippedInit
<1>2. IInv /\ NoneSkipped /\ [Next]_vars => NoneSkipped'
    BY NoneSkippedStep
<1>3. NoneSkipped => CheckedFileOpens
    BY DEF NoneSkipped
<1> QED
    BY <1>1, <1>2, <1>3, Inductive, PTL DEF Spec
=============================================================================
