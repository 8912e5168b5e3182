# A verification project for CS214-Systems

The repository holds four C programs, one for each assignment of a systems course.
This directory models them in TLA+, checks the models with TLC and proves with TLAPS
what matters most of each: the allocator and its workloads, the similarity detector's threads,
pairs, lists and distances, the joke server and the tokenizer.

Check a run with `tlc -config <cfg> <module>` and proofs with `tlapm <module>Proofs.tla`.
`PROJECT.json` lists the runs, the source lines behind each definition, the hazards and
the theorems.

## 1. Inventory

| Component | Source | State it keeps | Operations | What is hard |
|---|---|---|---|---|
| Allocator | `Asst1/mymalloc.c`, `.h` | 4096 static bytes with a header (len, isFree) before each block; two flags | `mymalloc`, `myfree`, `isMemCorrectlyConfigured` | long sequences of calls, splits at the boundary, joins on both sides, bad pointers |
| Workloads | `Asst1/memgrind.c` | arrays of pointers; the arena outlives each workload | `caseA` to `caseE`, `main` | random order in C, the exact capacity in E |
| Similarity detector: scan | `Asst2/Asst2.c` | shared list of file nodes, a mutex, lists of threads, descriptors | `main`, `dirHandler`, `fileHandler`, `appendNode` | threads, joins, descriptors never closed |
| Similarity detector: pairs | `Asst2/Asst2.c` | array of pairs of files | `outputResults`, `combination`, `factorial`, `compareFunc` | overflow, ties |
| Similarity detector: tokens and distances | `Asst2/Asst2.c` | sorted list of tokens for each file, mean lists | `insertToken`, `insertMeanNode`, `createMeanList`, `calculate...` | lists that have to stay sorted, walks in step |
| Joke server | `Asst3/Asst3.c` | one connection at a time, the parser's token, number of the message | `main`, `chatWithClient`, `readSocket`, `writeSocket`, `checkError`, `sendError` | TCP's division into reads, early closes, one thread for all |
| File of jokes | `Asst3/Asst3.c` | growing array | `getJokes`, `appendJoke`, `getRandJoke` | odd and empty files |
| Tokenizer | `Asst0/tokenizer.c` | the current element, three cursors into it, the capacity of its buffer | `main`, `checkTokenType`, `checkKeywordPresent`, `checkComment` | cursors that have to agree, a character behind the token, comments that are not closed |

The components of one program interact by calls and shared memory (workloads and
allocator; the scan's threads; the scan's list, read by the pairs and the distances; the
file of jokes and the server), the joke server and its clients by TCP. The programs do not interact with each other. Test drivers,
homework answers and assignment texts are not modelled.

What makes each correct:

* Allocator: the headers tile the arena; blocks in use never move or overlap; NULL only
  when there is no room; a free is refused exactly when the pointer is not owned; what
  is freed is joined, so that an empty heap is one block again.
* Workloads: their asserts hold in every order, and the arena is large enough.
* Scan: no append is lost; main reads only when every thread has ended; the list then
  holds every readable file with its final count.
* Pairs: the array has room for all of them; each pair is printed once.
* Tokens and distances: a list is its file's tokens in alphabetical order, each with its
  count; a mean list is the mean of two lists; the walk over it passes over no token.
* Tokenizer: what it prints for an element is the element, cut into the longest tokens and with
  the right names; a comment that is closed ends inside the argument.
* File of jokes: successive lines that are not blank are the jokes, and there is room for them.
* Joke server: only a right answer passes; a client that keeps to the
  protocol is never refused, however its bytes arrive; an error ends the chat;
  connections are closed; nobody waits for ever.

The hazards in `PROJECT.json` give each of these its line.

## 2. Modules

| Module | Models | Extended or instantiated by |
|---|---|---|
| `HeapSpec` | what malloc and free promise: disjoint owned extents | `MyMalloc` (INSTANCE) |
| `MyMalloc` | `mymalloc.c`, one step for each loop iteration | `Memgrind`, `MCMyMalloc`, `MyMallocProofs` |
| `Memgrind` | `memgrind.c` as the client of `MyMalloc` | `MCMemgrind`, `MemgrindProofs` |
| `Detector` | the threads of `Asst2.c` | `MCDetector`, `DetectorProofs` |
| `Pairs` | the pairs of `outputResults` of `Asst2.c` | `Similarity` |
| `TokenList` | the insertions into sorted lists of `Asst2.c`, as operators | `Similarity` |
| `Similarity` | from the text of the files to the output of `Asst2.c` | `MCSimilarity`, `SimilarityProofs` |
| `JokeFile` | `getJokes` of `Asst3.c` | `KKJServer` |
| `KKJServer` | `Asst3.c` and its clients | `MCKKJServer`, `KKJServerProofs` |
| `Tokenizer` | `tokenizer.c` | `MCTokenizer`, `TokenizerProofs` |
| `MyMallocProofs` | proofs about `MyMalloc` | `MemgrindProofs` |
| `MemgrindProofs`, `DetectorProofs`, `TokenizerProofs` | proofs about the module of that name | |
| `SimilarityProofs` | proofs about `Pairs`, `TokenList` and `Similarity` | |
| `KKJServerProofs` | proofs about `JokeFile` and the course of a chat | `KKJStreamProofs` |
| `KKJStreamProofs` | proofs about what is read of the messages, and that chats come to an end | |
| `InductionLemmas` | a non-empty set of numbers has a least one, a set of sets a smallest, and a fold over a finite set is a function | `DetectorProofs`, `TokenizerProofs`, `SimilarityProofs` |

Operators whose comment begins "Variant" are plausible mistakes: substituted for the
definition that follows them (`PROJECT.json`, "mutants") they make a property fail, which
shows that the property depends on the code.

### MyMalloc

`meta` maps the offset of each live header to its `len` and `isFree`. A header that a
join absorbs leaves `DOMAIN meta`, although the program leaves its bytes in place: the
theorem `CursorSafe` says that no loop reads them. A static array is zeroed, so before the
first `mymalloc` `meta` has an allocated block of length 0 every `META` bytes, and
`myfree` walks over those. `pc` is the loop the call is in:

| Action | Code |
|---|---|
| `CallMalloc` | the call and the initialisation, lines 23-30 |
| `MallocNext`, `MallocSplit`, `MallocWhole`, `MallocFail` | an iteration of the first-fit loop that goes on, that splits, that hands out the whole block; the end of the loop |
| `CallFree`, `FreeNull` | the call, and its refusal of NULL |
| `SearchNext`, `FreeUnknown`, `FreeTwice`, `FreeFound` | an iteration of the search, its end without a block, a block already free, the block |
| `MergeNext`, `MergeDone` | an iteration of the do-while, and the new length of the base block |

`owned` and `ret` are what the client knows: the pointers it holds with the sizes it
asked for, and the last result. Pointers are offsets; an integer outside the arena stands
for any other address. Requests are not negative, as in every call of the repository
(with a negative `size` the comparison at line 42 converts to unsigned; this is outside
the model).

`Heap == INSTANCE HeapSpec` maps the call in progress to `op`: a malloc takes effect when
it returns, a free when its block is found. The join after that is a stutter. The
abstract heap may answer NULL only when no room is left even if every block is padded
as much as a block can be (`MaxPadding`), because a client cannot see padding.

### Memgrind

Each workload is an action with one disjunct for each of its loops. The coin of workload
C is nondeterministic, and a draw that the code repeats (`i--`) is no step. The arena has
its real size. To keep the run short, B, C and D make 60, 10 and 80 mallocs where the code
makes 120, 120 and 300: B and D repeat one step over blocks of one byte, padded like any
others, and stay on the arena's left part; C is the only workload with choices, and its
tree of pointers is a stack, of which 10 mallocs show all shapes up to depth 10. E has
its real 30, since its capacity is the point.

### Detector

A thread is named by its directory or file. The stores of `appendNode` are separate
steps, so that an append without the mutex is a lost update in the model. `fds` counts
descriptors: `opendir` and the stream of the permission check keep theirs to the end,
`fileHandler` gives its own back. A failed `fopen` in `fileHandler` ends the process
(`getline` on NULL). Tokens are only counted here; their spelling is the subject of `Similarity`. Reading the
directory returns entries in any order.

### Pairs, TokenList and Similarity

`first` and `second` are positions in the list, in the place of pointers. The sort and
the printing are joined: the next line is any pair not yet printed that compares least,
which is every order that `qsort` may produce among equals. Arithmetic is modulo 2^WIDTH;
when the divisor of `combination` is 0 the process is at an end (`SizeTraps`), with 64 bits from 66
files on. The quotient always fits the `int` it is returned as: it is right up to 20 files, and from
21 to 65 at most 58.

A list of tokens is a sequence of nodes in the order of the `child` pointers. `insertToken`
and `insertMeanNode` walk to the same place, `Place`, the first node whose name is not before
the new one's; the case of an empty list and of the head in `insertMeanNode` are that place too.

`Similarity` goes through the program's phases: `EndToken`, `InToken`, `Ignored` and `EndOfFile`
take one character each (`fileHandler`), `MakePairs` is the walk of `Pairs`, then come
`calculateProbabilities`, and for each pair `MeanStep` (an iteration of `createMeanList`), `Weigh`
and `Skip` (an iteration of `calculateKullbeckLeiblerDivergence`) and `printResult`. The threads of
`fileHandler` share nothing, so the files are read one after the other; how the threads run
is in `Detector`, whose `OutputComplete` is the state that `Similarity` calls `AllRead`. The
frequencies are fractions of one denominator, `Whole`, twice the product of the files'
totals, so that they and their halves are exact. `terms` keeps the two arguments of each
logarithm instead of the sum: the logarithm, and with it the colour of a line, is not
modelled. A file without tokens has an empty list and divides nothing.

### Tokenizer

Each iteration of `main`'s loops is an action: `SkipDelimiter`, `SkipBlockComment` and
`SkipLineComment` (the loop of line 38), `AppendChar` (line 65), `Match` (line 78), and `Reset`.
`checkTokenType` is an operator from the element and `rest_index` to the type and the new
`current_index`; its finite-state machine is one operator for each kind of token, in the order
of the code's branches, and what the code does by leaving `position` one further or one short
is kept (`Word`, `Decimal`, `ZeroFirst`, `OctalFloat`). The tables of operators are keyed by
their characters, as tuples of one, two or three. `strchr` finds the NUL, as the library's
does. `SkipTo` is the end of a comment: when the code would read beyond the argument the
model stops in `overrun`, since what is printed then is whatever lies there.

What is read behind the NUL of the element's buffer is taken for NUL; only `ZeroFirst` and
`Exponent` look there, and then either nothing is printed or the answer does not depend on it.
Backquotes are left out of `sign`. An argument has to be given (`argc < 2` ends the program).

### JokeFile

A file is a sequence of lines as `getline` returns them. `SetupLine`, `PunchLine` and `BlankLine`
are the iterations of `getJokes`, `PunchLine` with all of `appendJoke`. `OpenFile` and `Bind` may
fail, which ends the program before a client can connect.

### KKJServer

It extends `JokeFile`: `getJokes` runs first, and clients can connect after `Bind`. `Accept` ends
with `getRandJoke`, whose remainder by `numJokes` is a division by zero for a file without
jokes (`pc = "divided"`). Jokes differ in their text alone: `SetupWho` stands for the answer to
the setup line of the joke that was chosen.

A message is a sequence of words and pipes. `Read` takes any non-empty prefix of what has
been sent, which covers every segmentation: inside a word a division has no effect,
since the parser appends character by character. `Parse...` actions handle one
word or pipe each; `Len(buffer) > 1` is the code's `i != n-1`. `strlen`, `strtol` and
`Punctuated` are the library's answers for the words used.

External, modelled from how the code uses them: `write` succeeds until a reset has come,
then fails after the peer's reset, or raises SIGPIPE when the peer had closed; a peer that
has closed answers a write with a reset; `read` gives what is queued, then end of file or an
error. What is queued when a reset comes may be kept or dropped. The server installs no
handler, so SIGPIPE ends it. A write that fails makes `chatWithClient` return without
`close`, and `accept` fails when `OPEN_MAX` connections are open.

For an empty message 5, `msg[msgLen-1]` (line 461) is the byte before the buffer: the
model chooses either outcome. A client speaks when it has been spoken to.

## 3. Runs

| Run | Bounds | Shows |
|---|---|---|
| `heap` | SIZE 12, META 2, MIN_BLOCK 2; requests 0, 1, 2, 3 and 6; every pointer into the arena and one outside | all properties of the allocator and `ImplementsHeap` over about 100,000 states |
| `memgrind` | the arena of `mymalloc.h`; counts above | the asserts, no NULL, no refusal, every release accepted, every workload again and again |
| `detector` | five directories, five files: nested, hidden, unreadable, empty; three files to append, from two directories; 9 descriptors, just enough | integrity of the list, join order, complete output, termination |
| `detector_hidden` | the same | violation: a directory with a dotted name is not scanned |
| `detector_limit` | 8 descriptors | violation: a checked file cannot be opened |
| `similarity` | one file of any text of up to four of the characters `a B b - ' ` and space; two files of up to three words each; up to four files of one or two words or none; one list of eight files, one of eighteen; 16 bits | tokens and counts, mean lists, the walk, each pair once |
| `pairs_overflow` | nine files, 16 bits | violation: the array is too small |
| `tokenizer` | every argument of up to five characters of `a079.e-`, of up to four of `a70x+->=<'`, of up to six of `/ * \` newline `a`; elements of one to nine characters between delimiters and comments; the lines of `testcases.txt`, the fourth case of the rubric | cursors and pieces, names and longest tokens, ends of comments, room in the buffer |
| `tokenizer_operators` | the same | violation: the name of an operator for a letter and an operator |
| `kkj` | two clients; every message of `testcases.txt`; 1 connection; every file of an odd number of jokes' lines among up to five lines, two files without jokes, one of four jokes with blank lines; 2 places in the first array | see below |
| `kkj_surplus` | 2 connections | violation: a surplus pipe in a read of its own is not noticed at its message |
| `kkj_killed` | 2 connections | violation: SIGPIPE |

Why the bounds are enough. `heap`: an arena of 12 with headers of 2 has room for four
headers besides the first, so that there are blocks on both sides of a free and of a
search, splits with remainder exactly at and just below the limit, and full arenas; the
theorems cover the rest. `detector`: two directories append concurrently while a third
level and unreadable entries end early. `similarity`: a parser of characters with no memory but
the current token shows everything on four characters, which hold two tokens, a repeated
one and an ignored character; two lists of three words meet in every order of their names.
9! is the first factorial beyond 16 bits, as 21! is beyond 64, and from eighteen files on the divisor
is 0, as it is from 66 on with 64 bits. `tokenizer`: `checkTokenType` looks
at no more than three characters beyond a run of digits or letters; four or
five characters reach each of its branches with a token before or behind, and the first buffer of 5 grows in elements of up to nine. The
file of four jokes makes an array of 2 grow twice. `kkj`: the second client waits behind the first, and one lost
connection already exhausts the limit of 1, so that a failing `accept` is reached.

### Fairness

* `MyMalloc`: `WF` of the steps of a call; the client need not call.
* `Detector`: `WF` for each thread and main: the scheduler runs every thread that can run. The
  mutex needs no strong fairness, since each directory takes it a bounded number of times.
* `Memgrind`: `WF` of the whole step: one thread runs. `AllWorkloadsRun` needs nothing of the
  coin, because draws that are repeated are no steps.
* `Similarity` and `Tokenizer`: none; they are sequential, and no liveness is stated.
* `KKJServer`: `WF` of the server from the reading of its jokes on, of a reset on its way, and of each client's leaving. The last is
  an assumption about clients that the code does not enforce: `testcases.txt:42` says
  that the server blocks as long as a client with a missing pipe is alive.

### Findings

1. `checkValidDir` (`Asst2.c:709`) skips every name that begins with a dot, not only `.` and `..`.
2. Descriptors are opened at `Asst2.c:348` and by `opendir` and never closed; the second `fopen`
   at line 204 is not tested.
3. `combination` (`Asst2.c:725`) is wrong from 21 files on: 58 places instead of 210; from 66 on it
   divides by zero.
4. A pipe too many is noticed at its message only if it is in the same read (`Asst3.c:277`).
5. An early close can end the server by SIGPIPE (`Asst3.c:318`, `498`).
6. A letter or a digit alone in front of an operator becomes part of the operator's token
   (`tokenizer.c:498`, `791`): `a+b` is printed as `addition: "a+"` and `word: "b"`.
7. A number of three digits or more that begins with 0 is cut off in front of its fraction
   (`tokenizer.c:594`, `618`): `012239.3563e-6` is printed as `decimal integer: "012239"`,
   `structure member: "."`, `decimal integer: "3563"`, `minus/subtract operator: "e-"` and
   `decimal integer: "6"`, where the rubric (`Asst0rubric_DEP.txt:83`-`86`) has an octal integer
   `01223` and a floating point `9.3563e-6`. No run is set apart for it: `CutOff` in `Tokenizer` is
   this disagreement, and `LabelsFit` allows no other.

`Lost` and `Misread` in `Tokenizer` list what else was met there. The theorem `PiecesSound` shows that nothing
else is lost, and `LabelsSound` that, beside `Misread` and finding 7 (`CutOff`), every text has the name of its
kind and no longer word, number or operator begins at its place, for any argument: a 0 that ends an element behind another token is not
printed (`10+0`), nor is an octal digit behind a 0 with a fraction and an exponent that ends
the element (`05.5e3`); a 0 with one more character may have the wrong name or none (`0)`,
`05a`, `0x`), and so may a number whose exponent is not one (`1.5e+3`). A block comment ends at
the first star or in front of the first backslash (`&&` in `tokenizer.c:47` where both were meant),
so that the rest of a comment with a star in it is printed as tokens. A comment that is not
closed is read beyond the end of the argument.

`JokesArePairs` has one more: a file without jokes lets the server start, and its first client
ends it by a division by zero (`Asst3.c:170`).

`OnlyResetsLeak` and `AnswerEarned` describe two more habits exactly: connections reset by
their client before a write are not closed (lines 180, 194, 208), and an ERR message of
unknown code is taken for an answer (line 273). `AnswerEarned` also says what may pass as the last message: a text of
the length it says that ends with punctuation, or the empty text of length 0, for which the byte in front of the
buffer decides (line 461).

## 4. Proofs

Each component's proof has the same shape: an inductive invariant, found by asking of each
failing step what the code relies on there, checked by TLC on the component's instance before it
was proved; one lemma for each action; then the properties of the runs as consequences.
Properties carry the names of the runs, so that each theorem says for every value of the
constants what its run shows on a small instance.

### The allocator (`MyMallocProofs`)

For every `SIZE` that is a multiple of `META > 0`, every `MIN_BLOCK`, every set of requests and
every set of pointers (`HeapAssumption`):

| Theorem | Statement |
|---|---|
| `Inductive` | `Spec => []IInv` |
| `TypeCorrect`, `Tiled`, `Ownership`, `CursorSafe`, `NoFragments`, `LeakFree` | the invariants `TypeOK`, `HeapTiled`, `OwnedIsAllocated`, `CursorOnHeader`, `Coalesced`, `CleanWhenEmpty` |
| `NullMeansFull`, `RefusalExact`, `InUseKept` | the action properties `OutOfMemoryIsReal`, `RefusedIffNotOwned`, `InUseUnmoved` |
| `HeapRefinement` | initial states map to initial states of `HeapSpec`, steps to steps or stutters |
| `LoopsAdvance` | each turn of a loop goes on by a header at least, and not beyond `SIZE` |

Tiling and ownership alone do not survive a step, because a step
of a loop relies on what the loop has already seen. `IInv` adds that knowledge: `FreeApart`
(free neighbours only while they are being joined), `MallocInv` (nothing the first-fit walk
has passed has room for the request, which at the end of the walk is `NoRoom`), `SearchInv`
(the block searched for is not behind the cursor, and `freeBlock` is the free block that ends
at the cursor, or -1, or the initial 0 at the start), `MergeInv` (the join spans the freed
block and at most one free block on either side) and `ZeroInv` (before the first `mymalloc` no
block is free). TLC checks `IInv` in the run `heap`. The lemmas rest on
a few about tilings (`HeadFacts`, `Disjoint`, `OneBefore`, `MergeSpan`); the
refinement rests on `ServedIsClear` (a block handed out is clear of the others) and `FullIsFull`
(`NoRoom` implies that the abstract heap has no room). The step lemmas are stated for `AnyNext`, the
calls of any client, so that they serve `Memgrind` too.

### The workloads (`MemgrindProofs`)

For every number of calls and every order of the matrix, as long as the first workload makes a
call (`MemgrindAssumption`): `ClientInductive`, `ClientTypes` (`ClientTypeOK`) and `AssertsHold`
(`AssertHolds`). `ClientInv` says which places of the array still hold a block (`Live`, which
differs between the orders of release), that these pointers, with the one that is on its way to
or from the allocator (`Pending`), are exactly the blocks that are owned, each once, and how far
the counters are. `AssertsHold` needs nothing of the arena: a NULL in the array is passed to
`myfree` and refused, and the assert holds still.

`NoSaturation` (`NeverSaturated`) and `NoRefusal` (`NeverRefused`) need an arena that is
`LargeEnough`: the workload's blocks fit one behind the other, and none but the last
would be left with less than a header and `MIN_BLOCK` bytes behind it, which would become its padding.
TLC evaluates that for the run's counts (`Enough` in `MCMemgrind`). With the code's counts
300 blocks of one byte take 2700 of the 4096 bytes, and E takes 4088, where its last row is one
that is padded. `RoomInv` adds where each block is
(`Placed`) while the array is filled; `OneFree` shows that then one free block follows
all others, for no induction over the blocks is needed: a free block ends at the arena's end or
in front of an allocated one, and what ends in front of one of those is known.

### The threads of the similarity detector (`DetectorProofs`)

For every finite tree of directories and files (`TreeAssumption`; it need not be a tree: what cannot
be reached is shown never to run) and every number of descriptors:

| Theorem | Statement |
|---|---|
| `Inductive`, `TypeCorrect` | `IInv`, `TypeOK` |
| `ListSound` | `ListIntact`: one chain from `head` to `tail` of `size` nodes, no file twice |
| `JoinsSound` | `JoinedBelow`: a thread ends after all those below it |
| `OutputSound`, `ChecksHold` | `OutputComplete` and `CheckedFileOpens`, given `EnoughDescriptors` |
| `NoDeadlock` | until main has ended, or the lack of a descriptor has ended the program, some thread can go on |
| `StepsAdvance` | every step leaves some thread nearer to its end and none farther from it |

`IInv` is `ThreadInv` (types, mutual exclusion, what each `dirHandler` has read, created and
joined), `Grounded` and `Within` (only what can be reached from the first directory runs),
`Counted` (a count is final when its thread ends), `ListInv` (there is an order of the nodes
appended that the pointers follow, whatever stage the thread in the mutex is at) and `FdInv`
(`fds` is at most the number of directories, checks and streams that have been opened and not closed). `EnoughDescriptors` is
`OPEN_MAX >= Cardinality(Reachable) + 2 * Cardinality(Readable)`: one for each directory, one
for each file that is never closed after its check, one for its thread. It is exact for the
instance of the runs: `detector` has 9, and with 8 `detector_limit` violates
`CheckedFileOpens`. `Walk` is a recursive
function, and the proof that it is the chain (`WalkIsChain`) takes the least place where they
differ (`Least`); `Reachable` is the least closed set of directories.

A thread waits for two things, the mutex and the thread it joins. Whoever holds the mutex can go on, so that in
a deadlock every `dirHandler` that runs would be waiting for another in a `pthread_join`
(`NobodyStuck`). Who is in a list of threads was started for an entry of that one directory (`Descended`), so that no
two wait for the same; and nobody but `main` waits for the first. As many threads would wait for
as many as there are but one, which the pigeonhole principle forbids. `Advance` measures what a
`dirHandler` has left in entries to read, labels (`Rank`) and threads to join, a `fileHandler` in
tokens; the rank of a thread that is not started is above all others. With the fairness of the
threads the two theorems are what `Finishes` rests on; the step from them to the liveness
property needs `ENABLED` and an induction, and stays with TLC.

### The pairs, lists and distances of the similarity detector (`SimilarityProofs`)

For every set of lists of texts, of any length over any characters, and every `WIDTH` of at least
two bits (`SimilarityAssumption`, `PairsAssumption`):

| Theorem | Statement |
|---|---|
| `Inductive`, `TypeCorrect` | `IInv`, `TypeOK` |
| `TokensExact` | `TokensCounted`: the list of a file is alphabetical and holds just its tokens, each with the number of times it occurs |
| `PairsOnce` | `AllPairsOnce`: a run that comes to its end has printed each pair of files, and each once |
| `RoomSuffices` | `RoomForAllPairs`, no write beyond the array and no division by zero, for lists of files for whose number no product of `factorial` overflows |
| `MeanSound` | `MeanIsMean` |
| `TokensWeighed` | `EveryTokenWeighed` |

`RoomSuffices` has the hypothesis `Fits(Len(t))` for each list of files `t`. With 64 bits it holds
up to 20 files and fails at 21, where the finding begins; TLC evaluates the same limit for the
16 bits of the runs, 8 files (`MCSimilarity`). The other theorems have no hypothesis: a
run whose array is too small stops in `overrun` and prints nothing.

The lemmas about data come first. `Before` orders the names strictly and totally (`BeforeTransitive`,
`BeforeTotal`). What a recursive function or a fold computes is found without an
induction schema: `FoldExists` constructs the fold over all subsets of a finite set from a
minimal counterexample, `SumIsLast` reads from it that `SumFunction` is the last of the
prefix sums, and `ProductsExist` and `ProductsAgree` do the same for `factorial`. From these follow
`AddedIs` (an insertion keeps a list alphabetical, adds the name, and adds the value to the sum of that
name and of no other), `Lookup` (in an alphabetical list that sum is the node's value) and
`CombinationIs`.

`IInv` consists of `Typed`; `PairsInv` (the pairs written are those of which the walk has passed,
each once, and their number in terms of `first` and `second`); `ListsInv` (lists are
alphabetical, a total is the sum of the counts while they are counts, and `Whole`
once they are frequencies, which are even so that they have halves); `MeanInv` (the mean list has
the names and sums of what has been read of the two lists, doubled at the end); and `WalkInv`, the reason
why the walk of the divergence misses nothing: whatever is left of the file's list is left of the mean
list, so the first token left in the file is never behind the mean's pointer. An invariant about the
tokens weighed so far would not be inductive without it.

`TokensExact` adds `SpellInv`: in front of the parser's place is an open stretch of which
`cToken` holds the spelling so far, and the list counts the stretches before it. `SpellingGrows` says what a
character does to a spelling and `EndedAt` what a delimiter does to the stretches that have ended.

### The joke server (`KKJServerProofs`, `KKJStreamProofs`)

For every set of files, clients and messages over the words, every division of the stream into
reads, every way a client may leave and every `OPEN_MAX` (`JokeFileAssumption`, `KKJAssumption`;
`CodesAssumption` says that no code of an error is a word of an answer, and none of the client's is one of the server's):

| Theorem | Statement |
|---|---|
| `Inductive`, `TypeCorrect` | `IInv`, `TypeOK` |
| `JokesSound` | `JokesArePairs`: the jokes are the successive pairs of lines, and the array has room for one more |
| `LeaksAreResets` | `OnlyResetsLeak` |
| `ErrorsAreFinal` | the action property `ErrorEndsChat` |
| `StreamInductive` | `IInv` and `StreamInv` |
| `AnswersAreEarned`, `CompliantAreHeard` | `AnswerEarned`, `CompliantNeverRefused` |
| `NoDeadlock` | the server waits only to be connected to, or for the current client, which is there or has sent a reset |
| `ChatsAdvance` | every step of the server in a chat brings it nearer to its end |

`IInv` is types, `ChatInv` (number of the message against the lines written), `QueueInv` (nothing
has passed to or from a client that waits), `HistoryInv` (nothing passes after an error) and
`Loaded` (`JokesRead` at each iteration of `getJokes`, from which `LineText` and `CountNext` give
each line's place among the lines that are not blank). `StreamInv` adds where the parser stands in what has been
sent: `Within` a message (the fields are those of that message, and buffer and inbox
hold its rest), `Idle` between two, or `Jammed` before a pipe too many, which will be refused.
Every theorem about answers is a statement about that position; `AtCheck` keeps what it says of the answer that has
just been let pass, the last one included (`PunchAnswer`).

`NoDeadlock` says that the cases of `readSocket`, `checkErrorCode` and `write` leave none out: the second field
comes after a first that is `REG` or `ERR` (`Begun`), and a write that can neither be made nor
fails nor kills would need a reset from a client that is still there (`LinkInv`). For `ChatsAdvance` at most three messages are
written in a chat, each is answered once, and a character that has been sent is read once and looked at once.
What `NobodyWaitsForever` adds is the fairness of the clients, without which one that stays silent blocks
the server.

### The tokenizer (`TokenizerProofs`)

For every set of arguments (sequences of characters without the NUL, of any length) and every
`INIT_TOKEN_LEN > 0` (`TokenizerAssumption`):

| Theorem | Statement |
|---|---|
| `Inductive`, `TypeCorrect` | `IInv`, and `TypeOK` with the room in the buffer |
| `PiecesSound` | `ElementsTiled`: the lines of an element are the element, but for `Lost` |
| `LabelsSound` | `LabelsFit`: each line has the name of its text and no longer token begins at its place, but for `Misread` and `CutOff` |
| `CommentsSound` | `ClosedCommentsStayInside`: the comment from which the scan leaves the argument has no end in it |
| `StepsAdvance` | every step brings the scan nearer to its end, and the loop over an element never stops short |

`IInv` is `Cursors` (how `rest_index`, `startIndex`, `current_index` and the element agree in each of
`main`'s loops), `Ordered`, `Behind` and `Pieces` (the lines printed are pieces of the argument in
its order; those of the element end where its cursor is). The main lemma is `TokenStands`: for
every element and every start `checkTokenType` never goes backwards and does not leave the element
except where `Lost` says so. It needs one lemma for each scan (`WordInside`, `OctalFloatStands`,
`ZeroFirstStands`, `DecimalInside` and so on), all over `RunEnds`, on the end of a run of characters.

`LabelsSound` follows each scan once more for what it has read. `Read` says what a scan comes back
with: nothing, on a character that begins no word or number; a place on a letter or a digit, where no operator
can begin, and then the piece up to it is `Known`: it has the name of its type and the three characters behind it rule out a
longer token, or it is misread or cut off (`Labelled`); or a place on another character, and then the piece is misread, whether or not an operator begins there
(`Taken`). There is one lemma for each scan
(`WordRead`, `HexadecimalRead`, `FloatRead`, `OctalFloatRead`, `ZeroFirstRead`, `ZeroOtherRead`, `DecimalRead`), over
lemmas that say for each kind of text what its piece of the element is (`ReadDecimal`, `ReadExponent`,
`ReadPair` and so on). `OperatorRead` adds the operator that takes the place of what was found, and
needs that the longer tables are tried first; `SizeofRead` the one place where the element as a
whole is compared, which is why `Labels` has to carry that an element `sizeof` is looked at
from its start only. `Followed` connects the three characters behind a piece in the element with those in
the argument, which differ where the element ends at a delimiter or a comment. `KnownLongest` then turns
them into `Longest`, a statement about every longer stretch of the argument: `Extends` is such a stretch, and one lemma
for each kind of text (`WordEnds`, `IntegerEnds`, `OperatorEnds` and so on) shows that it is no token. `TokenChars`,
that no token contains a delimiter, does so for a keyword, behind which there is one or the end.

`StepsAdvance` is the end of every scan: a step takes `i` on in the argument, or `startIndex` on in
the element, or is one of the at most seven that `main`'s loops make at one place (`Rank`). Behind an element the
scan is at its start again, where it could go round; that it does not rests on `AtEnd`, the
delimiter, comment or NUL that ended the element, and on `TokenStands`, by which a type always takes
a character.

### Only model-checked

* Liveness (`CallsReturn`, the fairness part of `ImplementsHeap`, `AllWorkloadsRun`, `Finishes`,
  `NobodyWaitsForever`): out of the prover's reach. Proved is that the steps lead there:
  `LoopsAdvance` for `CallsReturn`, `NoDeadlock` and `StepsAdvance` of the detector for `Finishes`,
  `NoDeadlock` and `ChatsAdvance` of the server for `NobodyWaitsForever`.

### Not modelled

* The logarithms and sums of `calculateKullbeckLeiblerDivergence` and the colours of `printResult`:
  floating point. The terms are modelled.
* A `pthread_create` or a `malloc` that fails: the code tests neither, and what follows is undefined.
* The timing of the workloads in `memgrind.c`, the functions for debugging (`printList`,
  `printTokenList`, `printMeanList`), and the freeing of lists at the end.
* What is printed on standard output and error by the server, and its command line.
* The test drivers and clients in the `...Testing` directories, the homework, and the assignment
  texts.

## 5. Plan

Done: all components modelled and checked; every safety property of the passing runs proved. What
could follow:

1. An abstract output of the detector, the lines as a function of the texts, that
   `Detector` and `Similarity` together implement.
