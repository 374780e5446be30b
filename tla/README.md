# Verification of tasks_MIPT-CAOS

The repository is a collection of some eighty small C and assembly programs, one
per `src/<topic>/<task>/`: the solutions (`sol.c`, `sol.s`, `sol.sh`) of an
operating-systems course, each with the task's statement (`problem.md`). The
programs do not call each other. What makes them worth verifying is what is
inside each: threads that share memory, processes that share descriptors,
signals, sockets whose peers do as they like, and an allocator whose data
structure lives in a file. This directory holds TLA+ models of the programs with
the hardest behaviour, TLC configurations that check them, and TLAPS proofs.

`PROJECT.json` is the index: components, runs, mutants (a plausible bug per
property, which the run must notice), the source lines behind every definition,
hazards, findings and theorems.

## 1. Inventory

State, operations and difficulties of the programs, by topic. "Modelled" names
the module.

| topic | programs | state and operations | what is hard | status |
|---|---|---|---|---|
| 01 bash | includes, gauss, config | text in, text out | nothing that a state shows | not modelled |
| 02 C basics | alu-sum, alu-mul, ieee754, utf8; bitset-calc | functions of their input | width of integers, tests in an order that matters, a text cut within a symbol | **Numbers**, **Texts**; bitset-calc not |
| 03, 04, 06 assembly | expressions, list and equation search, filters, AVX | registers, one array | floating point is out of reach | not modelled |
| 05 x86 assembly | merge sort; expression, arrays | two arrays | runs cut off at the end, the last pass | **Sorting**; the others not |
| 07 system calls | reverse lines; copy loops | memory grown by `brk` | every read must find room | **Files**; the loops not |
| 08 file I/O | external merge sort, lists in a file (two APIs); filter | file positions | two files and three cursors in the sort; items anywhere in the file | **Sorting**, **Texts**; the filter not |
| 09 file system | normalize-path; sizes, invalid executables, symlinks | one string, rewritten in place | two cursors, and a third that mixes them up | **Texts**; the others not |
| 10 mmap | substrings, list, spiral | a mapped file | overlapping finds; the spiral's four moving bounds | **Files**, **Texts**, **Numbers** |
| 10_mmap/3 | swap-file allocator: initialize, malloc, free, finalize | headers chained by sizes inside the file | long sequences of splits and merges, exact fits, header width, the load behind the end | **SwapAllocator** |
| 11 processes, 12_exec/1, 15_pipes/0 | process limit, a child per number or word, compile and run, launch | a process tree, a copy of stdio's buffer in each, a shared input, one pipe | forks and execs that fail, buffers that are copied with their contents | **Processes** |
| 12_exec/0 and 2, 15_pipes/2 | exec of python; no solution; counts gcc's messages | one exec | - | not modelled |
| 13 threads | create/join, parallel sum | one thread at a time | - | not modelled |
| 13_pthreads_basics/2 | ping-pong over socket pairs | two sockets, an unlocked flag `finished` | the flag against a blocking read, at every interleaving | **PingPong** |
| 14_sync/0 | mutex ring: k threads add to three cells each | an array, one mutex | lost updates, coinciding neighbours | **MutexRing** |
| 14_sync/1 | condvar: primes handed from producer to consumer | one value, one mutex, two condition variables, no predicate | lost and spurious wake-ups, overwriting, ending with the mutex held | **CondVar** |
| 14_sync/2 | atomic list: N threads push on a lock-free list | `head->next` exchanged atomically, `next` stored later | the list is cut between the two; the walk frees as it goes | **AtomicList** |
| 15_pipes/1, 3 | connect 2 / N processes | process tree, descriptor tables, pipes | descriptors left open: no end of file, no SIGPIPE; failed exec | **Pipelines** |
| 16 signals | counter, actions, real-time signals, ping-pong by `sigqueue` | a flag and a counter shared with handlers, masks, pending signals | test-then-pause, nested handlers, merged signals, unmasking before installing | **Signals** |
| 17_tcp/0, 20_http/0 and 1 | TCP client, HTTP get and post | a buffer, a counter of what is left | answers that arrive in any segments, early end, reset | **Streams** |
| 17_tcp/1, 2 | HTTP servers: accept, read, answer, close; run executables | the client's request and answer, a chain of processes | clients that stop or leave, files that change, failed exec, SIGTERM anywhere, SIGPIPE | **HttpServer** |
| 18 UDP | numbers, ICMP ping, DNS | request and answer in turn | lost, late, doubled and damaged answers; an alarm that may come at any step | **Datagrams** (formats in **Numbers**, **Texts**) |
| 19_epoll/0 | count bytes over N descriptors | level-triggered epoll | hang-ups and files | **EpollCount** |
| 19_epoll/1 | echo server | edge-triggered epoll, connections | an edge worth more than one call, `break` out of a batch, half-closed peers | **EpollEcho** |
| 20_http/2 | title of a page by libcurl | one buffer | chunks of a page | **Files** |
| 21, 23 | OpenSSL, dlopen | - | straight-line use of a library | not modelled |
| 22 FUSE | simplefs, mergefs, unzipfs | an image; directories that change; two static buffers under threads | unsigned lengths, uninitialized tables, operations that overlap | **SimpleFs**, **MergeFs**, **UnzipFs** |
| 24 Python modules | primes, debugger; matrix, csv | the debugger's counters and command list | commands consumed by trace events | **Numbers**, **PyDbg** (partly); the others not |

What makes the modelled components correct, in a sentence each:

- the allocator's blocks always tile the file and belong to exactly one owner;
- there is exactly one ball in the ping-pong, and both players leave;
- no addition to the ring is lost, and every cell ends at `3 * N`;
- every prime from A on is printed once and in order, as long as only signals wake the threads;
- no push is lost from the atomic list and the walk touches only live elements;
- a pipeline writes what a shell's would, nobody is left behind, and it ends;
- the echo server forgets no work of a client that sends piece by piece;
- each HTTP client gets its own whole answer, one process serves at a time, and a
  signal ends all of them that serve;
- no signal is lost but by merging, and the last value printed is what the signals ask for;
- a client takes each answer for the question it belongs to and ends when the answers do;
- the epoll counter counts every byte written to its descriptors;
- a family of processes prints every number, counts every word, and leaves nobody waiting;
- a file system answers what its image, directories or archive hold, whatever earlier
  operations left in its buffers;
- sorts, sums, formats and searches give what a one-line definition of their task gives.

## 2. Plan

Built, in this order: SwapAllocator (with Arena), CondVar, PingPong (with
PingPongRules), AtomicList, MutexRing, Pipelines, EpollEcho, HttpServer; then the file
systems and the algorithms; then the programs that deal with peers. Programs that are
alike are composed, so that one run and one set of proofs serve them: the three programs
with locks in Threading, the three file systems in FileSystems (to which MCAnswers adds
the algorithms), the clients, signals and families of processes in Peers. Proofs followed in
the same order, the signals, the pipelines and the file systems last.

Every invariant and action property of the runs is proved too, except those of the algorithms and
of the debugger (section 5).

Small programs share modules and runs by topic. Modules use functions and folds
instead of `RECURSIVE`, so that all of them can be proved about, except Numbers and what
uses it, which take exclusive-or from Bitwise.

## 3. Modules and how they correspond to the code

A step of a model is what the code does between two points where something else
can happen: a system call, an access to shared memory, a release of a lock. What
has no concurrency (the allocator) takes one step per loop iteration.

**SwapAllocator** (10_mmap/3). `mem` maps addresses to the headers stored there.
`Load` of an address without a header returns anything: that is a payload or
damage. `Store` removes the headers its bytes run over: `StoreWidth` is the number of
bytes the compiler writes for `*(MemBlock*) p = block` (5 by fields, 8 with padding).
`MallocScan`, `FreeForward`, `FreeBackward` are the three loops; `MallocSplit`,
`MallocWhole`, `MallocNull`, `FreeStore` their ends. `FreeFault` is the load of a
header behind the mapping, which `my_free` makes before it tests the bound: it may be
harmless or fatal, and the model allows both. `myalloc_initialize` does nothing when the
file is not open. **Arena** is the abstract
specification, a set of disjoint granted ranges; `Refinement` maps `live` to `live`.

**CondVar** (14_sync/1). Everything between two releases of the mutex is one step.
`pthread_cond_wait` may return without a signal (`WakeSpuriously` steps); the history
variable `quiet` says that it has not yet. `is_prime` is the code's trial division,
which 0 and 1 pass. `B` is an argument of the model as of the program, and neither uses it.

**PingPong** (13_pthreads_basics/2). Every access to `finished`, every read and write
is a step. **PingPongRules** is the game as its output shows it; `PlaysTheGame` is the
refinement, with `printed` for `out`.

**AtomicList** (14_sync/2). `Exchange` and `Link` are the two halves of a push; loop bounds
are computed modulo `Word`. `order` is a history variable, for the order of the walk;
`NothingLost` does without it and speaks of what one comes to by following `next` from `head`.

**MutexRing** (14_sync/0). `+=` is `Load` and `Store`. The doubles are exact
hundredths: rounding of the sums is not modelled.

**Threading** puts CondVar, PingPong and MutexRing side by side; a behaviour runs one of them
(`part`), and the variables of the other two stay as they are before `main`.

**Pipelines** (15_pipes/1 and 3), instantiated by **MCPipelines**. Descriptor tables,
pipes of bounded capacity, end of file and SIGPIPE are the kernel's; `StartProcess`,
`Pipe`, `Fork`, `CloseEnds`, `Waitpid` are the programs'. A line has at most `MaxCommands` commands, of four
kinds: write for ever, copy, copy one item, not exist. A child's `dup2` and
`close` calls are one step, since nobody else sees them.

**EpollEcho** (19_epoll/1). `ready` is the kernel's ready list: an edge enters it when
data, an end or a connection arrives; `epoll_wait` takes the list and notes each mask
at that moment. It promises no order of the events, and the model handles them in any.
Two histories are of the clients only, and say nothing of what the server did: `rushed`
are those that connected while another one waited to be accepted, or had more to be read than a
buffer holds; `late` is set when a client ends its sending and nothing new of it is left to be
read, so that a read will find the end alone. Clients always read; they end by shutting
down their sending side.

**HttpServer** (17_tcp/1 and 2; `program` says which). One record per process: its point,
its client, what it is about to write, its open file, and where its stdout leads.
`access` (three times), `lstat`, `open`, each `read` and each write are steps, so that
a file may change, a client leave, or a signal arrive between any two. `Exec` of what
cannot be executed returns the child into the loop of `main`, as the code does; `Wait` is
`waitpid`. `Shutdown` and `Error` shut down every descriptor from 3 up, which acts on
connections shared with other processes. A write to a client that left may kill the
writer (SIGPIPE). Two loops never end and are `Spinning`: `read` after the client
left without a blank line, and the body of a file whose `read` fails. The bytes
in front of a request shorter than four characters, and requests beyond the 8192-byte
buffer, are not modelled.

**Signals** (16_signals/0-3, `program` says which). A process is a point in `main`, a stack of
handlers and a list of pending signals. A handler may start between any two steps of
what is below it, unless its signal is blocked there; ordinary signals merge while
they wait, real-time ones queue. `ready` counts the steps of the set-up: signals may
arrive between them, where they are blocked, or have the default action, or are already
handled. The end of `main` is three steps: the test of the flag, the load of the counter that is
printed, the exit; signals come between them. `Files` are the arguments of signalfd-rtsig that name a file
it can open: a request for another one crashes it (`FileFails`). Of a file the first word stands for
the line (`fscanf`'s `%s` stops at a blank, where problem.md:13 of 16_signals/2 asks for a line; of an empty file it
prints what the buffer held). `seen` is history: what was sent, merged, meant, and counted when SIGTERM came.

**Datagrams** (18_udp/0-2). Requests and answers are in `net` until the network delivers them in
any order; `MaxFaults` of them may be lost, doubled or damaged. What a client takes
from its socket is whatever is first in the queue. `icmp-ping` counts only a packet whose
checksum and data are right, and its alarm ends it wherever it is, if `timeout` is not 0 (`alarm(0)`
sets none); the others take what they get.

**Streams** (17_tcp/0, 20_http/0 and 1). What the server sent arrives in segments of any
length, and one read returns one segment's worth at most `BUFSIZ`. Headers and bodies are sequences
of named cells, because what matters is where they are torn. `content_length` counts
modulo `Word`, as `size_t` does. The server may close early or reset. `PostRequest` builds the query byte by byte as
strings have it: `Text` is a file up to its first NUL, `Posted` the body that `write` sends. A file that
cannot be read keeps http-post in its reading loop (`"spins"`). Its alarm ends it also while a
page that takes longer than a second still comes.

**EpollCount** (19_epoll/0). A descriptor is a socket, a pipe or a file; what `epoll_ctl` refuses and
which events a peer's close raises depend on it (`EPOLLIN` for a socket, a bare hang-up for
an empty pipe). Rounds of `epoll_wait`, then one event a step.

**Processes** (11_processes/0-2, 12_exec/1, 15_pipes/0). A family is the sequence of its members;
a fork copies the member with its buffers. `Slots` limits the members, and `MaxFailures` forks
fail without that. What a program reads, writes and leaves behind (`left`, `temp`, `pipe`, `out`) is
shared. A failed exec returns into the caller's code with the child's identity.

**SimpleFs** (22_fuse/0) parses the image as the code does, a step per request. `read` computes
both differences modulo `Word`. **MergeFs** (22_fuse/1) asks its directories one
after another, and another program may change one in between; the table of names it lists starts
with what is left on the stack. **UnzipFs** (22_fuse/2) has a step for each access of
an operation to the static buffers, so that operations of two threads interleave on them; a
path is a sequence of components, each a sequence of pieces, since `strcat` joins whatever stands there.
A request is what the kernel asks for after it has looked the path up: it reads only
entries that exist. **FileSystems** puts the three side by side; a behaviour mounts one (`mounted`), or none.

**Sorting**, **Numbers**, **Texts**, **Files**, **PyDbg** are functions, each next to the
definition of what it should give; **Algorithms** hands them all inputs up to a size, one job a
step. Loops are recursive functions over the loop's variables. **Numbers** works on words of four bits, **Texts** on
bytes known by their leading bits and on names, **PyDbg** on programs whose lines call
functions of up to two lines.

**MCAnswers** gives FileSystems its constants and adds Algorithms, whose jobs run when nothing is
mounted. **Peers** instantiates EpollCount, Datagrams, Streams, Processes and Signals side by side; a
behaviour runs one of them (`part`). The compositions give the modules their constants and
check the modules' assumptions. **MCPeers** adds the pages that the run of Peers serves and the files that are
posted, **MCStreams** those of the run of Streams alone.

## 4. Runs

| run | bounds | what it shows |
|---|---|---|
| `swap_allocator` | a file of 26 bytes, requests of 0, 1, 4, 9 | heap well formed, first fit, disjoint, calls return or die on the file's last block only, refines Arena |
| `swap_allocator_wide` (violation) | the same, 8-byte stores | with padded stores two live blocks overlap |
| `threads` | numbers from 0, seven primes, any number of spurious wake-ups; limit 100, eight starts; up to four threads, two rounds | condvar: no race at all, order and end as long as only signals wake the threads; ping-pong: one ball, flag agrees, refines the rules, both threads return; ring: every addition counted, `3 * N`, ends |
| `atomic_list` | three threads, two elements each | list shape, nothing lost, safe walk, all printed and freed |
| `pipelines` | all lines of one and two commands, some of three; one item per pipe | descriptors closed, output as a shell's, ends but for one named case |
| `pipelines_hang` (violation) | `yes \| head` | the parent's descriptor 0 keeps the last pipe open and the program hangs |
| `http_stop_child` (violation) | one client, one signal | the server stops and leaves the program it runs |
| `post_cut` (violation) | a page of two cells in any segments | http-post prints one segment of an answer |
| `epoll_echo` | two clients, four characters, a buffer of three | echo in order, no forgotten work of clients that do not rush, live events, served |
| `http_server` | both programs, two clients, five kinds of file, one leaver, one change, one signal | right and whole answers, one server, all answered and all servers end, whether or not a CGI program ends |
| `answers` | four images of up to three files; two directories that take four contents, one change; three archives (one with a path twice), two threads, one overlapping operation; arrays up to six, words of four bits, texts up to five pieces, scripts of four commands | every answer and every result is right, but for the named exceptions |
| `peers` | three signals, three files of which two open, a timeout of 0 or not, files with and without a NUL, ball 3; three questions, two faults; three numbers, four pages, 6 cells a read; two descriptors of any kind, three bytes; families of four members, one failed fork, a limit of three | what is counted and printed is right, and the programs end, but for the named exceptions |

Why the bounds suffice to see the hard cases: 26 bytes hold five blocks, and the
requests leave remainders of 0, less than and more than a header, so that a block
has free neighbours on both sides and every split, merge and refusal occurs.
Three threads let two pushes overlap around a third. Four ring cells are the
first with a cell two threads do not share; one, two and three cells make neighbours coincide.
Capacity 1 makes every pipe fill. Seven primes from 0 include the false primes 0 and 1 and
gaps of one and more numbers. Four characters against a buffer of three give
full, partial and repeated reads. Two HTTP clients give one in service and one
waiting, a third process appears by two failed executions, and each kind of
disturbance occurs at every point; more of them would repeat. Three signals let two
handlers cross while one more waits, or merge two while the first is handled. Two faults are a loss and a doubling, in
either order, around three questions: one before, between and after. Headers of four cells and
bodies of one to three, read by six, are torn at every place. Arrays of five and six have runs that are cut off in
two passes, and both branches of the file's sort (below and above four numbers). Bounds on
arguments that the code takes as they are (`Depth`, `MaxSignals`, `MaxOut`, ...) are
constants of the module that uses them. Where a client's length or a file's
size matters only up to "one buffer, or more", it counts buffers.

Deadlock checking is off where the program may end or stop: `threads` (a spurious
wake-up may hang condvar; that the other two end is `GameEnds` and `RingEnds`), both runs of Pipelines (one line hangs), `http_stop_child` and `post_cut`, the echo and HTTP servers after a signal,
`swap_allocator_wide` after damage, `answers` (a file system may crash) and
`peers` (all programs end).

### What was found

Each violation run checks one property that a sentence of a task asks for, and finds a behaviour of the program
that breaks it. `findings` quotes the sentence. The runs stop at the first violation and take the smallest
bounds that show it.

| run | property | what the program does instead |
|---|---|---|
| `swap_allocator_wide` | LiveDisjoint | padded header stores run over the next header (10_mmap/3 sol.c:49) |
| `pipelines_hang` | Terminates | `connectn` keeps the last pipe open: no SIGPIPE, no end (15_pipes/3 sol.c:8) |
| `http_stop_child` | ChildrenEnded | a signal ends the server and not the CGI program it started (17_tcp/2 sol.c:21), which problem.md:9-10 asks it to end |
| `post_cut` | AnswerIsPrinted | http-post loses what comes after the segment with the end of the headers (20_http/1 sol.c:73); problem.md:8 asks for the answer |

There are more places where a program does less than its task asks (first column: code and statement). A passing run
says nothing against the task there: its property is stated for the rest, and names the exception in its comment.

| where | what the program does | exempted in |
|---|---|---|
| 10_mmap/3 sol.c:66, problem.md:16 | `my_free` loads the header behind the last block before it tests the bound, which may kill it | `CallsReturn`; `TailFaults` says when |
| 14_sync/1 sol.c:54 and 16, problem.md:5 | B is not looked at: primes beyond it are printed, and 0 and 1 | `EveryPrimeOnce` |
| 14_sync/1 sol.c:35 and 45, problem.md:8 | waits are not in a loop: after a spurious wake-up a prime is skipped or printed twice, and the program may hang | `EveryPrimeOnce`, `TerminatesIfQuiet` (`quiet`) |
| 17_tcp/1 sol.c:20 and 17_tcp/2 sol.c:21, problem.md:8-9 | a signal cuts off the answer under way | `AnswerIsRight` (`shut`) |
| 17_tcp/2 sol.c:51 | a directory asked for leaves a second server, and its client's connection open | `Answer`, `Answered` |
| 17_tcp/1 and 2 | both append a line break the declared length does not count; two loops never end (`Spinning`) | `Answer`, `Answered` |
| 15_pipes/1 sol.c:15, 15_pipes/3 sol.c:20 | a child whose exec fails goes on as a second parent: the output of a line with a missing command is doubled or lost | `OutputAsShell` (`NoneMissing`) |
| 19_epoll/1 sol.c:88 and 96, problem.md:5 and 9 | one accept and one read for an edge that may stand for more | `NoForgottenWork`, `ServedUnlessEdgeLost` (`rushed`) |
| 19_epoll/1 sol.c:98, problem.md:5 | `break` drops the other clients' events | the same (`late`) |
| 16_signals/0 sol.c:33, problem.md:6-7 | a SIGINT after SIGTERM may be counted | `CountIsRight` |
| 16_signals/0 sol.c:31, 1:46, 2:50, 3:33 | a signal to stop between the test and `pause` is not seen | `SignalsEnd` (`missed`) |
| 16_signals/1 sol.c:16, problem.md:6 | crossing handlers lose an update | `ActionsAreRight` (`crossed`) |
| 16_signals/2 sol.c:32, problem.md:9-10 | SIGRTMAX, the last request, stays blocked | `LinesAreRight` |
| 16_signals/2 sol.c:17, problem.md:13 | a request for a file that does not open crashes it; the first word of a file is printed, not its line | `SignalsKept`; the word by abstraction |
| 16_signals/3 sol.c:31 | a ball that comes early kills a player | `SignalsKept` |
| 18_udp/0 and 2 | one lost datagram stops the client, one doubled one shifts every later answer | `DatagramsEnd`, `DatagramsMatch` |
| 18_udp/1 sol.c:81, problem.md:3 and 13 | `alarm(0)` sets no alarm: ping with a timeout of 0 has no end | `DatagramsEnd` |
| 17_tcp/0 sol.c:28 | a torn read shifts the answers, and if the server then goes away SIGPIPE ends the client | `NumbersAreRight` (`whole`) |
| 20_http/0 sol.c:48 | http-get spins or reads nonsense when the headers are torn or the stream ends early | `PageIsRight`, `StreamsEnd` (`whole`) |
| 20_http/1 sol.c:43, problem.md:6 | of a file with a NUL only the beginning is sent; four bytes more follow than announced | `FileIsSent` |
| 20_http/1 sol.c:42 | it never ends when its file cannot be read | `StreamsEnd` (`"spins"`) |
| 19_epoll/0 sol.c:43, problem.md:11-12 | a pipe closed while empty is a hang-up it never takes for an end: it turns for ever | `EpollEnds`, for any pipe or file |
| 11_processes/1, problem.md:5 | N children are made where the task speaks of N-1 additional processes | `NumbersInOrder` is about what is printed |
| 11_processes/2 sol.c:12, problem.md:6-7 | words of a pipe are counted by buffers | `WordsCounted` |
| 11_processes/2 sol.c:18 | after a failed fork the count is whatever `status` holds - for ever, if all later forks fail as well and what is left over is not 0 | `WordsCounted`; `ProcessesEnd` has `MaxFailures` |
| 12_exec/1 sol.c:24 | an old `_temp_` is run when the compilation fails; a child whose exec fails goes on as its parent | `ValuePrinted` |
| 22_fuse/0 sol.c:128 | an answer may be longer than the request or the file | `ReadAnswers` |
| 22_fuse/1 sol.c:115, problem.md:7 | names are missing when the table was not clean | `AnswersNames` (`clean`) |
| 22_fuse/1 sol.c:146, problem.md:3 | the offset of a read is ignored | `MergeAnswers` (`inOrder`) |
| 22_fuse/2 sol.c:35 | overlapping operations corrupt each other's names; a read that ends beyond the 1 MiB buffer overwrites what follows | `ZipAnswers` |
| 02_c_basics/0 sol.c:5 and 13, problem.md:13-15 | as many rounds as bytes, so that long carries are lost; the flag is that of the last round | `SumIsRight` |
| 02_c_basics/1, problem.md:13 | the file is alu-sum's, so that a product is not computed | `SumIsRight` |
| 02_c_basics/4 sol.c:23, problem.md:10-11 | a symbol of three or four bytes cut behind its first one or more continuation bytes is counted and not reported | `CountIsRight` |
| 09_filesystem/2 sol.c:16, problem.md:15 | right only for one `../` with names before it, and not for `./` followed by another `/` | `PathIsRight` |
| 10_mmap/0 | the needle must not be empty | the inputs of `FindSubstrings` |
| 20_http/2 sol.c:20, problem.md:5-6 | the last chunk of a page is kept; capital tags are not tried | `TitleIsRight` |
| 24_python_modules/3 sol.c:59, problem.md:7-11 | one line late after the first value, `next` enters functions, a `next` after a `step` meets a null pointer | `DebuggerIsRight` |
| 24_python_modules/1 | `Factorize` divides until 1 is left, and never ends for a number below 1 | the inputs of `FactorNumber` |

### Fairness

Weak fairness of every thread and process: the scheduler runs whoever is not
blocked, and blocking is in the guards (an empty socket, a taken mutex, a full
pipe, a running child). No strong fairness is assumed: each mutex is either taken once
per thread or handed over by signals. The environment is free, except that an HTTP client
goes on sending its request unless it leaves, and that commands in a pipeline
run; nothing else: SIGTERM, files, other clients and CGI programs move when they please. `Answered` and
`StopEndsAll` ask for an end only where the CGI programs end too (`CgisEnd`), a premise of the
property and not an assumption of the specification.

In `peers`: each signal program's process takes its next step (delivery of a pending
signal included) if it can; senders are free. Clients step; the network delivers what it neither
lost nor still holds, an armed alarm rings (one of 0 seconds is not armed), and segments that were sent arrive. A server
closes its connection after its page for get and post, which is what an HTTP/1.0 server does; the
TCP server need not. The epoll counter steps; its writers are free, and `EpollEnds` asks for an end
only when they are all sockets and all close. A family of processes takes some step as long as one is possible: its work is finite while `MaxFailures` bounds the forks that fail, so
this is what fairness of each member amounts to. `answers` has no liveness property.

## 5. Proofs

All proofs hold for every value of the constants within the modules' assumptions.

| module | theorems | argument |
|---|---|---|
| SwapAllocatorProofs | HeapWellFormed, Disjointness, FirstFitHolds, TailFaults, ImplementsArena | `TypeOK /\ IndInv` is inductive. The tiling alone is not: a scan must know it stands on a header (`ScanInv`), and `my_free` must know that what it is about to merge is free and contiguous (`MergeInv`). Assumes `StoreWidth = 5`: with 8 the run `swap_allocator_wide` refutes it. |
| ThreadingProofs | MutualExclusion, HandOverKept, PrimesInOrder | condvar: the first from who owns the mutex, whatever wakes the threads; the others from `Alternation` (who sleeps when) and `Frontier` (all primes below the candidate are printed), both while `quiet`. B occurs nowhere in the argument |
| | OneBallAlways, FlagTellsState, Refines | ping-pong: `OneBall` with `FinishedAgrees` is inductive; each step is a move of the rules or invisible |
| | NothingLostInRing, RingExclusive | ring: the sum of the additions is kept cell by cell: a cell is the three neighbours' rounds times their amounts. Inductive with it: the thread in the loop owns the mutex, what it loaded is still the cell's value, and `main` knows how far it has created and joined threads. Holds for any number of threads, one and two (where neighbours coincide) included |
| AtomicListProofs | ListAlwaysWhole, NoPushLost, WalkNeverFaults, AllPrintedOnce | the inductive invariant adds which element each thread owns, that exchanged elements are distinct, and that `main` walks only after every link is stored; holds for any `Word`, wrapping included. NoPushLost goes along the order of the pushes from the newest: `head` is the newest, and what a pointer, stored or about to be, leads to is the push before; AllPrintedOnce assumes `NoWrap` (`N * K < Word`: otherwise a bound wraps and fewer elements are pushed); its `Complete` says that the values of each thread are pushed in rising order within its bounds, and that the elements allocated, and those freed, are the pushed ones |
| PipelinesProofs | PipesAndProcesses, NoStrayWriterAlways, ParentExitsLast | `PipeInv`. A process is named by the places of the line it was forked at, one within the other, since a failed exec returns a child into its parent's code; along a name the places rise (`Named`), so a process knows which forks are behind it (`Level`). `OpenAt` says for each point of each program what a process has open, `Parent` that the first one holds the terminal and read ends only, `Families` that a child is named by the place it was forked at and is waited for, `Tree` that nobody's ancestor is missing, and `NobodyLeft` that who has left has no descendant running. For lines of any length |
| | WritesAsShell | `FlowInv`, for lines whose commands all exist: such a line is started level by level (`Flat`), and each process has the ends its level gives it (`Wired`). So a pipe nobody can write to has lost its writer, and one nobody can read from its reader. Then `Promised`: there is, for each command, a number of items it has yet to write (`Ahead`), which follows from the same number of the command before it, the items in the pipe between them and the one in hand; the last of them and what is written add up to `Ideal`. Each step changes one of these numbers at most. At the start they are the numbers `Ideal` is defined by, which exist by induction over the commands |
| EpollEchoProofs | EchoInOrder, EventsStayLive, WorkRemembered | an event's mask is old when it is handled, so the invariant says what of it still holds: only the event's own handling takes from its connection or from the backlog (`EventsAreLive`, inductive with the type), and each readable descriptor of a client that did not rush has an edge or an event, until a client ended late (`WorkIsNoted`). For any number of clients, texts and buffer sizes |
| HttpServerProofs | OneServerAlways, RightAnswers | `Order`: whoever is above a process in the chain lives only while that process is not busy, and while clients are accepted it waits (`Chain`); nobody holds a client that was not accepted (`Fresh`). So one process at most is busy, with one client, and `Right` follows for each client alone: what it was sent, joined to what its process has still to send (`Todo`), is its answer, and the process knows enough of the file for that (`Knows`). Each action either keeps `Todo` or sends its first token |
| FileSystemsProofs | MergeAnswersAlways | `MergeInv`: while nobody else changes the directories, what `find_latest` has found is the newest of the directories it has asked, the names listed so far are distinct and among those of the directories read, and are all of them if the table began clean and has room. The table of names never grows beyond its array. For any directories, paths and size of the table |
| | ZipAnswersAlways | `ZipInv`: an operation that has run alone since it began finds in the two static buffers, at each of its points, what it put there; its search has not passed the first entry of its path; and a listing has the names of the entries before the one it is at, each once. `along` notes who ran beside it, which is all the invariant needs of the others. For any archive, paths, threads and size of the buffer |
| | SimpleAnswersAlways | `SimpleInv`: an open file system holds the image's files at the offsets the code adds up. By induction over the files of the image (`Induction`, itself proved from the pigeon-hole principle for finite sets), offset i is where the first i files end, and the joined contents have file i's bytes from there on (`Layout`); what `read` does with its unsigned lengths is then arithmetic. For any image, page and size of the type |
| PeersProofs | SignalsCounted | `SigInv`: of each signal that is counted or has a line printed for it, those sent are those that had their effect, merged, are pending, or are in a handler (`SigCount`, `SigLines`). With it: how far the set-up is, and what is blocked there (`SetUpDone`), that no signal is handled twice at a time (`NoneTwice`), that the handlers of do-actions, unless they crossed, still have to do what the last signal meant (`SigActions`), and that the ball of the ping-pong is in one place at most and at the side its value says (`SigBall`). What count-sigint prints lies between the count when SIGTERM came and the last one, since the counter never falls. A process is killed only by a signal without a handler, which `SetUpDone` excludes, or by a file that does not open. For any number of signals and files |
| | AllBytesCounted | `CountInv`: while events are handled, each is of a descriptor not yet given up, and no descriptor has two. So a hang-up or end lowers `files_left` once for each descriptor that closes |
| | AnswersMatch | `DgramInv`: whatever is under way answers a request already asked, and the answers so far are one fewer than the requests while the client waits, as many otherwise (`OneAtATime`). The bound on repeated answers is inductive only together with what could still repeat: answers repeated, plus datagrams in the network and in the queue, are at most the requests under way and not yet answered, plus the doublings (`FewRepeated`) |
| | StreamsPrintedRight | `TcpInv`: while no read was torn, what is still in the stream is nothing, or the unread rest of the answer to the last request. `AskInv`: what has been asked and sent. `WebInv`: what is buffered or in segments is the page from the cell after those consumed (`RestOfPage`). `GetInv`: what is printed is the beginning of the body, and `content_length` is what is announced less what is printed, modulo `Word`. `PostInv`: until a segment was less than the page, nothing or all of it has been consumed, and accordingly printed. `FileInv`: the body sent is as long as the file and four bytes, and begins with a file that has no NUL. For any number of requests, lengths of pages, files, and `BUFSIZ`, with `Word` above the lengths and two buffers |
| | FamiliesPrintRight | `StackInv`: a family is a stack. A member that runs has none running after it; one that waits for a child has every member between it and the child gone, and those after the child too once the child is gone. Then one invariant per program (`LimitInv`, `NumbersInv`, `WordsInv`, `GccInv`, `LaunchInv`) says what is in each member's buffer, what is printed, and what is left of the input, the file or the pipe. For any number of members, failed forks and words |

The type invariants of these modules are proved, and so not checked again by the runs
(EpollEcho and HttpServer state theirs within `EventsAreLive` and `OneServer`).
So are strengthenings TLC needs no run for (`HandOverKept`, `FlagTellsState`, `PipeInv`).
Only model-checked: `AlgorithmsRight` and `DebuggerRight`, since the jobs of Algorithms reach
Bitwise, which the prover cannot (so does MCAnswers, which composes them with the file systems: FileSystems does without them for the sake of the proofs); and every liveness
property: liveness under fairness is out of the prover's reach. Three proofs are by induction over data: of what one comes to along a list, and of what a
recursive definition gives for every image and every line. The prover cannot use an induction rule
over formulas, so the rule is stated for a set of numbers (`Induction`) and proved from the pigeon-hole principle for finite sets.

## 6. Not modelled

`PROJECT.json` gives the reason for each component. They are of four kinds: programs that are one
expression or one library call (most of the assembly, bash, OpenSSL, dlopen, create/join,
symlinks); plain read-and-write loops without other state; floating-point arithmetic (AVX,
Gauss, matrices, csv columns), which TLC has no numbers for; and two programs whose result rests on
uninitialized memory, so that there is nothing to state (bitset-calc, find-invalid-executables).
Of pyprimes and the debugger, the glue to CPython and the reading of files are left out.

Data is abstracted throughout: texts are numbered characters or named parts, files are numbers of
buffers or pages, the doubles of the ring are exact hundredths, `is_prime`'s overflow near 2^64 and
requests near 2^64 bytes are left out. Calls that fail for lack of memory or descriptors are not
modelled; forks that fail are, in Processes only. `mergesort` also changes `rbx`, a register it should keep, and the
spiral's row is one byte short when its numbers have the full width: both lie below these abstractions.
