# Verification of the programs in this repository

The repository is a collection of course programs (README.md: "Education"). This
directory holds TLA+ modules that model those of them whose correctness is hard to
test, TLC configurations that check the models on small instances, and theorems that
TLAPS proves for every value of the constants.

Paths below are relative to `src/`. `OC3` in `2/ОСИ/ОC3` has a Cyrillic `О` and a Latin
`C`, as on disk; `ОС1` and `ОС2` are Cyrillic throughout.

## 1. Inventory

### 1.1 Operating systems, networks: `2/ОСИ/ОС2`

Clients send the usable lines of a text file to a server, which appends them to
`msg.txt`.

| Part | State it keeps | Operations | Interacts by | Hard behaviour | What makes it correct |
|---|---|---|---|---|---|
| `udpserver.cpp` | table `clients[]` (256), each with the last 128 ids and a time; `msg.txt` | select, receive, look up, remember the id, append, acknowledge the last 20 ids, drop entries silent for 30 s, stop | datagrams | loss, repetition and reordering; full table; full history; restart with an empty table; a failing `fopen` | what is acknowledged is stored; nothing is stored twice; every client ends |
| `udpclient.cpp` | `confirmed[]` | send what is unconfirmed, wait 100 ms for one ack, end at min(N, 20) confirmations | datagrams | late acks, an address used before | it ends; what it has seen confirmed is stored |
| `tcpserver.cpp` (Winsock) | entries 1..63 of `g_clients[]`, `g_events[]`, `msg.txt` | wait for events, accept or reject, read one connection to its end, answer `ok`, shut down on `stop` | TCP streams | which event is served, slots reused, cut connections, full buffers | an ok stands for a line; the wait gets no closed event; nobody is left unserved |
| `tcpclient.cpp`, `tcpclient2.cpp` | counts of messages sent and oks received | connect with 10 attempts, `put`, messages, wait for the oks, `stop`; `get` | TCP streams | server closes early | exit code 0 only if the file is stored |
| `stubs/*.rb` | - | test doubles of the other end | | | say what the programs are expected to do |

### 1.2 Operating systems, threads: `2/ОСИ/ОC3`

| Part | State | Operations | Interacts by | Hard behaviour | What makes it correct |
|---|---|---|---|---|---|
| `qsort.cpp` (Win32) | ring of segments, semaphore, `tasks_active`, `event_done`, the array | push, pop, partition, dispatch the larger part, finish, stop segments | lock, semaphore, event, interlocked counter | count against signal, full queue, unguarded scans | main writes the array only when it is sorted; scans stay in the segment |
| `msort.cpp` (POSIX) | the same with a mutex and a condition variable | dispatch both halves, merge | mutex, condition variable, semaphore | halves merged before they are sorted | output sorted; main never leaves early |
| `expr.cpp` | `start_epoch`, `finished`, the table `dp` | main announces an epoch, threads compute their rows | one mutex, two condition variables | threads scheduled before the first epoch, spurious wakeups | the barrier separates the epochs; the number printed is right |
| `chess.cpp` | queue of placements, `active_workers`, `all_work_done`, total | seed, take a job, count its completions, retire, broadcast | two mutexes, two condition variables | termination detection, signals under different mutexes | every job counted once; threads and main end |
| `phil.cpp` | start and done events, waves | main starts two philosophers, waits for both with a timeout | auto-reset events | events left over by a timeout, threads terminated | neighbours never eat together; meals are fair |

### 1.3 Operating systems, kernel: `2/ОСИ/ОС1`

`kernel.cpp` is a freestanding kernel with a console: keyboard interrupt handler, a line
buffer, commands for number conversion (`nsconv`, `szconv`), dates (`posixtime`,
`wintime`) and overflow tests by hand, 64-bit division by hand. `bootsect.asm` loads it.
State: cursor, input line, video memory. Hard: screen and line limits, conversions at
the width of the integers, the interrupt between two steps of the console. Correct if
the cursor stays on the screen, the line in its buffer, and a conversion gives the
number or the message "overflow", never another number.

### 1.4 Other programs

| Part | State it keeps | Operations | Hard behaviour | What makes it correct |
|---|---|---|---|---|
| `3/БСИТ/1` file service over RPC | the server's one token and one user name for all clients, the files; a client's place in its menu | log in, leave the menu, ask for a size and then for the content, upload, remove | calls of several clients overlap; a login is two steps; a download is two calls; an upload empties the file before it writes | a client acts as itself; a download is the file |
| `3/ООП/Старое/MyString` and its binding | a buffer, its capacity, the size | insert, append, erase, replace, assign, `s[i] = c`, shrink; compare, find, substr, `+` | indices and counts at and behind the end, growth by doubling, bytes moved over one another, `s += s` | equals a sequence under every sequence of calls |
| `1/Структуры данных/База данных` | a linked list, a file | add, delete, print, search, save and leave, leave without saving, start | elements are inserted behind the first one, on every load as well | nothing is lost, repeated or changed by any history of commands and restarts |
| `1/.../Японский кроссворд` | the field, one line that all depths of a recursion share | place the islands of a row, test the columns, go deeper, move an island, return | pruning by half-filled columns; a line restored after the recursion used it | prints every solution, each once |
| `1/.../Удаление комментариев` | ten flags, the position in the file | read two symbols, pass them through a row of tests, seek back | literals, escapes, continued lines; a flag tested an iteration late | the copy is the text without comments |
| `1/Структуры данных/Splay дерево` | a search tree with counters (its `splay` is never called), a scanner for numbers in C text | insert, print | - | every number counted once |
| `1/...`: generator, sorting of arrays and lists, eight queens, ciphers, small exercises | - | pure algorithms | - | agree with a reference definition |
| `2/АСВТ` AVR assembly, `2/БД/md5.cu`, notebooks and scripts | - | - | - | - |

PROJECT.json lists every component with its status, and under "hazards" each place that
is hard to test, with the property that would catch it.

## 2. Plan

1. *Done.* The upload over UDP, its abstract specification and the refinement.
2. *Done.* The thread programs of `ОC3`, one module each, checked together.
3. *Done.* The upload over TCP.
4. *Done.* `kernel.cpp`: the console as a state machine, the conversions as functions on
   integers modulo the word against exact arithmetic, the dates against a calendar
   advanced day by day. The search of `chess.cpp` (`build_attacks`, `safe_place`,
   `seed_tasks`, `dfs_count`): every placement is counted by exactly one job.
5. *Done.* The edits of `MyString` against those of a sequence;
   sessions of the RPC service; the list of the dormitory database and the register it
   implements; the crossword solver and the comment remover against reference definitions.
   They share nothing and are checked together, in the run Machines.
   *Left:* the scanner and tree of `BigBase.cpp`, eight queens, sorting and the generator,
   textbook algorithms that tests reach well; the parsers of the upload clients.
6. *Done.* Proofs: every safety property that a passing run checks, and the two refinements,
   for every value of the constants (section 5).
7. *Last.* The AVR programs with interrupts, if their timing can be abstracted.

A module that will have proofs uses recursive functions, not RECURSIVE operators;
constants and their assumptions stand in the module that declares them; an invariant is
a conjunction of named parts.

## 3. Modules

| Module | Models | EXTENDS |
|---|---|---|
| UdpNet | messages, acks, a network that loses, repeats, reorders | |
| UdpServer | `udpserver.cpp` | UdpNet |
| UdpClient | the upload loop of `udpclient.cpp` | UdpNet |
| UploadLog | abstract: store once, learn only of what is stored, leave with enough | |
| UdpUpload | clients, server, network, time, restarts; refinement of UploadLog | UdpServer, UdpClient |
| TcpNet, TcpServer, TcpClient, TcpUpload | the same split for TCP | |
| ThreadConstants | parameters of the thread programs and what they require | |
| WorkQueue | ring and semaphore of `qsort.cpp` and `msort.cpp` | ThreadConstants |
| QSortPool, QSortPartition | the threads of `qsort.cpp`, one partition element by element | WorkQueue, ThreadConstants |
| MSortPool, ExprBarrier, ChessPool, Philosophers | the other programs | |
| MachineConstants | parameters of the programs one actor runs and what they require | |
| KernelConsole | keyboard, line and screen of `kernel.cpp` | MachineConstants |
| KernelConvert, KernelDate | its commands nsconv and szconv; posixtime and wintime | MachineConstants |
| ChessSearch | the jobs of `chess.cpp` and what each of them counts | MachineConstants |
| MyString | the class: helpers, edits, queries; of the binding `s[i] = c` and `s += s` | MachineConstants |
| RpcFiles | `server.cpp` and `client.cpp` of the file service | MachineConstants |
| Register | abstract: a bag of records, stored as a whole or not at all | |
| Dormitory | the database of students; refinement of Register | MachineConstants |
| Island | the crossword solver | MachineConstants |
| CommentRemover | the comment remover | MachineConstants |
| MCUdpUpload, MCTcpUpload, MCThreads, MCMachines | instances for TLC | |
| UdpUploadProofs, TcpUploadProofs | theorems about the uploads | UdpUpload, TcpUpload |
| ThreadsProofs | theorems about MCThreads | MCThreads |
| MSortPoolProofs | theorems about `msort.cpp`, which ThreadsProofs takes over by INSTANCE | MSortPool |
| MachineLemmas | facts about induction and folds; the search of `chess.cpp`, the crossword solver, the types of the comment remover | MCMachines |
| MachinesProofs | the other programs and the theorems about MCMachines | MachineLemmas |
| CommentsProofs | the theorem about the copy of the comment remover | MachineLemmas |
| MyStringProofs | theorems about MyString, which MachinesProofs takes over by INSTANCE | MyString |

**State and code.** Variables have the source's names where there is one
(`tasks_active`, `start_epoch`, `all_work_done`, `finished`, `confirmed`); `spc`, `cpc`,
`wpc`, `mpc` are the places in the code where the server, a client, a thread and main are.
The entries of PROJECT.json under "map" give the lines of every definition.

**Grain.** What happens between a lock and its unlock is one step, as are calls the
system makes atomic (an interlocked increment, a semaphore, an event). Where the code
leaves a lock and goes on - the post after a push, the broadcast after retiring, main's
test of `all_work_done` and its wait - there are two steps. A merge of `msort.cpp` reads
in one step and writes in another: the C++ code interleaves finer and can do everything
the model does.

**History variables** exist only to state properties: `log` (lines of `msg.txt`),
`early` (threads that took epoch 0), `inlined` (dispatches that met a full queue),
`missed` (clients whose command was not there yet), `lost` (clients an ok was lost for),
`late` (waits that timed out), `begun` and `meals`, `tokenBy`, `nameBy` and `calm` (whose login the
server's token and name are from, whether a download is undisturbed). No guard reads them except the named bounds below
(`log` is never read, apart from its bound).

**Slips.** Operators whose comment begins with "A slip" are not used by any
specification. Each is a mutation of the definition after it; PROJECT.json ("mutants")
replaces the definition by it and expects the named property to fail.

**MCThreads and MCMachines.** The thread programs have nothing in common but names. `program` is chosen
in Init, the action of that program is taken, the variables only others use keep the
model value `NotUsed`. The state space is the disjoint union of the programs' own, and
each property speaks of one program. MCMachines does the same for the programs below. The
theorems of ThreadsProofs, MachinesProofs and CommentsProofs are about the specifications
of MCThreads and MCMachines, with the very properties that the runs check: there an invariant of
each program is an invariant of the whole as long as `program` names it. Names of lemmas begin with
the program they are about (Pool for qsort, Cross for the crossword, ...).

### UDP

A message is a process and an index. `dgrams` and `acks` are sets in flight: receiving may
leave the element there (a duplicate, or a copy sent again), every element may be lost,
in any order. The server's turn is `Select` (which sockets are readable), `Serve` for
each of them in the order of the ports, `Cleanup`. `ServeEntry` is the whole handler:
look up or make an entry, search and record the id, open and append, acknowledge, and,
for "stop", leave the loop. Time is the counter `idle` of ticks since a client's last
datagram. `Crash` and `Start` kill and restart the server; `msg.txt` survives.

### TCP

A connection is named by its client. `backlog` is what is connected and not accepted,
`stream` what was sent and not read, `oks` what the server has answered and the client
not read. The server reads one connection to its end before it waits again (`spc` =
"read"): `recv_full` blocks. The event of the listening socket is manual-reset, has index 0,
and nothing resets it, so after the first connection every wait ends with index 0: the
branch for clients' events (l. 249-264) is never entered. ClientsUnheard states and
WaitIsSound proves why: whenever an entry is active, `signalled` is TRUE. A wait that
times out before the first connection yields 258, read as an index behind `g_clients[]`:
`WildRead` lets the process end. `PeekNothing` is always possible: the command sent after
`connect` need not have arrived when `accept` returns. When the server closes a
connection with unread data, oks under way may be destroyed (a reset).

### Threads

Each module's head says what it keeps. QSortPool keeps of the array only `settled`, the
positions with their final element, and lets a partition end with any two proper parts in
order with at most one element between them; QSortPartition shows that the code's
partition ends that way for every content, and PartsSeparated proves it. Condition
variables may wake without a signal in MSortPool, ExprBarrier and ChessPool. In Philosophers a
wait for a wave may time out at any time, and main then terminates threads wherever they are.

### Machines

The keyboard handler runs with interrupts off and nothing else runs after `start`, so one
key press is one step of KernelConsole. The screen (`video`, `cur_strnum`,
`cur_position`) and the line (`str_inputing`, `string_count`) are two pieces of state that
the code changes by separate counters; ConsoleLine relates them. What a command does
to the screen is chosen by Outcomes: it prints some lines, scrolls, clears, or, as
wintime, prints a second line on row 0.

KernelConvert takes a command line apart as parsing_command's commands do: the number of
arguments, `correct_nsconv` and `correct_szconv` with their order of objections, then the
conversion itself modulo the word. The number of either command is a numeral, a sequence of digit
values with `Other` for any character that is none: `overflow()` looks at its length, zeros in front
included, before `atoi`'s value is used. How the fraction of a size is laid out is left out, its two
decimals are numbers. The word is scaled with the unit: `Word` is `4 * Kilo^3`, which is 2^32 for
1024. NumeralsExact and SizesExact say of every answer (some decimals apart) what it is: where a value does not fit,
which commands refuse it and which cut it to the word, in particular where the code's own test
(l. 672) and the report mean it to be refused (section 6).

KernelDate counts years and months as `date` does, from a number of seconds given as days
and seconds; the calendar it is compared with is a variable advanced one day at a time.

ChessSearch seeds the queue level by level and takes the jobs in its order; which thread takes one is
ChessPool's matter. A job is a node (the occupied cells, the number placed, the next cell),
and `Count` is `dfs_count` as a recursive function. The reference counts the sets of pieces that do not attack one another.

MyString is an object `[ptr, size, capacity]`; `ptr` is a function on the indices of the buffer,
and a byte that nothing has written, or that lies behind the buffer or in one that is freed,
is `Junk`. The helpers (`shift_left`, `ensure_capacity`, ...) are operators with the source's
names, the overloads of a method work through them and share an action. EditsRight compares every
call on every reachable string with the same edit of a sequence, QueriesRight the comparisons,
searches, parts and concatenations.

RpcFiles splits each call where another call may come between: a login copies the name, then
logs on and replaces the token; a call takes the token when it begins; a download asks for the
size and then for as many bytes; an upload empties the file and writes it later. What a user
may open is the constant Rights. OwnIdentity says for how long a client acts as the user it
logged in as (until another client logs in; the code keeps no more than one session),
DownloadsIntact when what a download saves is the file.

Dormitory is the list as a sequence: `Inserted` puts a new element behind the first, and a start
inserts every line of the file that way, which permutes the list. Register does not promise
an order, which of several students of one name is deleted, or the gender of a new record: it
promises that a command, a save, a session left without saving and a start lose, repeat
and change nothing else.

Island searches one puzzle. A line is its set of filled cells, so that an island is an interval
and moving it one cell is one operator; `trytry`'s recursion needs no stack because every depth
restores the shared line from its row of the field. The reference, Right, says that islands of the
clue's lengths lie in its order, apart.

CommentRemover is the loop of `deleting_of_comments` with one action for each way through it;
a flag is a member of `flags`. Seeks are modelled with the end-of-file state that they clear: it
decides whether a symbol is written inside or behind the loop. The reference, Uncommented,
splits the text into tokens as C does (Token: what a token belongs to, how long it is, what it
leaves the reader in) and drops those of comments; it and Usual, which names the texts
the program is right for, are recursive functions from the end of the text.

## 4. Runs

| Run | Question | Instance and why it is enough | Outcome |
|---|---|---|---|
| UdpFaults | Is what a client takes for stored really stored, whatever fails? | two clients with two messages and one; table with one entry, history and ack of one id: every limit is reached with the second message; silences, restarts, a "stop" | holds |
| UdpOnce | Is a message stored once, does the upload implement UploadLog, and does it end over a fair-lossy network? | two clients of one port, room for both, no silences or restarts; one has three messages, needs two of them confirmed by acks that list two, and sends a "stop" as its last, which overtakes the others, ends the server under both clients, or never arrives; the other one has one message. A history holds all ids but that of the "stop", so that one less would be noticed. A "stop" of the second client beside three messages of the first gives more than twice the states, too many for liveness | holds, 105902 states |
| UdpDupHistory | `stubs/udpserveremul.rb:153` and the report: duplicates are removed | one client, three messages, history of two | violated |
| UdpFopen | an id is recorded after the message is stored (`udpserveremul.rb:154-156`) | `fopen` may fail | violated |
| TcpFaults | Does an ok stand for a line, an exit code of 0 for a stored file, is every heard client served to its end? | three clients (two `put` of which one ends with `stop` and one sends an empty text, one `get`), two entries so that a third is rejected, room for one ok so that one can be lost; kills | holds |
| TcpUnheard | Does every client end? | one client | violated |
| Threads | Safety of the six thread programs, every interleaving | three workers, queue of one so that it fills, six elements to sort, a partition of five over four values, merge of four over two values, N = T = 3 with cells that wrap at 3, up to five jobs, four meals each and one timeout | holds, about a million states |
| ThreadsEnd | Do they end under fair scheduling? | two workers, queue of two | holds |
| Machines | Does the kernel execute what is on the screen, are its conversions and dates right, do the jobs of chess count every placement once, is MyString a sequence, do clients of the file service act as themselves and download whole files, does the crossword solver print every solution once, does the dormitory list implement Register, is a C file copied without its comments? | a line of 5 and rows of 7 characters, so that tabs pass the end of the line and of the row; a unit of 25 and a word of `4 * 25^3` (25 keeps `100 * Kilo^2` below that word, as 1024 does); numerals of up to three digits, those next to the word in bases 10 and 12, sizes next to every unit and limit, one with zeros in front; each of the 49710 days that 32 bits of seconds reach, from 1601 and 1970; boards of 2 to 4, up to five pieces and two presets; strings of up to four bytes of two values and arguments of two, so that every edit meets a full buffer and both ends; two clients, two users, one file that one of them may open; all grids of two and three rows, those whose columns have the clues of the rows (many have no solution) and squares of four rows with several solutions; lists of up to three students, two of one name; every text of four pieces out of `x / * // /* ' " \` and the end of a line, and those that go on from a continued line | holds, 310274 states |
| MSortSorted | Is the output of `msort.cpp` sorted? | one worker, three elements | violated |
| ExprEarly | Is the number of `expr.cpp` right? | one early thread of two | violated |
| ChessMain | Does main of `chess.cpp` end? | two threads | violated |

**Symmetry.** Threads uses the permutations of the workers: no constant, initial state or
property tells them apart, and the run has no liveness property.

**Bounds.** In guards: `MaxCopies` (lines of one message in `msg.txt`; two suffice to see a
duplicate), `MaxMeals` and `MaxLate` (Philosophers; five waves are one cycle, two cycles give four
meals each), `MaxJobs` (seeded jobs; more than there are threads). In Machines: `MaxPos` (tabs
move the cursor without limit), `MaxPrints` (lines a command prints), `MaxDay` and
`SecondsOfDay` (the dates tried), `MaxPresets`, `MaxSize` and `MaxArgument` (strings),
`MaxStudents` (the list); the puzzles have at most six rows, which the module requires. `Attempts` is a
constant of the code (10) that is 1 in the runs: it only multiplies failed connects. The
sizes 256, 128, 20, 63 and 2^20 of the code are constants here and
small in the runs so that each limit is met.

**Deadlock** is checked in UdpDupHistory and UdpFopen, where the client goes on for ever
or the network does; elsewhere programs end and the check is switched off.

**Fairness.** UDP: server and clients have no blocking call without a timeout, so both
keep going (weak fairness); select reports a socket that stays readable and a datagram in
flight again and again arrives (strong fairness of Select per port, Serve per message,
ReceiveNews per client, an ack that lists something new); losses stop eventually. Nothing is assumed of restarts,
silences and the arrival of a "stop": an upload must end by its other messages. TCP: weak fairness of the server and of each client; WildRead and kills are not fair. Threads: weak
fairness of every thread and of main, that is, the scheduler runs every thread that can
run; locks are not modelled as queues, and no property needs them to be fair, because a step
that is enabled stays enabled or is overtaken only finitely often in these programs.
Wakeups without signal are possible and not fair: no liveness rests on them.

**What a premise leaves out.** EveryUploadEnds is about clients that have as many messages besides
"stop" as they need confirmed, and admits that a "stop" ends the server first; the clients then
retry for ever. HeardClientsEnd admits the clients of TcpUnheard and lost
oks. ThreadsEnd admits qsort and msort after a full queue (then `tasks_active` stays too
high and main waits for ever), expr after an early thread, and of chess it asks only that the threads end
(ChessMain shows why). DoneIsStored and OksAreStored are checked with a file that opens: `ok` is sent even if
`fopen` fails (l. 177-181), as in UdpFopen.

## 5. Proofs

Every safety property of a run that holds is a theorem of the specification that the run checks,
for every value of the constants: all invariants, and the refinements of UploadLog and Register.
What is assumed is in the statement or an ASSUME of the module that declares the constant.

| Theorem | Says | Assumes |
|---|---|---|
| UdpUploadProofs!TypeCorrect | TypeOK: types; table and histories stay in their arrays | - |
| ...!AckedIsLogged, EndedIsStored | ConfirmedLogged; FinishedStored: min(N, AckLen) of the N messages of a client that has ended are stored, of a longer file not all | OwnAddress (no two processes share an address), FileOpens |
| ...!NoDuplicates | LoggedOnce | OwnAddress, Undisturbed (no silence, no restart), HistoriesSuffice |
| ...!UploadImplementsLog | Refines: the upload implements UploadLog | the same and FileOpens |
| TcpUploadProofs!TypeCorrect, AcksAreStored, FilesAreStored, WaitIsSound | TypeOK, OksAreStored, DoneIsStored, ClientsUnheard | FileOpens |
| ThreadsProofs!ValuesOfTheirTypes | TypeOK of the six thread programs | at most 64 threads, as WaitForMultipleObjects |
| ...!CountIsExact, WokenWhenSorted, NoSharing, RingNotEmpty | qsort: Accounted, DoneMeansSorted, Disjoint, SemaphoreCounts | the same |
| ...!ScansInBounds, PartsSeparated, NothingLost | qsort, one partition: InBounds, Partitioned, Permuted | more than one element, integers |
| ...!HalvesExact, QuietWhenStopped | msort: HalvesCounted, QuietAtEnd | at most 64 threads |
| ...!BarrierHolds, ColumnsComputed | expr: Barrier, ColumnsRight (modulo the word of a cell) | N, T positive, a word above 1 |
| ...!NothingMissing, NobodyLeftAsleep | chess: DoneMeansAll, SleepersWoken | at most 64 threads |
| ...!NeighboursNeverEat, FairMeals | phil: NeighboursApart, MealsInTurn | - |
| MachinesProofs!TypesKept | TypeOK of the nine programs of MCMachines | - |
| ...!LineShown | ConsoleLine, however far tabs reach | at least two rows, STR_LEN of at least 5, the prompt and the line fit a row, printed texts are shorter than a row |
| ...!ConversionsRight | ConversionsExact: values are converted exactly modulo the word, and from base 10 and to other units than bytes only those that fit; what is refused; nothing of decimals from smaller to larger units but to terabytes from megabytes on | Kilo of at least 25 |
| ...!DatesCounted | DateRight | - |
| ...!PlacementsFound | PlacementsCounted: the total that is written | boards and numbers of pieces are positive; the split depth is the code's function of the latter |
| ...!SolutionsFound | SolutionsExact | IsPuzzle: at most six rows, whose clues fit |
| ...!EditsLikeSequences, QueriesLikeSequences | EditsRight, QueriesRight | characters are not Nul |
| ...!ActsAsItself, CalmDownloads | OwnIdentity, DownloadsIntact | a missing file is no content |
| ...!ListKeepsRegister | KeepsRegister: the list and its file implement Register | - |
| CommentsProofs!CommentsGone | CommentsRemoved | IsCFile: a line feed stands behind every CR and nowhere else |
| MyStringProofs!StringsWellFormed | every string that calls make is ended and within its buffer | - |

Bounds of the models (MaxMeals, MaxDay, MaxSize, ...) are constants with any natural value, so
the theorems hold at any bound. `Kilo >= 25` is what keeps the hundred-fold of a rest below the
word `4 * Kilo^3`; 1024 is far above. The copied files have no character 255, which a `char`
cannot tell from the end of the file.

**Induction.** tlapm cannot instantiate the library's induction theorems. The proofs use instead
that a non-empty set of naturals has a least element: a set of the numbers that have a property,
closed under successor, is all of them (LeastElement and Induction in MyStringProofs,
MSortPoolProofs and MachineLemmas, from the well-foundedness of `<` on the naturals). So
recursive functions exist with their equations (Recurs, and CommBackwards for those that begin
at the end of a text), finite sets have sums and weights, and loops that are written as
recursive functions compute what they should for every input.

**UDP.** ConfirmedLogged is not inductive: an ack in flight may be years old. The invariant says
that every id in a history and in every ack in flight is logged for that address; FileOpens is
what makes "in the history" imply "in the file" (UdpFopen shows it is needed), OwnAddress what
makes the address stand for the process. FinishedStored adds DoneConfirmed: who has left has as
many confirmations as it needs, each of which is logged. NoDuplicates adds that without restart
and cleanup a logged message is in the history and the history never overflows. The refinement
maps each step to a step of UploadLog or a stutter.

**TCP.** OksAreStored needs the position of every message: while a connection is open, its
stream is the command, if unread, followed by the messages whose indices continue those in
`msg.txt` (Streams), so the next read extends the log by exactly its length; a message is in no
second place because a client is either in the backlog or in one entry (InPlace). That the
entries in use are 1..k and that the served one is k (Entries) holds because the server reads a
connection to its end before it accepts another, or leaves it behind for good; the first free
entry is the least of a set of naturals (well-foundedness).

**Threads.** Of qsort, DoneMeansSorted: every position is settled, in a segment in hand, about
to be dispatched or in the queue (PoolCovered); the counter is zero only if there is no such
segment (Accounted, which counts by cardinalities of the sets of threads at a place).
SemaphoreCounts follows from an equation: the semaphore, the threads that have passed it and
those about to post make the length of the ring (PoolSemaphoreExact). Disjoint needs that two
segments that are held, waiting, or about to be dispatched have no position in common
(PoolHeldApart), which a partition and a dispatch keep. Of a partition, an element at or above
the pivot stops the left scan and one at or below it the right one (PartSentinels); the cursors
move towards each other.

HalvesCounted of msort is about one counter and the halves of all threads: each step of a thread
changes the counter and its own Share by the same number. A merge writes back as many elements
as its segment has (ArrayTypes), which TypeOK needs.

In expr the phases of an epoch (ExprPhases) determine how many threads can be through,
`finished` is their number, so TExpr means all. ColumnsRight adds the table (ExprTable): the
cells that no thread has left to do (ExprTodo) hold Ways of the columns before, which no thread
writes any more; a sum of cells that have wrapped is the sum wrapped (ModAdd).

In chess `active_workers` is the number of threads that search or retire, the jobs are taken in
order, and a sleeper implies one that will still broadcast. In phil an event is set for at most
the two philosophers of the current wave (PhilBidden, PhilOnlyTheWave), and as long as no wait
has timed out what was begun is what was eaten or is being eaten (PhilRepays); the five waves of
a cycle then give each the same (PhilInTurn).

**Kernel.** LineFits bounds the length of the line, but the code tests the column. The invariant
ConsoleCursorBehind relates them: the column is at least the prompt plus the length, and it gets
past STR_LEN only by a tab, which leaves four columns between them. The test `cur_position <
STR_LEN + 2` of `out_char` then keeps the line two short of its buffer. That the line is on the
screen is an increasing map from its characters to columns of the row before the cursor
(ConsoleEmbeds); tabs leave holes in it and a backspace takes its last place away; a line that
scrolls takes the map along.

Dates: the days before a year have a closed form (DateDays), increasing by the length of each
year, so that a day has one year; the loops end there by induction on what they have left, and
the calendar gains a day at a time. Numerals: values are those of Horner's scheme
(ConvIsHorner), two numerals of one length compare as their first different digits do, which is
how `overflow` compares strings, and the digits that division gives are the only proper numeral
of the value. Sizes: the ratio of two units is a power of Kilo, and each product that the code
computes is below the word exactly when its check says so.

**Search of chess.** A node has a weight, the number of sets of cells that complete it
(SearchCompletions). A completion either uses the next cell or only later ones, so the
completions of a node are split among its children, and `dfs_count` is the weight. The
invariant: what is counted and the weights of the jobs that are left sum to the number of all
placements; a level of seeding replaces each job by its children and keeps the sum. `attack_of`
works with differences of indices; by division and remainder it is the attack between the cells
(Attacks).

**Crossword.** A line is a sequence of first cells; the code's next line is the next one in the
order that compares first different cells, none is left out and the last one is found to be the
last (CrossBefore, CrossFollowing). The invariant says that rows above are right and rows below
empty, and splits all grids in those the search has passed (CrossPast) and those it will come to
(CrossAhead): a solution that is passed is printed, what is printed is passed. Going deeper,
moving on, and returning keep both; a grid whose columns the code rejects halfway is no part of
a solution (the pruning).

**MyString.** The invariant IsString says that the buffer has the bytes that the capacity
counts, that the size is below the capacity and that a Nul stands at it. Facts about the buffer
after each helper (AreCopied, AreShiftedRight, AreShiftedLeft) give what a gap that is opened
and filled, and one that is closed, make of the text (OpenedHas, ClosedHas); each method is one
of these or both (InsertHas, EraseHas, ReplaceHas, ...), for any size, index and count. The loop
of `next_capacity_ge` ends with a capacity that suffices, by induction on the number of
doublings.

**File service.** Whose login the server's name and token are from is remembered per client
(FilesFollows): they are of the last login, and a client that nobody has overtaken is that one.
A calm download knows the size the file has (FilesKnows).

**Dormitory.** The list is a bag: inserting, removing one place, and replaying the file line by
line each change the number of copies of one record as Register says; by induction on the lines
a start gives the bag of the file.

**Comments.** Uncommented and Usual have values for every symbol and mode; a lemma for each kind
of token says how they go on behind it (CommLeads). The loop is in one of nine places
(CommSomewhere), told by its flags: in code, in a comment of either kind, in a literal of either
kind, on the line feed behind a closed literal or a continued string, before and on the plain
rest of a continued comment. CommCopied says that what is written, followed by what is left from
there on, is the copy; one lemma for each place shows that an iteration keeps it, over one, two
or three symbols.

**Composition.** In ThreadsProofs and MachinesProofs the invariant IInv is one implication for
each program, from `program` being that one to the program's own invariant; a step of MCThreads
or MCMachines leaves the program and is a step of it.

**Only model-checked:** liveness (EveryUploadEnds, HeardClientsEnd, ThreadsEnd), which the
prover cannot do under fairness. The six runs that find a violation are TLC's alone.

## 6. Findings

With a run (details and quotations under "findings" in PROJECT.json):

- `udpserver.cpp:71`: a message whose id fell out of the history of 128 is stored again.
- `udpserver.cpp:175`: the id is recorded before the file is opened; a failed open loses
  the message although it is acknowledged.
- `tcpserver.cpp:128`: a client whose `put` comes after its accept is never served.
- `msort.cpp:149`: halves are merged before they are sorted.
- `expr.cpp:26`: a thread that runs before the first epoch counts itself finished.
- `chess.cpp:277`: main may miss the signal of `all_work_done`.

Seen while modelling, described in the modules, without a run of their own:

- `qsort.cpp`: after a dispatch that met a full queue `tasks_active` never reaches zero and
  main waits for ever (Accounted says by how much it is off); `msort.cpp` does the same.
- `msort.cpp`: with two threads a merge may write back what another has overwritten: elements are lost.
- `expr.cpp`: with N = 1 a late thread may sleep for ever while main joins it.
- `qsort.cpp`: more than 64 threads fail in WaitForMultipleObjects.
- `udpserver.cpp`: a second client at the same ip:port within 30 s has its first ids taken for
  duplicates and is told they are stored.
- `tcpserver.cpp`: an empty text ends the connection and loses the rest of the file; 63 unheard
  clients fill the table for good; `get` is never answered.
- `kernel.cpp:672`: for a base other than 10 the overflow is tested after it has happened
  (`if (value > 4294967295U)` of an unsigned int), and the value is printed modulo 2^32; the report
  (Отчет1.docx) has "последовательное умножение и сложение с контролем переполнения".
- `kernel.cpp:356`: szconv to bytes has no limit and cuts the size: 4 gb are 0.00 b; the report has
  "Контроль переполнения реализован до выполнения потенциально опасных умножений".
- `kernel.cpp:303`: sizes in kb, mb and gb are printed with the decimals 00: `1536 b kb` gives 1.00
  where the report has "szconv 1536 b kb  →  1.50"; from kb to tb they are computed with an overflow
  (l. 294, 295).
- `kernel.cpp:437`: units in capitals pass the check (l. 538) and then are invalid, or print nothing; the
  report has "Единицы распознаются регистронезависимо".
- `kernel.cpp`: 4294967295 is refused as invalid by szconv, a numeral of more than ten characters as an
  overflow even if it begins with zeros; `in_gbyte` refuses more than 4095 tb although they fit; tb to b
  is refused although the help lists tb.
- `kernel.cpp`, console: tabs and backspaces move the cursor and the line apart, so the
  screen may show more than is executed (LineIsShown states what holds); nothing bounds
  the tabs; wintime drops eight digits, not seven, and checks nothing.
- `chess.cpp`: with L = 0 the answer is 0, as no job has so few pieces.
- `MyString.cpp`: `compare` with a character returns 1 for every string longer than one byte; `s += s`
  frees the buffer before it reads it when it has to grow (l. 91, binding l. 83);
  `shift_left` reads behind the end mark and perhaps behind the buffer (l. 74), which is never
  seen; an insert of a repeated character grows the buffer even if it refuses the index.
- RPC service: all clients share the token and the name, so a client acts as whoever logged in
  last; one that gives up its first login still reaches the menu; overlapping uploads mix their bytes.
- `DataBase Dormitories.cpp`: the gender that is typed is compared by address, so every new record is a man's;
  a wrong number in the menu leaves without saving; every load permutes the list; without `Based.txt` the
  program fails; fields that are empty or hold blanks are read back as others.
- `Island.cpp`: from seven columns on the search behind an island leaves the string (l. 173), with nine
  its end mark is overwritten; an empty line at the end of the file solves the last size again with empty clues.
- Comment remover: a backslash in code hides what follows it, also from the start of a comment; a
  character literal is not continued; the line after a continued `//` comment loses two symbols
  before its end is looked for, so that a line of fewer runs on, and a backslash or `/*` in it ends
  or extends the comment; in a file with single LFs a `//` comment on the last line keeps its last symbol;
  a character 255 passes for the end of the file (`char` against `EOF`).
- `BigBase.cpp`: `splay`, which nobody calls, rotates around a missing child in its zig-zag cases (l. 62, 85).
- `phil.cpp`: after a wait that timed out neighbours may eat together; with PHIL = 0 waits time out at once.

## 7. Not modelled

Of `kernel.cpp`: how wintime cuts its argument and the checks of posixtime's, what `info` and
`help` say, colours, the interrupt table, cursors beyond the video memory. File formats, parsing of a line and formatting of `msg.txt` (parsing only decides which messages
a file has); texts cut at 1023 bytes; sends that block on full buffers; failing allocations; `send_one_message`, `send_messages_from_file`, `wait_ok`
and `run_get` of `udpclient.cpp`, which nobody calls; generated RPC stubs, the boot sector, MD5
arithmetic, scripts and notebooks; of MyString streams, the conversion of the binding's arguments and
exceptions; of the file service the connection, the client's own files and accounts; of the
database fields that are empty or hold blanks; puzzles of more than six rows; `BigBase.cpp`, eight queens,
the generator, sorting, ciphers and small exercises, for the reasons under "components".
