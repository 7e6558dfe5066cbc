# Models of the systems in SJTU-Classes

The repository holds the course work of several classes. Its programs with state
of their own are modelled here in TLA+, checked with TLC on small instances, and
the properties that matter most are proved with TLAPS for every instance:
a log-structured key-value store with its memory table, tables and value log; a
shell with job control; a concurrent web proxy; a memory allocator; a cache
simulator; the Y86-64 tool chain (two assemblers, a student's simulator, the
reference simulator, a sequential and a pipelined processor); the search trees;
an index of nearest neighbours queried by threads; and three small exercises.
`PROJECT.json` lists components, runs, mutants, hazards, theorems and the
source lines of every definition.

## 1. Inventory

| Component | Where | State | Operations | What is hard | What makes it correct |
|---|---|---|---|---|---|
| LSM-KV store | `Advanced-Data-Structure/LSM-KV` | memory table, tables in levels, index, object cache, value log with a hole | put, get, del, scan, reset, gc, open, close | killed between any two file operations; versions of a key in many places; gc runs inside the store it collects | lookups answer as a map; the disk holds a prefix of the client's history; levels ordered, bounded, disjoint |
| Skip list | `LSM-KV/skiplist.cc` | linked nodes on levels | put, get, del, scan, getAll | heights are random; `update` is filled by hand for new levels | whatever the heights, an ordered map |
| Table file | `sstable.cc`, `bloomfilter.cc` | header, filter, entries; a mapping | write, open, query | packed bits, bisection, a file cut short | a table answers for its keys and no others |
| Log file | `vlog.cc`, `utils.h` | bytes, pages, holes, head and tail | append, read, collect, open | holes are found by pages; a scan runs over zeros | the tail is where the log begins, after a restart too |
| Cache simulator | `icslabs/lab8/csim.c` | lines, times of use, three counters | L, S and M lines of a trace | an error shows only in what is evicted much later | it is LRU; every access is counted once |
| Tiny shell | `icslabs/lab4/tsh.c` | job list, next number, loop and handler locals; children, pending signals | commands, fg, bg, quit, ctrl-c, ctrl-z, SIGCHLD | handlers between any two steps of the loop; merged signals; process groups that do not exist yet | the list is the unreaped children; one foreground job; waiting ends |
| Web proxy | `icslabs/lab10/proxy.c` | descriptor table, connections, threads, mutex, log | accept, relay request and reply, log, close | threads share descriptor numbers and the process; peers stop anywhere | replies reach their client, in order, once; nothing is left open; log entries are exclusive and right |
| Allocator, driver | `icslabs/lab9/mm.c`, `mdriver.c` | words of the heap, free lists through free blocks, three flags; the driver's blocks | init, malloc, realloc, free | neighbours found through footers; policy flags that outlive a trace; a copy of the wrong size | live blocks are aligned and disjoint and keep their contents; the metadata agree |
| Y86 processors | `icslabs/lab7/sim/{misc,seq,pipe}` | registers, memory, flags, pipeline registers, counters | one instruction; one cycle | forwarding, stalls, squashed instructions, an early fetch behind push | every machine computes what the instruction set says; CPI |
| Y86 assemblers | `lab6/y64asm.c`, `lab7/sim/misc/yas.c` | address, symbols, relocations, image | one line; relocate; write | labels before and after use, overlapping lines | the image is the program |
| Student's simulator | `lab5/y64sim.c` | registers, memory, flags | one instruction | flags at the edge of the number range | agrees with the processor |
| Search trees | `hw5-rbtree`, `lab1` | nodes | insert, remove, find | rotations; paths that split and merge | order, balance, set semantics |
| Nearest neighbours | `lab2/src/hnsw.hpp`, `test.cpp` | graph in levels, entrance, answers | insert, query, two passes of queries, the second by threads | reading `edges[lc]` writes; degrees are cut on one side only | the threads answer as the first pass did; K answers; the graph keeps levels and degrees |
| Fibonacci tasks | `hw9/main.cpp` | calls, a shared counter | one call | test and count are two steps; the counter lies on main's stack | right number, nothing runs on behind it |
| Huffman coder | `Lab0.handout` | text, table, its file, the coded text | encode with characters or pairs | a table file read by looking for a space and a digit | decodes to the text; no code is shorter |
| Selection | `hw7` | the array | linearSelect, quickSelect | elements are moved in place | the k-th element; the array keeps its elements |
| The rest | see `PROJECT.json` | | | | pure functions, drivers, supplied or generated code, notes |

Inside the store, `KVStore` calls the skip list, the tables and the log, and the
log's collector calls `KVStore` back (`checkOffset`, `put`, `save`). In the shell
the loop and the handlers share the job list; the kernel connects them with
signals. In the proxy, threads share descriptor numbers, the mutex and the fate
of the process. The allocator is called by the driver, which writes every byte it
is given. An assembler hands an image to each of the machines, which the course's
test programs then compare.

## 2. Modules

| Module | Models |
|---|---|
| `KVStore` | the store: client operations, flush, compaction, removal of files, collection, kill and restart |
| `KVClient` | the store with its client: the map the client has been promised, and the properties |
| `KVMap` | abstract: a map whose whole content becomes stable from time to time |
| `KVProofs` | proofs about the store's index, the time of a flush, the levels and what the store answers |
| `MCKVStore`, `MCKVStale` | which operations a run allows; a client that plays one script |
| `SkipList`, `MemTable`, `SkipListProofs` | `skiplist.cc`; abstract: the map with tombstones that `KVStore` uses; proofs |
| `TableFile` | one table file: writing, kill, opening, filter, bisection |
| `VLogFile` | the log in bytes and pages: holes, mappings, scans, kill, restart |
| `RBTree`; `LLRB`, `Radix`, `CompressedRadix`, `TreeSet` | `hw5-rbtree`; the trees of `lab1` and the interface they share |
| `Hnsw`, `FibTasks`, `Huffman`, `Select` | `hnsw.hpp` under `test.cpp`; `hw9/main.cpp`; `Lab0.handout`; `hw7/select.cpp` |
| `FibProofs` | proof that the tasks give the number, whatever their order |
| `MCIndex` | composes the skip list, the trees, the two kinds of files and the four modules above for one run |
| `Heap`, `HeapAPI`, `MCHeap`, `HeapProofs` | `mm.c` under `mdriver.c`; abstract: what an allocator promises; sizes; proofs |
| `IsaOps` | words, memory, ALU, codes of `isa.c` that all Y86 programs share |
| `Isa`, `Seq`, `Y64Sim` | `step_state`; `ssim.c` with `seq-full`; `y64sim.c` |
| `PipeStd`, `PipeFull`, `Psim` | control logic of `pipe-std` and `pipe-full`; `psim.c`, one cycle a step |
| `Y64Asm`, `Yas` | the assembler of lab6; that of lab7 over the same statements |
| `Y86`, `MCY86`, `Y86Proofs` | the chain end to end, with the properties; small programs; proofs |
| `CacheSim`, `LRUCache`, `CacheSimProofs` | `csim.c` and its refinement mapping; abstract: cached blocks and which of a set are older than which; proofs |
| `Tsh`, `TshProofs` | `tsh.c`: loop, handlers, children, keystrokes; proofs |
| `Proxy`, `MCProxy`, `ProxyProofs` | `proxy.c`: main, threads, peers; scripts; proofs of the descriptors and the mutex, and of what is relayed |

### The store

The program is sequential, but `persistence.cc` kills it at any moment. An
operation is therefore cut wherever it has just changed a file, and `ctl` is the
place in the program: after a `put` that fills the memory table come `flush`
(`SSTableGenerator`), the passes of `checkLevel`, one `compaction` and the
`RemoveFile` of each of its inputs. The order of those removals is that of an
`unordered_set`, so any order. `gc` is cut at each entry, since each may put,
flush and compact. `Crash` leaves the files and forgets the rest; it may also
leave only a part of the values a flush appends, or of the tables a compaction
writes. `Reopen` is the constructor: the list of tables comes back level by
level in any order of the levels. The uninitialised `totLevel` takes any value of
`Garbage`.

`KVStore` takes three things as given that have modules of their own: the memory
table is a map (`SkipList` implements `MemTable`), a table answers for exactly
its keys (`TableFile`), and an offset of the log is an entry (`VLogFile`).

Two loops are modelled by their results: the heap merge of a compaction
(kvstore.cc:438-483) by the newest entry of each key (`Winner`), and the merge of `scan`
(216-250) by the set it lists, which leaves out that it reads the entry behind the last
of a table it has exhausted (238).

Not modelled in `KVStore`: bytes and blocks of the log, a table half written, the
order of files inside a level after a restart (by name), error returns of system
calls, a kill inside `reset`.

### Skip list, table file, log file

`SkipList` cuts a search into its turns: `Advance` along a level, `Down` to the
next, then one step at the bottom (`Insert`, `Replace`, `Get`, `Del`, `Collect`).
A node's `forward` pointers start as `uninit`, as the constructor leaves them, and
the height is a choice. `~SkipList` and `getSize` are left out; the destructor walks
`forward[0]`, which no constructor sets, and frees only the sentinels.

`TableFile` writes its pages one buffer at a time, `Kill` leaves those written, and
`Open` reads the file through a mapping that ends with its last page. What lies
behind is unmapped or anything. The hash is a function given by the run.

`VLogFile` has the bytes of the log, the pages that are not holes, and the
mapping `garbageCollect` is scanning. `flush` writes the memory table's values at
the head; a collection pads with zeros when it goes beyond the end, then punches.
A kill between the two leaves zero pages; the constructor finds the tail with
`SEEK_DATA` and a scan for the magic byte. The loop that maps anew behind an
entry never runs with the code's sizes. A magic byte that starts no entry is taken for
one and leads to `fault`, as does a byte outside the mapping (`Readable`); `FilesSound`
shows that without a kill neither is met, but for a log without a value. The checksum is taken to tell entries
from zeros.

### The trees

`RBTree` has one action per turn of `fixViolation`, so that the conditions can be
stated for a tree under repair; the two mirrored halves are one definition with a
side. The trees of lab1 are values, operations functions that return the new
tree; `TreeSet` drives them as `ycsb.cpp` does. `CompressedRadix` keeps the signs
that `int32_t` gives labels of full length: they are signed numbers, the digits they
are compared with are not, so `find` is false for every negative value, one just
inserted included. `TreesRight` says what holds of the compressed tree for the other
values, and of the other trees for all; `TreeFindsAll` is what the header promises.
The height that a new inner node starts with (uninitialised in the code) is a choice
of `Uninit`.

### Nearest neighbours, tasks, Huffman, selection

`Hnsw` inserts with any level; `search_layer` is a function of the graph that also
says which nodes it asked for their edges, since `edges[lc]` makes the list it does
not find (`Asked`): that is what a thread's query could write. The second pass is cut
at the query and at the two ends of the write into the shared map, which has no lock:
once two threads have been in it at one time (`raced`) any entries may be gone
(`Damaged`) or the program crashes (`Crash`). `AnswersRight` is therefore about the
answers the threads have, and about the map unless it raced. Points lie on a
line with no two equal distances, where the code would order by address. The argument
`ef` is unused in the code and in the model.

`FibTasks` names a call by its path from the first one; `Enter` reads the counter,
`CountUp` increments it, `CountDown` precedes `Get`; `n` holds what each call is
asked for. `FibProofs` proves what the run shows for `Fib(5)` with two threads. `Huffman` has a tree as its weight,
smallest text and codes; the table goes through the file character by character,
because the text may hold spaces, digits and newlines. `Select` makes one call on
any array, so every array a further call could find is among the first ones; `before`
is the array it was given, with which the answer is compared as `correctness.cpp`
does. `quickSelect` loses an element unless its pivot is at `low`, and its answer is
right where it has lost none.

The graphs and answers of `Hnsw` for all 243 choices of levels, and the tables of
`Huffman` for all 726 encodings of the run, are those the compiled programs give.

### The allocator

`mem` is the heap by words, so that headers, footers, links and payloads share the
memory and can overwrite each other. `mm_malloc`, `mm_free` and `mm_realloc` are
functions from a memory to a memory, as the driver waits for each call; an action
is one line of a trace as `eval_mm_valid` executes it, with `add_range` and the
fill and check of the payload. `flag`, `useflag` and `coalesceFlag` are the static
variables that switch the policy; `Begin` resets only what `mm_init` resets.
`Trigger` stands for 4092 and `MCPreAlloc` for the table in `preAlloc`. The walk along
a list stops after `MaxBlocks` blocks, more than the heap has room for; it only keeps
`FirstFit` a function of a finite set.

Left out: utilisation and speed (the driver replays a trace there under the
policy the earlier runs left), sizes whose alignment overflows, and the byte
detail of ranges: `add_range` misses a payload that encloses another, which
`ImplementsAPI` does not.

### The Y86 tool chain

A word has `WordBytes` bytes, and wherever the code has 8 as a size the model has
`WordBytes`; one byte keeps all edges of the number range within reach. A program
is a sequence of parsed lines (`Read`), assembled (`Y64Asm`: one pass, then
`relocate` and `binfile`; `Yas`: two passes as functions of the lines), loaded in
every machine (`Load`) and run (`Run`). `Psim` is cut by cycles: registers
`cur`, what the stages put in `nxt`, and `op`, whether each register loads, stalls
or bubbles. When an instruction leaves the pipeline, `Seq` and `Y64Sim` execute
one, so the machines are compared in every cycle. `Isa` is compared by
refinement: `Seq` defers its writes to the next step, and `SeqIsa` is `Isa` over
its state with the pending writes done.

What the models keep and a reader may stumble on: `y64sim` takes the sign flag from
the lower half of a result and ignores OF in conditions; on a stack access that
fails `isa.c` and `y64sim` have moved `%rsp`, `ssim` and `psim` have not; `icount`
of `psim` counts cycles although its comment says instructions; at the limit the last
writebacks are still pending. In the assemblers: `y64asm` writes 0xC0 for a data
line whose value is 0 (`Opcodes`), `yas` 0; `yas` accepts a label twice and
takes the first, `y64asm` refuses; `y64asm` does not know `iaddq`, so the programs of
the optimised pipeline go through `yas` alone.

Left out: lexing (`y64asm` does not end on a word it does not know, and takes a
colon in a comment for a label), the file formats, GUI and printing, HCL
(`hcl2c`'s output is modelled, not the translator), the other pipelines.

### The cache simulator

One action per kind of trace line; `mem` is the struct. `MaxTime` bounds the
number of accesses.

### The shell

The loop is cut where a handler can run between two accesses of the job list:
`Fork`/`AddJob` (signals are blocked in between), `WaitFg`/`WaitFgReturns`,
`FindJob`/`ReadPid`/`Continue`/`SetState` of `do_bgfg`. `sigchld_handler` is
`DeliverCHLD`, `WaitPid`, `Record`, so that other handlers run inside it where
its mask lets them; the two keyboard handlers block everything and are one step.
`proc`, `held`, `told` and `pending` are the kernel's part: `held` remembers a
SIGINT for a stopped process, `told` what waitpid has reported. A process joins
its group only by `SetPgid`; `kill` to a group that does not exist fails, and
`unix_error` ends the shell.

Abstractions: a job is one process that catches nothing; pids are not reused; a
keystroke is a signal to the shell alone, as `sdriver.pl` sends it; a child's
inherited handlers between fork and execve are left out.

### The proxy

A step of a thread is one system call on a descriptor, made on whatever socket
that number stands for now; that is what makes the double close visible. `th[c]`
holds the local variables of `thread`, `doThings` and `sendM`, the `pc` names
the place. A message is a sequence of items, lines or bytes, of which the kind
is known. A read takes all that has arrived, as `rio_read` does. A write to a
peer that has closed succeeds and breaks the connection; a write after that is
SIGPIPE. After a reset the first call on the descriptor reports it (a write fails with
ECONNRESET and no signal, which the exits of `sendM` handle), and a write after that is
SIGPIPE as well. Where the loop that forwards headers no longer ends
(see `SendsEachLineOnce`), `MaxOut` bounds it.

Abstractions: peers stop between two items; a write never blocks; `socket` and
`connect` are one step; a server replies after the whole request;
Content-Length is 1; text of the log is its size. `ProxyTwo` stops where a
thread first closes a socket of another one.

## 3. Runs

| Run | Bounds | Shows |
|---|---|---|
| `kv_map` | 3 keys, 2 values, tables of 1, level i holds 2^i, 7 flush names, log collected up to entry 3 | put, del, get, scan answer as the map, with collections between (`ClientSees`, `ScanComplete`); levels bounded, disjoint, newer above older (`LevelsSound`); nothing needed is punched (`CurrentAboveHole`) |
| `kv_all` | 2 keys, 1 value, tables of 2, all operations, three values for `totLevel` | the index is the directory and no cached object outlives its table (`MemoryMatchesDisk`); operations end |
| `kv_kill` | 3 keys, 2 values, 1 kill, puts | the disk holds a prefix (refinement of `KVMap`); a flush is newest |
| `kv_stale` (violation) | 11 keys, 15 flushes | two tables with one time; get answers with an overwritten value |
| `index` | skip list of 3 keys and 2 levels with any heights; 8 numbers in any order; 8 values of 6 bits, one of them negative; tables of up to 6 keys, killed at any page; a log of 14 bytes in pages of 4, 1 kill; 5 points, 3 levels, 3 queries, 2 threads; Fibonacci of 5 with 2 threads; texts of up to 5 of newline, space and 0; arrays of 5 out of 3 numbers | order and shape of the lists and trees at every step (`LinksSound`, `RBSound`, `TreesRight`), tables and log (`FilesSound`), nearest neighbours as far as stored alone, and selection as far as no element is lost (`AnswersRight`), coder and tasks (`ProgramsRight`); the skip list implements `MemTable`; its calls and the tasks end (`CallsEnd`) |
| `heap` | 35 words, 3 lists, 3 blocks, sizes 8, 20, 28, two traces of 7 requests in all | tiling, footers, lists, no free neighbours, no leak (`HeapConsistent`); the driver finds no fault; `HeapAPI` is implemented |
| `y86` | one-byte words, 32 bytes, every program with 3 free instructions out of 17 for the standard and 12 for the optimised pipeline | both assemblers write the program; pipeline, sequential processor, instruction set and student's simulator agree in every cycle; no register stalls and bubbles; every lost cycle is a hazard's |
| `pipe_full` (violation) | the optimised pipeline on `mrmovq 1(%rbx),%rbx` with `rmmovq %rax,0(%rbx)` behind it | the stall is cancelled although the register loaded is the base: the pipeline writes the loaded value (`gen_e_valA` takes it for `%rax`) at the address `%rbx` had before, the sequential processor `%rax` at the loaded address |
| `csim` | 2 sets of 3 lines, 5 addresses in 5 blocks (4 of one set), 7 accesses | refinement of `LRUCache`, counters |
| `tsh` | 2 children, 2 slots, 2 keystrokes | list = children with the right states, one foreground job, waiting ends; states and waiting but for a stop that bg or fg writes over (`lost`) |
| `proxy_serial` | 2 connections one after the other, 2 descriptors, any stop, 1 failing pthread_create | relaying, counting, closing |
| `proxy_two` | 2 connections at once, 4 descriptors, one client may stop early | isolation, mutex, threads end |

Why the bounds are enough. `MAX_NUM` (408) and the capacity of a level (`2 << i`)
are 1 or 2 and 1 here so that seven flushes reach three levels; a table's size
only changes how many keys a flush takes, and the level rule only when it fires.
Three free instructions are one more than the distance over which forwarding or
control can fail from decode to write-back once prelude and trailer are counted,
and one-byte words reach overflow with 255 and 3. Seven requests fill the 35
words of the heap, split, coalesce on both sides and move a block, under either
policy, since size 28 is `Trigger`. Eight numbers are enough for every case of
`fixViolation` up to the root; values of 6 bits split and merge compressed links,
and 63 among them is the number -1, whose labels are negative.

`MaxSS`, `MaxLog`, `MaxTail`, `MaxCrash`, `MaxTime`, `MaxKeys`, `MaxFail`, `MaxOps`,
`MaxTraces`, `MaxHead`, `MaxKills` and `MaxOut` only guard what the client, the user
or the peers start; the program finishes what it has begun. `MaxInstr` is the
simulator's own limit. Symmetry is used on values alone, and in no run with a
liveness property. No run checks deadlock: a client, a user or a peer may stop at
any moment. In `kv_map` and `kv_kill` the bounds stay below the first state where two
tables share a time; `kv_stale` shows what happens beyond.

Disagreements between the code and its own words. `kv_stale` (against
`kvstore_api.h`) and `pipe_full` (against the comments of `pipe-full`) are runs, each
with a finding in `PROJECT.json`. The others are definitions of the modules that
the code violates; TLC shows each with the configuration of the run named, after
the changes named and with only that property:

| Start from | Change | Property | What the code does | The words it contradicts |
|---|---|---|---|---|
| KVMapRun | `SpecMap`, `Key={1,2}`, `Value=PutValue={a}`, `MAX_NUM=2` | `ScanListsOnlyPresent` | scan lists keys whose deletion is still in memory | `kvstore_api.h:44` |
| KVMapRun | as above, `SpecGc`, `PutValue={a,Empty}`, `MaxTail=2` | `GetReturnsLastPut` | putting "" over a flushed value is not seen | `kvstore_api.h:20` |
| KVKill | `SpecKillDel` | `DiskIsPrefix` | killed inside a compaction, a deleted key is back | `persistence.cc:137` |
| KVKill | `SpecKillGc`, `Key={1,2}`, `Value=PutValue={a}`, `MAX_NUM=2`, `MaxTail=2` | `DiskIsPrefix` | killed inside a collection, values on disk are lost | `persistence.cc:207` |
| KVAll | none | `NoFreedObjectRead` | the destructor reads objects it has deleted | `persistence.cc:207` |
| KVMapRun | `SpecMap`, `Garbage <- UninitInt`, `MaxSS=5` | `LevelBound` | `totLevel` is never initialised; below -1 nothing is compacted | `kvstore.cc:327` |
| TshRun | `Spec`, `MaxKeys=0` | `WaitfgFindsJob` | waitfg reads through a null pointer after a fast job | `tsh.c:374` |
| TshRun | `Spec`, `MaxKeys=1` | `KeyReachesJob` | ctrl-c without a job goes to the shell itself, for ever | `tsh.c:441` |
| TshRun | `Spec`, `MaxKeys=1` | `KeyKeepsShell` | ctrl-c before the child's setpgid ends the shell | `tsh.c:441` |
| TshRun | `FgEnds` without its disjunct `pid \in lost`, `MaxKeys=1` | `FgEnds` | a job that stops between the `SIGCONT` of fg and its assignment of `FG` is waited for for ever | `tsh.c:374` |
| TshRun | `Spec`, `Pid={1..5}`, `MAXJOBS=4`, `MaxKeys=0` | `JidsUnique` | two jobs with one number after nextjid has wrapped | `tsh.c:593` |
| ProxyTwo | `Spec`, `MayStop={}` | `RepliesReachTheirClient` | the second close hits another thread's descriptor; a reply reaches the wrong client | `proxy.c:166` |
| ProxyTwo | `Spec`, `MayStop={}` | `StaysUp` | a client that has gone ends the proxy (SIGPIPE) | `proxy.c:92` |
| ProxyTwo | `Spec`, `MayStop <- Sock` | `SendsEachLineOnce` | a client that stops in its headers makes the last line be sent for ever | `proxy.c:195` |
| Y86Run | `Body <- MCReturnBody`, `Trailer <- MCReturnTrailer` | `PipeMatchesSeq` | push; ret to a `nop` fetches the target twice | `pipe-full.hcl:16` |
| HeapRun | none | `StartsAfresh` | a trace runs under the policy an earlier one has set | `mm.c:211` |
| Index | `Guarded=FALSE` | `RBNoNullFollowed` | inserting a number twice follows a null parent | `rbtree.cpp:149` |
| Index | none | `TreeHeightTold` | the height of the compressed tree is wrong after a split and a removal | `tree.hpp:19` |
| Index | none | `TreeFindsAll` | find is false for a negative value that has just been inserted into the compressed tree | `compressed_radix_tree.hpp:1` |
| Index | none | `TreeInBounds` | a value whose top bits are a label's sign indexes outside the children | `compressed_radix_tree.cpp:74` |
| Index | none | `TableSurvivesKill` | a table cut by a kill is opened and read | `persistence.cc:207` |
| Index | none | `AllStored` | an answer of the second pass is missing from `results` after two threads have inserted at once | `test.cpp:16` |
| Index | none | `StoresAlone` | two threads write `results` at once, the lock being commented out | `test.cpp:16`, `Lab2.md:167` |
| Index | none | `ThreadsLimited` | more threads than `maxThreads` run: the counter is read and increased in two steps, and decreased before the thread ends | `hw9/main.cpp:12` |
| Index | none | `EveryTextEncodes` | a text of one repeated character ends in the assertion: its empty code is misread from the file | `utils.h:113` |
| Index | none | `QuickSelectsRight` | quickSelect answers with another number than the k-th of the array it was given, an element having been lost | `correctness.cpp:36` |
| Index | none | `QuickKeepsElements` | quickSelect draws its pivot anywhere and opens the hole at `low`, whose element is lost | `correctness.cpp:36`, `HW7.md:14` |
| Index | `MaxKills=0` | `LogNeverFaults` | a log that is one hole makes the scan leave its mapping | `vlog.cc:25` |

Reproduced with the compiled programs: `LevelBound`, `NoFreedObjectRead`,
`WaitfgFindsJob`, `KeyReachesJob`, `KeyKeepsShell`, the three of the proxy,
`kv_stale`, the reopening of a one-hole log, and the empty code in the table's file.

**Fairness.** The store is one thread that runs until it is killed: weak fairness
of its internal steps (`SpecAll`), none of the client. The skip list: weak fairness
of the steps of a call, none of the calls. The tasks: weak fairness of their steps,
which the threads' scheduling gives; none waits for another but the caller for its
halves. The shell: weak fairness
of the loop's own steps, of each handler once its signal is pending, and of the
handler's rounds; none of children or user, so "ends" is always conditional on
the child. `tsh` checks every order of these steps. In one the shell waits for ever:
the foreground job has been continued by the `SIGCONT` of fg, stops, and the handler
records `ST` before fg assigns `FG` (tsh.c:361-363), so that the stop is written over.
The history variable `lost` holds the pids this has happened to, until they run again;
`WaitingEnds` and `StatesMatch` exempt those and so say that it is the only order that
hangs the shell or makes the list wrong (`FgEnds` above is the claim without it).
The proxy (`TwoSpec`): weak fairness of `accept` and of every thread,
which the scheduler gives; none of the peers, so the property assumes that the
request has been sent and the server has stopped. A thread that waits for the
mutex gets it by weak fairness in the model because only two threads are run and
each passes once.

## 4. Proofs

| Theorem | Says | Inductive invariant |
|---|---|---|
| `CacheSimProofs!TypeCorrect`, `WellFormed` | `[]TypeOK`, `[]SetsWellFormed`, for any geometry and trace | types, `LineInv` (tags distinct, times distinct and past) and `Tally`: a new time is larger than all, so it stays distinct |
| `CacheSimProofs!Refinement` | `IsLRU`: the simulator implements `LRUCache`, for any geometry and trace | one access uses one line (`OneLineUsed`); the block it replaces is the one with none older because stamps are distinct (`OldestHasNoneOlder`); a set has `E` blocks exactly when no line is empty, by a bijection of lines and blocks (`FullSet`); the second access of an `M` line changes only the hits (`SecondAccessHits`) |
| `SkipListProofs!TypeCorrect`, `WellLinked` | `[]TypeOK`, `[]LinksSound`, for any keys, levels and heights | besides the links: where a search stands (`Descent`), that `update` holds the predecessor of the key on each level passed (`UpdateInv`), and that a listing holds what it has passed (`ScanInv`, `GetAllInv`) |
| `SkipListProofs!ListIsMap` | `Spec => ImplementsTable`: the list is the map `MemTable` | at the bottom of a search the key is met exactly if it is listed (`FoundIffListed`); all other steps stutter |
| `KVProofs!MemoryIsDirectory` | `[]MemoryMatchesDisk`, for any keys, table size, log and kills, and any `totLevel` the constructor leaves | while up the list names each table once, no name is above `SScnt`, the counters count the levels, no cached table is one of those whose removal is pending (`Index`) |
| `KVProofs!FlushesAreNewest` | `FlushIsNewest`: a flush is later than every table on disk | no table has a time above its own number, whoever was killed while writing it (`Tables`) |
| `KVProofs!LevelsStaySearchable` | `[]LevelsSearchable` of `CSpec`, for any sizes and any number of keys | a table merged and not yet removed no longer counts (`Live`); among the live ones, below level 0 ranges are apart and an upper level is never older, at every step of a compaction and not only between operations (`Disjoint`, `Ordered`, in `LevelsInv`): the tables taken down are the oldest of their level, and of the next level every table they overlap |
| `KVProofs!LevelsStaySound` | `[]LevelsSound` of `CSpec`, if the constructor leaves a `totLevel` of at least -1 | the pass of `checkLevel` has brought every level it has left behind within its bound, and no level lies beyond `totLevel` (`BoundInv`) |
| `KVProofs!StoreIsMap`, `ScansFindAll`, `CurrentNeverPunched` | `[]ClientSees`, `[]ScanComplete`, `[]CurrentAboveHole` of `CSpec` | every entry of a table points to its own key in the log (`LogInv`); the memory table agrees with the client's map (`MemInv`); and for a key it does not have, the entry of the newest live table is the client's value and lies above the tail (`ViewInv`): of the keys a compaction merges the winner is the newest (`Merges`), and what it drops at the top level is a deletion that nothing below needed |
| `TshProofs!TypeCorrect` | `[]TypeOK` | the slot the loop holds was found on the list, and the list never holds a pid the kernel does not know |
| `TshProofs!AtMostOneForeground` | `[]OneForeground` | while a foreground job is listed the loop is inside `eval` or `do_bgfg` for it, at a place where it starts no other |
| `TshProofs!ListIsChildren` | `[]JobsAreChildren`, if every child finds room (`Cardinality(Pid) <= MAXJOBS`) | list = unreaped children, corrected by the one being added and the one being removed |
| `TshProofs!ListShowsStops` | `[]StatesMatch` of `Spec`, for any length of the list | what waitpid has told is true until the handler has recorded it (`Learnt`); a stop not yet told keeps a signal pending (`Noticed`); one told is in the list or is the update under way (`ShownStopped`), and nothing else is shown stopped but the job fg or bg has just continued (`ReallyStopped`; a stop recorded while the loop stands before its assignment is in `lost`, with where the loop is: `AddingInv`, `KillingInv`, `SettingInv`) |
| `ProxyProofs!TypeCorrect` | `[]TypeOK` | a thread uses a descriptor variable only after assigning it |
| `ProxyProofs!LogIsExclusive` | `[]LogExclusive` | the mutex is 0 whenever a thread is between P and V |
| `ProxyProofs!NoneLeftOpen` | `[]NoDescriptorLeft` | every open descriptor is remembered by the one thread whose `pc` still leads to its close |
| `ProxyProofs!KeptApart` | `[]Isolation`, for any number of threads, any requests and replies, and peers that stop anywhere | the items of a stream are, in order, those written on, the one line read and not yet written, those in the thread's buffer and those in the socket (`Flow`); which of these a thread has depends on its `pc` (`Asks`, `Answers`); a descriptor a thread uses is open for its own socket (`Owns`) |
| `ProxyProofs!SerialRelays`, `SerialLogCounts` | `[]Relays`, `[]LogCounts` of `SerialSpec` | with one thread at a time a descriptor closed for the second time is still free, so no foreign socket is ever closed (`SerialInv`) |
| `FibProofs!NumberIsRight` | `[]FibTasks!ResultRight`, for any `N` in `Nat` and any `maxThreads` | a call has none or both of its halves and returns after both (`Tree`, `Waits`), what it returns is its number (`Values`), and the counter counts the calls between their two changes of it (`Counter`); a late call of least length would have a caller that waited for it |
| `HeapProofs!HeapInvariant`, `TypeCorrect` | `[]IInv` and `[]TypeOK`, for any number of lists, heap, sizes and traces | there is a set `B` of blocks of which the program knows only what it reads: headers and footers agree and each block ends where another or the break is (`Tiles`); the free ones are in the lists, links forward and back are inverse, each in the list of its size, and no list is a ring (`Lists`); no two are neighbours (`Apart`); the others are the driver's and hold what it wrote (`Owners`) |
| `HeapProofs!HeapIsConsistent`, `DriverAcceptsAll` | `[]HeapConsistent`, `[]DriverAccepts` | from the above: the walk over the heap meets exactly `B`, in as many steps as fit (`HeapBlocksAre`), and as many steps as there are free blocks meet all of a list (`AllReached`), which needs that it is no ring |
| `HeapProofs!HeapImplementsAPI` | `ImplementsAPI`: `mm_malloc`, `mm_realloc` and `mm_free` implement `HeapAPI` | every word of a live block is its owner's name (`WordsAreNames`), and the ranges of two blocks of a tiling are apart (`RangesApart`) |
| `Y86Proofs!PipelineControl` | `[]NoPipeError`, for both pipelines, any program, word size, memory and limit | behind a ret that waits for its address the registers are empty (`RetFollowedByNothing`); in `pipe-std` the two requests exclude each other by the instruction in E |
| `Y86Proofs!TypesHold` | the image holds bytes; registers, memory and pending writes of `Seq` are words and bytes, for any program of well-formed lines | itself: what the tables of the assembler hold (`AsmTypes`: an encoded line has a byte for every place it is written to) and the state of the processor (`SeqTypes`); that a sum of digits is a word is an induction over the places (`NumberBelow`) |
| `Y86Proofs!SeqRefinesIsa` | `SeqImplementsIsa`: each step of `Seq` is a `step_state`, for any such program of complete instructions, any word size and memory | `Types`; then instruction by instruction (`NopStep` to `IaddqStep`, `DataFault`, `FetchFault`): the pending writes of one step are the state the next one reads. `SharedNumbers` identifies the words and the ALU of the two instances |
| `Y86Proofs!StudentSimulatorMatches` | `[]Y64SimMatches`, for the same programs | as long as `plain`, which ends with the first `iaddq`, the first overflow of either sign and the first result outside the lower half of the words, overflow or not (y64sim.c:285 looks at that half only), the student's simulator agrees with the state after the pending writes and OF has never been set (`YInv`): without OF `jl` and `jg` may read the sign alone, and the sign of the lower half of a small result is that of the result |
| `Y86Proofs!AssemblersAreRight` | `[]AssembledRight`, for any program whose data lines are not 0 | a line stands behind the line before it, a label is where its line begins, a line has its operand unless the table of relocations has it exactly once (`Shape`); at the end nothing is left to patch (`Settled`), and the recursive `bytepos` of `yas` gives the same places (`SamePlaces`) |

Every proof rests only on the named assumptions of its module
(`StoreAssumption`, `OptionsAssumption`, `SkipListAssumption`, `ShellAssumption`, `ProxyAssumption`,
`HeapAssumption`: the heads of the lists fit into the heap and leave payloads aligned, sizes
are multiples of 4 above 0; `ProgramAssumption`: the lines of a program are lines that
`parse_line` can deliver; `PowerAssumption`: 2 and 256 to the power of n + 1, of which the
provers know nothing),
plus the stated premises of `ListIsChildren`, of `NumberIsRight` (`N \in Nat`) and of
the last theorems about the store. Those are about `CSpec`, every operation, the
destructor and the constructor, but no kill, and assume
  - `LevelsFit`: `checkLevel` stays inside the array of counters (30 levels, which no
    disk fills; the behaviour beyond it is undefined);
  - for the bound of the levels, `Garbage` at least -1: with a smaller uninitialised
    `totLevel` level 0 is not looked at, which is the finding `LevelBound`;
  - for what the client sees, `Empty \notin PutValue`: the code takes an empty value for
    "not found";
  - and `NoTies`: no two tables with a key in common have the same time. The code does
    not guarantee it, a merged table has the greatest time of its sources; `kv_stale` is
    the behaviour that breaks first `NoTies` and then `get`. In all states of `kv_map`
    and `kv_all` `NoTies` and `LevelsFit` hold, so the premises are met there. The proof
    says that with the other premises a tie is the only way a `get` can go wrong, short
    of a kill and of the freed objects of a store that was closed (`NoFreedObjectRead`).

`SeqRefinesIsa` and `StudentSimulatorMatches` assume `ProperCode`: every instruction that is
reached lies in memory to its last byte and names registers that exist. Without it the
processors do differ: `seq_Stat` looks at the fetch of the first byte only and nobody
looks at the register numbers, while `isa.c` refuses both. The assemblers write such code
only where data is run or a jump goes astray; TLC finds `ProperCode` in all states of
`y86`, so the premise is met there, by programs that fail at a jump, a stack access or a
load as well. Nothing is assumed of what the program computes, whether it changes itself,
or where it stops.

`AssemblersAreRight` assumes `DataNotZero` of every finished program: y64asm writes the
value of a data line digit by digit over the code of the directive, so a value of 0
leaves that code (0xC0) there. In all states of `y86` it holds, a run of `.quad 0` would
show `AssembledRight` violated.

TLAPS cannot take induction over data
with the installed provers, so "a non-empty set of naturals has a least element" is
derived from the well-foundedness of `<` (`LeastNat`), and where an induction
would be needed a least counterexample is taken instead (`NatInd`, `WalkExists` in
`HeapProofs`); `FibonacciFollows` shows in
this way that the recursive definition of `fibonacci` defines what it says.

Only model-checked: all liveness properties (`OperationsReturn`, `CallsEnd`,
`WaitingEnds`, `ThreadsEnd`), the refinement of `KVMap`,
the equality of the pipelines and the processor (`PipeMatchesSeq`), the cycles lost, what
the store answers after a kill, the trees and the two kinds of files. Liveness is
beyond the prover; the trees, `Hnsw`, `Huffman` and `Select` use RECURSIVE operators, which
it does not take. The pipelines agree with the processor only on programs that do not
overwrite what has been fetched (and `pipe-full` only without the findings), so their
equality needs an account of the instructions in flight; that is work left, as the
refinement of `KVMap` is. The
mutants in `PROJECT.json`, defined next to what they change, show for each checked
property a plausible slip of the code that breaks it.

## 5. Not modelled

Half of the repository's C is generated or supplied: the scanners and grammars of
`lab7/sim/misc` (`lex.yy.c`, `yas-grammar.c`, `hcl.tab.c`, their sources), the graphical
simulators, `csapp.c` beyond what the proxy calls, MurmurHash, timers, and the
eight further pipelines, of which each has the control functions of `pipe-std` with
a few changed. They hold tables, parsers and drawing, no state that outlives a
line; a model would copy them. That is why the lines named by the map cannot come
near a third of the implementation.

Of the students' own code the following is left out: the test drivers of lab5, lab6
and lab9's timing (they start programs and compare text); the matrix
transposition (straight-line code for one cache geometry); `bits.c` (pure functions
on 32-bit words that `btest` enumerates); the filter and search exercises, which
measure; numerical scripts, Simulink models and notes.

## 6. Plan

What would come next, in this order:

1. Store: proof of the refinement of `KVMap`, in which the half-written table and the
   half-done compaction that a kill leaves behind are part of what the files show.
2. Y86: proof of `PipeMatchesSeq`, with the instructions in flight as the refinement
   mapping; with `SeqRefinesIsa` the pipeline then implements the instruction set.
