# Verification of PoolSdk

TLA+ models of the C++ library in `libSdk/`: memory pool, thread pool, blocking
queue, locks, logger and log files, load balancers, and the data structures and
parsers beside them. TLC checks them on small instances; the theorems in the
`*Proof` modules are checked by TLAPS and hold for every value of the constants.

## 1. The system

| component | source (under `libSdk/`) | state it keeps | operations | modelled by |
|---|---|---|---|---|
| Page cache | `mem/CentralCache.cpp`, `mem/PageMap.h` | free spans filed by length, the map from pages to spans, one mutex | `NewSpan`, `ReleaseSpan`, `MapObjToSpan` | `PageCache` |
| Central cache | `mem/CentralCache.cpp` | per size class a list of spans with their free objects and use counts, and a mutex | `FetchRangeObj`, `GetOneSpan`, `ReleaseListToSpans`, `GetLargeMem`, `ReleaseLargeMem` | `MemPool` |
| Thread caches | `mem/CentralCache.cpp`, `mem/MemPoolCommon.h` | per class a free list with its size and growing limit; no lock | `Allocate`, `Deallocate`, `ListTooLong`, destructor | `MemPool`, `FreeListRace` |
| Size classes | `mem/MemPoolCommon.h` | none | `RoundUp`, `Index`, `NumMoveSize`, `NumMovePage` | `SizeClass` |
| Object pool | `mem/ObjectMemPool.h` | the rest of a chunk, a list through deleted objects | `New`, `Delete` | `ObjectMemPool` |
| Thread pool | `thread/AdvancedThreadPool.*` | workers, deque of tasks, idle count, stop flag, a mutex and a condition variable | `enqueue`, `cancel_pending`, the worker loop, destructor | `ThreadPool` |
| Blocking queue | `Common/LockQueue.h` | queue, capacity, stop flag, a mutex and two condition variables | `push`, `front`, `back`, `pop`, `pop_front`, `wakeup`, `setSpaces` | `LockQueue` |
| Reader-writer lock | `Common/RwLock.*` | counts of readers, writers and waiting writers | `readLock`, `readUnlock`, `writeLock`, `writeUnlock` | `RwLock` |
| Events | `Common/event.h` | a flag with mutex and condition variable | `eventWait`, `eventWaitTimeOut`, `eventSet`, `eventReset` | `Event` |
| Logger | `FileLogger/FileLogger.*` | output mode, level, a mutex, the blocking queue, a detached writer thread per `initLog` | `initLog`, `log`, `closeLog`, `setLogLevel`, `setLogFileName` | `Logger` |
| Log files | `FileLogger/OutPutMode.*` | current file, its size and index, limit of files, a purging thread | `writeData`, `changeNextFiles`, `purgeOldFiles`, `findMaxFileIndex`, `setLogFileName` | `LogRotation` |
| Log patterns | `FileLogger/formatPattern.h` | a list of formatters | `updatePattern`, `parsePattern` | `FormatPattern` |
| Configuration | `FileLogger/FileLogger.cpp`, `Common/FileSystem.cpp` | none | `OnGetLogConfig`, `parseConfig` | `ConfigFile` |
| Load balancers | `LoadBalancer/*` | servers with weights, connections and times | `addServer`, `selectServer`, `releaseConnection`, `updateServerStats` | `LoadBalancer` |
| Memory table, skip list | `Common/MemTable.*`, `Common/SkipListKv.h` | lists per level, a total of bytes | `Put`, `Get`, `Delete`; insertion, erasure | `MemTable`, `SkipList` |
| Red-black tree | `Common/RBTree.h` | nodes linked three ways, one sentinel | `insert`, `remove`, walks | `RBTree` |
| Lock-free stack | `Common/LockFreeStack.h` | nodes under one atomic head | `push`, `pop` | `LockFreeStack` |
| Shared-memory ring | `Common/MapFile.*` | mapping, write and read offsets | `writeMap`, `readMap`, `moveReadOffset` | `MapFile` |
| Expression calculator | `Common/StringExpCalc.*` | two stacks | `CalcExpValue` | `StringExpCalc` |
| Codecs | `Common/Base64.cpp`, `Common/SymRot13Cipher.cpp` | none | encoding, decoding | `Codecs` |
| Strings | `Common/StringUtils.cpp` | none | trimming, splitting, replacing, hexadecimal | `StringUtils` |
| Launching | `Common/PocessMange.cpp` | processes, parents, zombies | `createProcWithArg` | `Launch` |
| Others | spin lock, lock-free queue, digests, pipes, services, `mmap.h`, backtraces | - | - | section 6 |
| Vendored | `FileLogger/fmt`, `Common/json.hpp` | - | - | section 6 |

How they interact. A thread's cache takes objects from the central cache and
gives them back in batches, under the lock of one size class; the central cache
takes spans from the page cache, and gives them back when they have all their
objects again, under the page mutex. Both hand-overs drop the class lock on the
way. Any thread may free what another allocated: `MapObjToSpan` finds the span,
without a lock. The nodes of the page map come from object
pools; spans come from `new`, and a thread cache is a static object. The logger
pushes formatted lines into the blocking queue; a detached thread pops and writes
them through the output mode, which rotates the files and wakes the thread that
purges them. Everything else is used by applications, each on its own.

What is hard in it. Locks dropped and taken again in the middle of a call;
stale entries of the page map; counters that must agree with lists they do not
live in; condition variables notified after the unlock, outside the mutex, or one
waiter at a time; shutdown; threads that outlive what they use; restarts that
learn their state from the names of files; rebalancing with shared sentinels; and
arithmetic at the boundaries of classes, spans, rings and chunks. `PROJECT.json`
lists each hazard at its line with the properties that watch it.

## 2. Modules

An abstract specification says what a component promises, in a module of its own:
`PageAllocator` (disjoint blocks of pages), `Heap` (disjoint blocks of memory),
`Channel` (a bounded channel), `ReadersWriters` (readers or one writer), `KeyBag` (a
bag of keys), `KeyValue` (a dictionary), `Stack`. The module of the code has the
refinement as a property: `ImplementsAllocator`, `ImplementsHeap`,
`ImplementsChannel`, `ImplementsReadersWriters`, `ImplementsBag`,
`ImplementsDictionary`, `ImplementsStack`.

Memory pool. In `PageCache`, `live`, `m_pageId`, `m_nPageNum` and `m_isUse` are the
Span objects, `m_pageLists` the free lists, `idSpanMap` the radix tree, `held` the
spans in callers' hands; `want` and `rel` are the locals of the call that has the
page mutex. A call is `RequestSpan` followed by `NewLarge`, `TakeExact`, `Split` or
`Grow` (the recursive call), or `BeginRelease`, any number of `MergeNext` and
`EndRelease`. Deleted Span objects may be allocated again under the same name, so
a stale entry of the map is as dangerous in the model as in the code. `MemPool` is
the thread caches and the central cache on top of `PageAllocator`. `op[t]` says
where thread t is in its call, and holds its locals; a step goes from one
acquisition of a lock to the next, and the walk of `ReleaseListToSpans` is one step
per object. A thread may end and another start in its place. `FreeListRace` takes
one free list apart into its memory accesses; `CacheOf` says which cache each
thread's `m_TLSThreadCache` is. `SizeClass` has the code's numbers. `ObjectMemPool`
names an address by its chunk and its offset, and looks at bytes: an object in use
writes its size, a deleted one a pointer.

Thread pool. `pc[w]` follows worker w through its loop: "loop" before it locks,
"block" when it found nothing and still has the mutex, "wait", "woken", "run".
`call[s]` follows enqueue: test of `stop`, insertion under the mutex, notification.
`phase` follows the destructor. With `Nested`, running tasks submit tasks. Growing
the vector of threads while the destructor walks it is undefined: `phase` becomes
"undefined" and the model stops there.

Waiting. In `LockQueue` what a call does under the mutex is one step, its
notification another. `setSpaces` takes no lock; its only caller is the constructor
of FileLogger, so the model allows it while nobody uses the queue. `RwLock` and
`Event` notify under their mutex: a call is one step, or one up to the wait and one
per wake-up. `RwLock` is the branch that builds the lock itself (Windows up to C++14); of
the others the one for pthread wraps a lock of the system, and the one for Windows with
C++17 locks nothing (section 4). `Event` is the branch for pthread, with both kinds of reset and
waits with a time limit.

Logging. `Logger` is the front end on top of a channel: the calls that log in both
modes, the writer threads, `initLog` and `closeLog` (while no other thread is inside
the logger, as they take no lock; the writer threads do not stop for them), and the
calls that change level and file name under the mutex. `written` is what reached
the output, `flushed` how much of it left the buffer. Using an output that was
deleted makes `broken` true, after which nothing is claimed. `LogRotation` is
FileOutPutMode: the thread that writes lines, the purging thread, and the
directory. `disk` says which file each name stands for, so that a rename or a deletion by
name hits whatever has the name by then; `mtime` is when each file was written last. A
restart loses all but the files. The directory listing is that of Linux, which
looks at the extension only. It is not atomic: `OpenDir`, one `ReadEntry` per entry, and
`ListDone`, which sorts. The writer renames and creates files without the mutex meanwhile:
`DirectoryChanges` says that readdir may return the names that come or go, or not, so that a
file may be listed under two names or not at all; and `TimeOf` is the time of what the name
stands for when it is asked for, or none, in which case the code leaves the time unset and
the entry may be sorted anywhere (`FirstEntries`). `FormatPattern` maps a pattern to what its formatters
print; `ConfigFile` reads lines as the logger does, after the attempt to read them
as JSON.

Balancers and structures. In `LoadBalancer` every call holds the mutex from start
to end and is one step; `kind` is the class. What a caller of `updateServerStats` reports it
has read before, without the mutex, from the node it selected (`LoadBalance_Test.cpp:39`):
`ReadConnections` is a step of its own, `report` keeps what was read, and the call
overwrites the counter with it, whatever was selected or released in between. `RBTree` keeps the sentinel as a node
that removals write a parent into; what the code writes twice, mirrored, has the
side as a parameter. Its steps are the turns of the loops of insert, search and remove
and of both fix-ups; `treeCall` says which loop runs, and holds its locals, so that
between calls `treeCall` is `NoCall`. `SkipList` is one list per level, whose walks are recursive
functions (`Along`, `Update`), with `End` for the null pointer; `MemTable` is the total
above it. `Sums` adds the values of a function, for the entries of the table and the
weights of the servers.
`LockFreeStack` makes one access to shared memory per step, with addresses that
come back; one thread pops, which the code needs (section 4). `MapFile` is a writer
and a reader, with the copies in the pieces the code makes; overtaking the reader
(`lapped`) ends what is claimed. `StringExpCalc` computes the application an
expression stands for instead of a number, so that a wrong operand shows.
`Launch` follows each process from fork to its end; a zombie stays until its parent
waits.

MC modules. `MCPageCache`, `MCMemPool`, `MCFreeListRace` instantiate one module.
`MCLocks` (queue, lock, event, launching), `MCLogging` (front end, files) and
`MCParts` (all that never waits) each put several parts with no common state in one
run: the initial state names the `part` at work, the others stay in one state, so
that the states add up instead of multiplying. `Structures` does the same for the tree, the
skip list, the memory table and the object pool and states what holds of all of them, and
`SizeClass` ends with a sweep that makes states of the sizes a caller may ask for. These MC
modules extend the modules of their parts, but for those that handle text, and so do the
proof modules, which is why `RwLock`, `Event`, `Launch`, `Logger`, `MapFile`, `FreeListRace`,
`LockFreeStack`, `SkipList`, `MemTable`, `RBTree` and `ObjectMemPool` carry prefixes on the
names that would clash (and `deleted` is the pool's `m_freeList`); the statements the runs
list of these modules are those the theorems are about.

`handed`, `swallowed`, `raced`, `missed`, `resumed`, `replaced`, `crossed`, `astray`, `ends`,
`lapped`, `credit`, `timed`, `off` (with the field `late` of a report), `picks` and `calm` are
history variables: no step depends on them but for the bounds. Operators
whose line carries the comment "mutant" stand for bugs the code does not have;
nothing uses them but experiments that replace the operator after them.

## 3. Runs

| run | instance | shows |
|---|---|---|
| page_cache | 7 pages, 5 Span names, lists up to 3 pages, requests up to 4 | spans tile the memory, lookups find live spans, refinement of PageAllocator |
| mem_pool | 2 threads, 2 pages of 4 cells, objects of 2 and of 4 cells, large blocks of 2 pages, fair | conservation of objects, list limits, no idle span kept, refinement of Heap, calls return |
| mem_pool_overrun | objects of 3 cells in pages of 4 | violated: finding 1 |
| free_list_one_cache | 2 threads with one cache | violated: finding 2 |
| thread_pool | 2 clients, 3 tasks of any priority, nested, 1 to 3 workers, 1 spurious wakeup, fair | conservation of tasks, growth, tasks end, the destructor returns unless it raced with a worker about to block |
| thread_pool_hang | pool(2, 4) as in the test program, fair | violated: finding 3 |
| thread_pool_late | nested tasks, 1 to 2 workers | violated: finding 4 |
| locks | queue: 2 producers, 2 consumers, all calls, 1 or 2 places, 4 values; lock: 3 users, 2 calls each; event: 3 waiters, 3 sets or resets, 3 waits, both kinds; launch: 2 programs, 4 processes; spurious wake-ups; fair | see below |
| parts | see `MCParts.cfg` | see below |
| logging | front end: 2 threads, 3 lines, 2 calls of `initLog`, 1 change, queue of 1 place; files: limit 2, 3 indices, 4 files of two lines, 1 restart, 1 change of name, names with and without extension, a listing of one entry at a time; fair | see below |
| log_rotation_restart | base name with extension, limit 3, 1 restart | violated: finding 5 |
| event_timeout | one wait with a time limit and one set among 2 threads | violated: finding 6 |

`locks`. `FifoOrder`, `HandedOnce`, `NobodyStranded`, `NobodySleepsAfterWakeup`,
`ImplementsChannel`: the queue gives values in order and once, loses no
notification, and stops when told. `LockSound`, `ImplementsReadersWriters`: whoever
sleeps at the lock has somebody who will wake him, and writers exclude everybody.
`OneWaitPerSet`, `SetReachesWaiters`: an auto-reset event lets one wait through per
set, and a set event wakes those who wait without a time limit. `LaunchSound`: a
launch starts its program once and leaves no child, and the application stays one
process (unless the second fork fails, section 4). `CallsReturn`: every call for
the lock returns, and a launch that does not wait for the program.

`parts`. `CachesSound`: free lists with a cache per thread stay intact.
`SizesFit`: every size up to 270000 (the last class ends at 262144; eight sizes to
a state). `StructuresSound`: between calls the tree is red-black with sound links, and a
search in it fails only for a key it does not have; the levels of the
skip list are nested sorted lists, the total of a memory table never wraps, and neither
objects of an object pool nor the links of deleted ones are written over.
`ImplementsBag`, `ImplementsDictionary`: tree and skip list keep exactly the keys and
values they should, the tree at every turn of a loop. `RingSound`: the reader gets what was written. `TextsSound`:
expressions and patterns mean what their writer meant, and so do the lines of a
configuration behind the first (section 4) when no value has a "#"; decoding undoes
encoding, and replacing rewrites the matches of the text it was given.
`ConnectionsCounted`: the balancers that choose by load count, address by address, the
connections that clients hold, unless a report about the address was overtaken by a
selection or a release, or was about a server that is not the first of its address. `SharesKept`: round robin gives each server
its share. `ImplementsStack`: nothing is popped that was not pushed, or twice, and the
last value first.

`logging`. `LinesKept`: every line is in one place, and with one writer in order.
`QueuedIsFlushed`: what is queued is written and flushed unless the logger is
closed. `LoggerCallsReturn`: unless it locks itself out (section 4). `FilesSound`: lines go
to the file of the base name, sizes are right, and an index read from the names of
the files replaces none before all indices were used. `OldestGoFirst`,
`OnlySurplusGoesUnlessReplaced`, `LimitKept`: no file is purged before one that was written
earlier (with one change of name at most, and not both a change and a restart), and only when
there are more than the limit, both as long as no rotation has replaced a file; and the limit
holds whenever the purging thread got its notification. A rotation that falls into the
listing is an exception of each (section 4), but a bounded one: one file more than the
surplus goes at most, the next file is written where it should be, and a file that was
missed goes with the next notification.

Why the bounds are enough. Page cache: seven pages hold two grown chunks and a
large block, so a merge meets a free, a used and an unmapped neighbour, the
limit on merged length is reached, and five names for at most seven spans make
Span objects be deleted and their names come back. Memory pool: two threads
interfere at every dropped lock; two objects per span and limits that grow to two
make batches, emptied spans and surplus happen; with two pages and two classes
every span changes hands, and a large block needs both its neighbours back.
Thread pool, queue, lock and event: two threads on each side of a condition
variable, three where they are of one kind, are what it takes to lose a
notification to another. Log files: four files are twice the limit and one more than
the indices, and the index starts at the last one in one of the initial states, so
that it wraps, and comes round again while the purging thread holds a list; runs with a
restart or a change of name have one file less (`InFiles` in `MCLogging`), and the directory
is listed when it has as many files as the limit. A rotation is at most two changes of the
directory, so one rotation in a listing gives every outcome of an entry: under the old name,
the new one, both, neither, or without a time. Lines have one size there; that a line may be
longer than a file is left to the proof. In the front end a change of level or name leaves
room for one line of the threads, beside the logger's own. Tree: three
keys, two of each, six nodes reach every case of the removal on both sides. Skip
list: four keys on three levels. Balancers: three servers of which two share an
address, five selections, one caller who reports, to the
classes that choose by counters (the proof is for any number and any class). Ring:
capacity five and eleven bytes, so that both go round twice. Expressions: three levels of precedence, both kinds of function,
four applications inside one another. Launching: two launches of up to three
processes meet all their forks failing and all orders of ending.

Fairness. In `MemPool!FairSpec` a thread inside a call keeps running; mutexes are
not fair, weak fairness of each thread suffices because calls are finite. In
`ThreadPool!FairSpec` workers, calls and the destructor keep running and tasks
return; with finitely many tasks and spurious wakeups (the bounds), weak fairness
suffices. In `MCLocks!LocksSpec` a thread that is not blocked goes on with its call,
one that has the lock lets go of it, and a process goes on to exec or to its end
(a program need not end). In `MCLogging!LoggingSpec` threads inside calls, the writer
threads, and the purging thread keep running. Nobody is assumed to call anything.

Deadlock is not checked where a system may stop: the pool is destroyed, consumers
wait for values that nobody pushes, large spans that are never released fill the
address space, or the bounds stop the parts. It is checked in `mem_pool`.

## 4. Findings

Each has a run that violates what the repository says.

1. `GetOneSpan` (`CentralCache.cpp:153`) cuts one object too many when the size does
   not divide the span; it overlaps the next block. 528 bytes is such a size.
2. With GCC and Clang `THREAD_LOCAL` (`ThreadCache.h:36`) does not make a thread-local
   object: the attribute is ignored, and all threads share one unlocked cache.
3. The destructor of the thread pool (`AdvancedThreadPool.cpp:21`) may hang: a worker
   between its predicate and its wait misses the notification.
4. A task is accepted after the pool was stopped (`AdvancedThreadPool.h:48`).
5. `processFileName` (`OutPutMode.cpp:50`) reads no index from a name with an extension:
   after a restart the rotation starts at index 1 again and replaces rotated files
   although there is room for more.
6. `eventWaitTimeOut` (`event.h:127`) returns the error, -1, when it is woken in time.

Seen while modelling, without a run. The properties name those that concern them
as their exceptions.

- Thread pool: the constructor (`AdvancedThreadPool.cpp:15`) corrects its parameter
  instead of the member, so that pool(4, 2) has 2 workers and pool(n, 0) none;
  priorities (`AdvancedThreadPool.h:60`) only choose an end of the deque.
- Logger: `setLogLevel` and `setLogFileName` (`FileLogger.cpp:277`, `:380`) log a line
  while they hold `m_Mutex`; in a synchronous logger that line needs the mutex, and
  the logger locks itself out. Every `initLog` starts another writer on the same
  queue, so that lines may change places after the second.
- Log files: the purging thread ends at once when it runs before `setMaxFileNum`
  (`OutPutMode.cpp:195`), and a notification that comes while it deletes is lost until
  the next rotation. After `setLogFileName` (`:94`) lines go to the file of the old name
  until the next rotation, which may be purged under the open handle.
- Rotation beside a listing: `changeNextFiles` renames and opens files (`OutPutMode.cpp:134-137`)
  before it takes the mutex under which the purging thread reads the directory
  (`FileSystem.cpp:195-215`). A file may then be listed under two names, so that the surplus
  is taken for one more than it is; under a name that is gone by the time `stat` is called,
  which leaves the time unset; or not at all. So the thread may delete one file too many, a
  younger file before an older one, or the file that was just opened under the base name,
  or leave a surplus until the next notification.
- Configuration: `json::parse` (`FileLogger.cpp:204`) takes the first characters of the
  file, and `parseConfig` reads the rest: the first setting loses the start of its
  name, or counts although it was commented out; only a file that begins with a
  remark is read as written. "#" cuts a value, also in "%#", which `logCfg.cfg:14` and
  the README (lines 45 and 54) offer for patterns; such a pattern prints nothing. A pattern with an unfinished field prints nothing at all.
- Memory table: the total grows by a key length with every overwrite.
- Balancers: releases and reports name an address and reach the first server that
  has it; the nodes of LBLCR are never released. A report writes the count its caller read
  before (`LoadBalance_Test.cpp:39-41`) over the present one (`LoadBalancer.cpp:265`): what was
  selected or released in between is no longer counted.
- Ring: reads that end exactly at the end of the mapping compute a length of -1
  for their second copy; a read over several pending writes of which one went round the
  end gets a byte wrong; the writer may overtake the reader unnoticed.
- Reader-writer lock: on Windows with C++17 (`RwLock.cpp:41`, `:76`) the lock is held by a local
  variable and let go when `readLock` or `writeLock` returns.
- Stack: two threads that pop at once may read a deleted node.
- Calculator: `atanh` computes `acosh` (`StringExpCalc.cpp:65`); a minus before a
  parenthesis or a name, or after another operator, is misread.
- Strings: `ascii2HexString` writes eight digits for a byte above 127; `replaceOne` of C
  strings misses a match at the start, and replaces all later ones in a buffer
  made for one.
- Launching: when the second fork fails, the function returns in the child as well
  and the application goes on twice (`PocessMange.cpp:684`); a launch that is neither
  standalone nor waited for leaves a zombie, although the comment at `:758` means to
  avoid one; a failed exec counts as success. `getUnixServiceStatus` looks for "active",
  which "inactive" contains.

## 5. Proofs

`PageCacheProof`: for any number of pages and Span objects, any KMAX and any
largest request. `IInv` is the conjunction of TypeOK, Tiling, Filing, HeldLookup,
NextLookup and the parts of the invariant defined after them in `PageCache`. The
properties of interest are not inductive by themselves: that a lookup of the next
page finds a live span needs that the first page of every live span is mapped to
it, and the entries a merge leaves behind are harmless only because pages inside
a free span are never asked for, which needs the tiling. `InitIInv` and
`StepIInv` (one lemma per action) give `Invariance`; `TypeCorrect`, `SpansTile` and
`LookupsSound` follow, and `Implements` shows that `PageCache` implements
`PageAllocator`, with `held` as the blocks in use. `MemPool` builds on `PageAllocator`
only, so that its results hold above the real page cache. The module also has the
size classes: for every size up to MAX_BYTES an object returns to its list
(`ReturnsToItsListAlways`), the list exists (`ListsSufficeAlways`), and a span cut for the
class holds an object and is one the page cache files and merges (`SpanFitsClassAlways`);
`RowOfSize` goes through the rows of classes. `SizesAlwaysFit` puts the three together for
the states of the sweep, from wherever a sweep begins.

`MemPoolProof`: for any threads, classes, pages and limits. `ObjectsConserved` is not
inductive: that an object which comes back reaches the span it was cut from needs that
blocks do not overlap (`BlocksApart`) and that what is away from the spans lies in a block
and in the lists of its class (`Filed`); that a new span begins with a count of zero needs
that only spans that exist have another (`Counted`); and since the class lock is dropped
while a span comes or goes, that two calls never move the same span, which is either in
the list of its class and in use, or in the hands of one call and not in use (`Listed`).
`Limited` bounds what a call fetches by the room in its list.
`Conserved`, `WithinLimit`, `NoIdleSpanKept` and `TypeCorrect` follow; the last says that
the counters the code keeps as size_t never fall below zero. `Implements` (refinement of
`Heap`) has the hypothesis `WholeSpans`, that every size divides its spans, which is what
finding 1 violates; nothing else of the module needs it.

`LocksProof` has the queue, the lock, the events and the launching of processes. Queue,
for any finite set of threads, any calls they make, any set of capacities with a largest
one and any number of values: the inductive invariant `QueueIInv` adds to TypeOK,
FifoOrder and HandedOnce that the values pushers wait to append still fit under the
bound (`Reserved`), that what was not accepted was not handed out (`Unsent`, without
which a new element might be empty), and that the queue is within its capacity
(`Bounded`, which the refinement of `Channel` needs). `TypeCorrect`, `InOrder`,
`HandedAtMostOnce` and `IsChannel` follow. `NoneStranded` is about notifications: with
`ReadersDue` and `WritersDue` the threads woken for a side or about to notify it, the
statement compares numbers of sleepers, elements and places with these, and each step
changes them by one thread.

The others are for any threads and any number of calls. Lock: the counters are the numbers
of users in each place, and whoever sleeps has somebody awake, in the lock or on his
way, who will wake him or wake one who does (`LockSound`); the refinement of
`ReadersWriters` follows. The steps are about how cardinalities change when one user
moves or several are woken. Event: an auto-reset event lets through at most as many waits
as it was set; the invariant ties `credit` to `bState`. Launching: of the processes of a
call one at most has the program yet to start (`OneStarter`); a child whose parent lives
is the one the parent waits for, or past all forks, of a launch that leaves a child or
with a parent about to end (`Family`); and while no second fork failed every process but
the application is past the fork that could return into it, or before the second one
(`OneApplication`).

`PartsProof` is about the parts of the run `parts`, but for those that handle text and the
tree, which has `TreeProof`.

Balancers (`Counted`), for any servers, sharing addresses or not, and any reporters. For each
address the sum of the counters is the sum of the connections held (`MovedSums` is a step of
one of each). What a report writes is harmless when it is the count still: a report under
way is that count, or was overtaken, or is about an address already written off (`Fresh`). That
a release finds a server to lower needs that the sum is positive (`SomeUsed`).

Shares (`SharesFair`), for any servers whose weights and powers are positive
(`PositiveShares`: the code divides by them and does not check them). `NobodyAhead` and
`CycleClosed` follow from what the selections mean to each class. Round robin: the servers
selected once more than the others are those from where the round began up to the next
(`InTurn`). Least load: until a connection ends the counters are the selections (`ByLoad`),
so that the least loaded server is behind nobody. Weighted round robin: the credit of a
server is its weight times all selections less the total weight times its own (`InCycle`);
after a pass the credits add up to the total weight and are multiples of the divisor, so
one of them reaches it and the loop ends after one pass (`PassFinds`), and until a cycle is complete
whoever does has not had its weight (`OneOfItsWeight`). The last two are about sums over any number
of servers. `Sum` adds in an order of its own; what the proofs use of it (`SumLinear`, `SumChange`,
`SumBelow`, `SumExtended`, all in `SumsProof`) is shown for every subset by a smallest one that
would refute it.

Ring (`ReadsAreWrites`), for any capacity and any lengths of writes and reads. `Stored`
says where each byte of the stream is until it is written over: at its offset in the lap
where its write began, or, past the end of the mapping, one place before its offset in
the next lap, because the offsets do not count the byte there. The next lap overwrites a byte of
the second kind one byte earlier than one of the first, which is why `Stored` has two halves. `Behind` keeps what a reader was lent within a lap of the
writer, and `WritesFit` that a write is no longer than the mapping, so that a byte has one of
two laps to be in. The writer's copies come before the offset moves, so that the
invariant counts the write in progress (`Frontier`).

Free lists (`OwnCachesSound`), for any threads and any finite set of objects, under
`OwnCache`, which is what THREAD_LOCAL is for and what GCC and Clang do not give
(finding 2). The invariant has a list of the objects of every cache, from its end
(`LinkedAs`), no object in two places (`Separate`, `Owned`: lists, callers' hands, and calls on
their way with an object), and that what a call read is still so (`Registers`). `_size` is
written after the list, so that the length of the list is the count and what the call has
yet to write (`Depth`). A recursive function gives the objects that can be reached; that it
is the list, for any length, is shown by the least number of steps at which the two would differ
(`ReachableIs`).

Stack (`IsStack`), for any threads that push, one that pops at most (`OnePopper`), any finite set
of nodes and any number of pushes: `LockFreeStack` implements `Stack`. The invariant has the
sequence of linked nodes (`Chain`), that a node on its way in or out belongs to one thread and
is not in it (`Private`), and that what a pop compares with is still linked and the next node it read
still the next one (`Compared`): a node whose address comes back is one nobody compares with, since
only the one who pops returns nodes. `Below`, the walk that the mapping is
defined by, is shown to follow the sequence to any length by the least number of steps at which it
would not (`BelowIs`). Each step then pushes, pops, returns a value or changes nothing a stack has.

Skip list, for any keys, any number of levels and whatever heights the
nodes draw (`KeysFit`: keys are numbers below `End`), `SkipList` implements `KeyValue`
(`KeepsKeys`) and its levels stay nested sorted lists (`ListSound`). The invariant says
that the levels of a node are the lowest ones and that no level in use is empty but the
lowest (`Heights`), and that the successor of a node on a level is the next number there
(`Sorted`). An operation starts with a walk that goes right and down; both are recursive
functions, which exist and are unique by the greatest number where that would fail
(`SomeWalk`, `SomeDescent`, as keys only grow along a walk and levels shrink), and the
walk ends, on every level, at the last node below the key (`UpdateIs`). So a node is
linked in or out between neighbours. Memory table (`TableSound`, under `TableFit`): `szMem` is
never less than the keys and values in the list, so that what `Put` takes off for an
overwritten value was counted and the total never wraps.

Object pool (`ObjectsStayApart`), for every size of the class: the objects of a chunk end
before `_mem` or, in earlier chunks, before the end (`CutBefore`), and lie a step apart
(`Apart`). The step is that of a pointer when the class is smaller, while the test for
room compares with the size of the class; that it suffices needs that the rest is then a
number of whole pointers (`Cutting`). `ClassesFit` says what that takes: chunks of whole
pages and pointers, and classes larger than a chunk that fill whole pages. The code rounds
such a size down. The pools of the library hold nodes and leaves of the page map, of 2^17
pointers each, which are larger than a chunk and fill 128 pages. `StructuresStaySound` puts tree,
skip list, memory table and object pool together.

`TreeProof`: for any integers as keys, any number of nodes and equal keys (`TreeFit`), the
red-black tree is sound between calls (`TreeStaysSound`) and implements `KeyBag` at every
turn of a loop (`TreeIsABag`). The properties are written with recursive functions; the
invariant `TreeInv` is not. It says that there are sets `sub` of the nodes below each node
that fit the links (`Shape`: the two sides are apart, in order, smaller than the
whole, and the links up undo the links down), and heights `h` that fit the colours
(`Coloured`), except where the running loop has work to do. During insertFixup one node may be
red under a red one. During deleteFixup the ways down through one link (`at`, `sd`) have
one black node too few: a link, because the node at its end may be the sentinel, which has
many places in the tree but only one parent field, and `PlaceOf` says that this field is the
place. A walk can still find what it looks for (`WayDown`, `Finds`, `FindsLeast`: equal keys
may be on either side after rotations, and the successor is the least on the right all the
same). The proof is in four layers. The first has lemmas on any links and sets: a rotation,
a new leaf, a node cut out and a node put in the place of another keep `Shape`
(`TurnShape`, `HangShape`, `CutShape`, `ReplaceShape`). The second has what each case of the
fix-ups does to the colours (`InsertColours1` to `DeleteColoursEnd`). The third shows that
the writes of the code, in their order and with the sentinel among the cells written, are
these changes; the move of a successor is a cut followed by a replacement
(`SuccessorMoves`). The fourth has one lemma per action. At the end the recursive functions
are shown to agree with `sub` and `h` by a node where they would differ and below which they
agree (`FromBelow`).

`ThreadPoolProof`: for any clients, tasks and sizes of the pool, the pool grows in
time and conserves its tasks. `InOnePlace` counts tasks and is not inductive: `Apart`
adds that the numbers in the deque, with the workers, run and cancelled are all
different, so that moving one adds one and removes one. That the destructor drains
needs `Drains`: while the deque holds a task some worker has not left, because only a
running task can submit another after the stop. The theorem assumes `max_threads > 0`:
with 0 the pool accepts tasks nobody runs, and the constructor does not exclude it.

`LoggingProof`, files: for any sizes, limits, indices, base names and restarts. Four layers,
each inductive given those before it.

- `IInv`, for the open file. The purging thread deletes by name what it listed earlier; that
  it never deletes the open file needs that this is the youngest, and that its entry, if it
  was read, is as well (`Kept`), which needs that a listing that no rotation fell into has
  every link once with the time of its file (`Listed`), and that no two files have a name or a
  time in common (`Dated`). `Counted` ties `m_iCurrentSize` to the size of the open file.
- `Ordered`: a file is younger when its number is larger, as long as nobody comes back to an
  old name.
- `Purging`: the listing has as many entries as the directory has names, or one more when a
  rotation fell into it (`Crossing`; no second one does, since its notification waits for the
  mutex), so that the names left are as many as the limit, or one less; and what is left is
  younger than what is on the list.
- `Indexed`: the index goes on from the last one, that an earlier program left, or from 0 with
  no more rotations behind it than files were created, so that until the indices are used up
  the next one is free.

`Sound`, `OnlySurplus` and `OldestFirst` follow. The attempt to prove an earlier form of
`OldestGoFirst`, which did not ask that nothing was replaced, failed for a good reason: when
the index comes round while the purging thread holds a list, a new file gets a name of the
list and is deleted for the old one. TLC had not met it with more indices than files; with
three it does.

`LoggingProof`, front end: for any threads, places in the queue, lines, changes and set-ups,
`LinesKept`. A line is somewhere exactly if it was issued (`Accounted`) and no two places
have the same (`Unshared`); so a step that takes a line from one place and puts it in
another loses and doubles nothing. That a new line is new needs `Latest`: the line of a
call is the last one its thread issued. The order with one writer is that of written
lines, the line in the writer's hand and the queue (`Sorted`); a synchronous logger
writes past the queue, which is in order only because there is nothing on the way
(`Staged`, which follows the first set-up from before the output exists to its greeting).

Assumed: the named ASSUMEs of the modules, that memory is sequentially consistent
under the mutexes, and that the system's memory allocator gives disjoint memory.

Only model-checked: all liveness (`CallsFinish`, `TasksEnd`, `CallsReturn`, `LimitKept` and
their like), which the prover does not reach; `TextsSound`, whose modules (StringExpCalc,
StringUtils, Codecs, FormatPattern, ConfigFile) are recursion and folds over data, where the
provers lack induction; and `NobodySleepsAfterWakeup`, which is about enabled steps over
time. Every other invariant of a passing run is stated by a theorem.

## 6. Left out, and plan

In the memory pool: that mmap aligns to 4K while `PAGE_SHIFT` is 13, so that a chunk may begin
in the middle of a page of the pool (`SystemAlloc` gives whole pages); failure of the system's
allocator (`NewSpan` would throw with
the page mutex held by hand, `CentralCache.cpp:171`), foreign pointers, double frees,
and releasing a span longer than 128 pages, which writes past `m_pageLists`
(`CentralCache.cpp:365`). In the thread pool: exceptions of tasks (packaged_task
catches them) and the map of thread-local data, which stays empty. In the queue:
`pop_back`, which does not compile when it is used. In the log files: equal write
times, the buffer of stdio, an index that wrapped before a restart, failing I/O,
base names without a directory (`opendir("")` fails and nothing is ever purged), a purging
thread that outlives the `delete` of its output in `closeLog` and goes on with freed memory,
entries that `findMaxFileIndex` misses because the purging thread deletes meanwhile (it is
one step), and the directory listing of Windows. In the configuration: JSON, and what the
logger makes of the values of the settings. In the balancers: references to servers that
outlive the vector (`LoadBalancer.cpp:30`). In the stack: more than one popper, which is
undefined. In the ring: the creation of the mapping.

Not modelled at all: the spin lock (one atomic exchange in a loop), the lock-free
queue (the first `dequeue` follows a null pointer or reads a node that
`enqueue` has not filled, `LockFreeCircularQue.h:72`, so that there is nothing to
check), `SkipList.h` (the algorithm of `SkipListKv.h` without values), digests and
CRC (pure arithmetic on 32 bits, whose reference would be the same formulas),
pipes, services, `mmap.h`, paths and file access (calls of the system with no state
between them), backtraces, what formatters print, and conversions of numbers.
`json.hpp` and `fmt` are vendored and make up some 38000 of the 53000 lines.

What is left to do: a second popper and hazard pointers if the stack gets them.
