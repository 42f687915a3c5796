# TLA+ models and proofs for ugalib

ugalib is a C library: containers, strings, errors and logging, files, threads
with a semaphore and a thread pool (`src/src/core`), and sockets with a
`select` loop (`src/src/net`). This directory holds TLA+ models of the parts
with state, the TLC configurations that check them on small instances, and
theorems checked by TLAPS.

Run from this directory: `tlc -config Semaphore.cfg MCSemaphore.tla` checks a
run, `tlapm SemaphoreProofs.tla` checks the proofs. `PROJECT.json` lists every
run with the module and the properties it checks, the source lines behind each
definition, and for every checked property a plausible bug that breaks it.

## 1. Inventory

| Component | State | Operations | Uses | What makes it correct |
|---|---|---|---|---|
| Semaphore (`uga_thread.c`) | `val`, a mutex, a condition | acquire, release, release_n | `mtx_*`, `cnd_*` | no lost update of `val`; no permit beside a sleeper; no more threads let through than permits |
| Threads, mutexes, conditions (`uga_thread.c`) | handles of C11 threads | create, join, detach, sleep; lock, unlock, timed lock; wait, timed wait, signal, broadcast | errors | times are valid, failures are visible |
| Thread pool (`uga_pool.c`) | `is_active`, list of tasks, its mutex, a semaphore, vector of threads | create, add_task, the worker loop, destroy | semaphore, list, vector | FIFO, every task runs once, destroy returns, nothing used after free |
| Lists (`uga_list.c`) | `head` (and `size`), heap nodes with `next`, `prev` | push, pop, peek, at, insert, remove, destroy | alloc, errors | nodes form one chain both ways; behaves as a sequence |
| Vector (`uga_vector.c`) | `data`, `size`, `capacity`, `elem_dtor` | create, reserve, shrink, push, erase, erase_stable, clear, copy, move, destroy | alloc, errors | stays in its block; each owned element destructed, and once |
| Handlers (`uga_async.c`) | array of at most `UGA_MAX_HANDLERS` callbacks | add, remove, has_ready, run | sockets, `select` | callbacks only for sockets with data; every registered ready socket is served; ends when told |
| Errors (`uga_err.c`) | one `uga_errdata` per process | clear, setters, `uga_had_errs`, print, abort | log | tells whether the last call failed, and how |
| Log (`uga_log.c`) | none | log line, time string | string, alloc | does not change what it reports on |
| Allocation (`uga_alloc.c`) | the heap | allocate, reallocate, deallocate | errors, log | failure reported |
| Files (`uga_fs.c`) | descriptors, file contents | open, read, write, close, size, access, whole-file calls | errors, string | a call without error moved everything; appends only append; descriptors are given back |
| Strings (`uga_str.c`) | `data`, `size`, `capacity` of a block | create, assign, copy, move, append, push, reserve, shrink, clear, destroy | alloc, errors | each block has one owner; a call without error did what it says to the text; no call leaves its memory |
| String views (`uga_strview.c`) | pointer and size into somebody's text | trim, chop, unchop, substr, compare, search, parse | errors | stays in its text; what is cut off and what is left are the whole; means what its characters mean |
| Command line (`uga_cli.c`) | the options and their values | parse, ask | string, `getopt` | an option shows what it was given last |
| Sockets (`uga_sock.c`), transfers (`uga_talk.c`) | descriptor and address | create, bind, listen, connect, accept; send, recv | errors, alloc | descriptors are not lost; what was transferred is what was said |

The parts call each other directly. Three things are shared behind the calls,
and most of what is hard comes from them:

* **the error record.** `uga_errdata` is one static variable. Nearly every
  function clears it on entry; an allocation clears it; a log line allocates.
* **the pool's state.** Client and workers share the task list under
  `task_mtx`, the counter under the semaphore's mutex, and `is_active` under
  nothing.
* **the handler array.** Callbacks change it while `uga_async_run` is between
  two of its elements.

The hard behaviours are interleavings of statements of several threads (semaphore,
pool, errors), spurious wake-ups, callbacks that change what is being
iterated, short transfers, other processes changing a file, peers that come and
go, calls that fail half way, memory that runs out, and long sequences of calls
on a linked structure or on one text. Nothing is persisted by the library, so there
is no crash recovery. The `hazards` of `PROJECT.json` list each at its line.

## 2. Modules

| Module | Models | Composes / implements |
|---|---|---|
| `SemAtomic` | the semaphore, one step per critical section | |
| `Semaphore` | the same, one step per statement | implements `SemAtomic` (always), `CountingSemaphore` (one acquirer) |
| `CountingSemaphore` | the textbook semaphore: take a permit if there is one, add permits | |
| `SemaphoreProofs` | theorems about `Semaphore` | |
| `ThreadPool` | the pool: main thread, workers, running tasks | instantiates `SemAtomic` |
| `PoolProofs` | theorems about `ThreadPool` | |
| `ListSpec` | a sequence with push, pop, insert, remove, read | |
| `DlList`, `SlList` | the lists on nodes with pointers | each implements `ListSpec` |
| `Vector` | vectors of owned elements in blocks of cells | |
| `Containers` | one of the three at a time | extends `Vector`, instantiates the lists |
| `ContainersProofs` | theorems about the vectors and both lists | |
| `StrSpec` | texts and what calls on them promise, with and without memory | |
| `Str` | strings in blocks that move and may not be had, and a client's view | implements `StrSpec` |
| `StrView` | a view over a text, the calls that move its ends, and what it means | |
| `Cli` | `uga_cli_parse_args` over `getopt` | |
| `Strings` | one of the three at a time | extends `Str`, instantiates `StrView`, `Cli` |
| `StringsProofs` | theorems about strings, views and the command line | |
| `Async` | the handler array and the `select` loop | |
| `AsyncProofs` | theorems about `Async` | |
| `Errors` | the error record under two threads | |
| `Files` | the functions of `uga_fs` over a file system | |
| `FilesProofs` | theorems about `Files` | |
| `ByteStream` | a stream in each direction: what is received is a beginning of what was sent | |
| `Sock` | the sockets of a program, its peers' connections, system calls that fail | |
| `Talk` | sending and receiving over them, and the peers | extends `Sock`, implements `ByteStream` |
| `Datagrams` | programs that send, receive and answer datagrams | |
| `Net` | connections or datagrams | extends `Talk`, instantiates `Datagrams` |
| `NetProofs` | theorems about `Net` | |
| `Timed` | acquiring, waiting and sleeping with a limit, and the clock | |
| `Waits` | the calls that wait: the `select` loop or the timed calls, with their fairness | extends `Async`, `Timed` |
| `System` | what clients are told of the operating system: sockets, files or the error record | extends `Net`, `Files`, `Errors` |
| `SharedProofs` | theorems about `Timed` and `Errors` | |

`Containers`, `Strings`, `Net`, `System` and `Waits` put side by side what shares no
state: `part`, `area` or `waits` says which one a behaviour is about, the
others keep the value they began with, and a property speaks of its part. The
states add up, they do not multiply, and what the proofs show of `Net`, `Files`,
`Errors`, `Async` and `Timed` by themselves is what the runs of `System` and `Waits`
check of them. The error record is one in the code: `Net` and `Files` keep a
client of one thread, and each its own copy of the record; two threads that share it
are what `Errors` is about.

`MC<Module>` gives the constants of a module small values for TLC.

### Semaphore

One thread is at one label `pc[t]`; labels carry the line they stand for.
`CallAcquire`, `CallRelease`, `CallReleaseN` are the entries of the three
functions, `MtxAcquire`/`MtxRelease` the lock and unlock at the call sites,
`TestGreen` the test of `val > 0`, `CndWait` the wait (gives the mutex back and
sleeps in one step, as `cnd_wait` does), `Load` followed by `Decrease` or
`Increase` the compound assignments, `Ping`/`PingAll` signal and broadcast. A
woken thread is at `relock`: it needs the mutex, and others may get it first.
`posted` and `admitted` are history variables. `val` is an unbounded integer;
the code's is an `i32_t` that would need 2^31 unmatched posts to overflow.

`uga_sem_acquire` waits once, with `if`, and decreases without looking again.
That is the central fact of this component. One permit can let two threads
through, a `uga_sem_release_n` lets every sleeper through, and the counter goes
below zero, to be paid back by later releases. It is the textbook semaphore only
for one acquiring thread without spurious wake-ups; what still holds in
general (`Conservation`, `NoStrandedPost`) is what the pool can build on.

### ThreadPool

The pool uses `SemAtomic`, because `Semaphore` implements it (checked and
proved). The worker loop of `_uga_pool_poll` is `TestActive`, `AcquireSem` and
`ResumeSem`, `LockTasks`, `CheckActive`, `Leave` or `PopTask`, `UnlockTasks`,
`FinishTask`. `AddTask`, `PushTask`, `PostTask`, `AddReturns` are
`uga_pool_add_task`, called by the main thread or by a running task
(`Submitters`). `CreateThread`, `CreateReturns` start the workers, `Deactivate`,
`PostShutdown`, `JoinAll`, `Free` are `uga_pool_destroy`. The unlocked read of
`is_active` is a data race: until a worker has locked the semaphore's mutex
after the destroyer released it, the read may return either value (`stale`).

A worker let through in vain finds no task, and its permit is gone
(`PermitPerTask` counts them in `misses`); a worker that overtakes a woken one
takes the counter below zero, by at most one for every worker but one and every
spurious wake-up (`OverAdmissionBounded`). Two workers that overtake each other
make both `EveryTaskRuns` and `DestroyReturns` fail; `PoolDestroyHangs` shows the
second, in which each read of `is_active` returns the current value.
`TasksRunUnlessOvertaken` and `DestroyReturnsUnlessOvertaken` show that nothing
else does: in every behaviour in which the counter stays at or above zero, both
hold.

`CreateFails` is a thread the system does not give. The pool keeps its
`uga_thread` as if there were one: tasks still run as long as one worker exists,
and uga_pool_destroy joins a thread that is not there (`JoinCrashes`, after which
nothing is promised).

### Lists

Nodes are addresses with `next`, `prev` and data; `head` is followed as the
loops of the code follow it (`path`, `NodeAt`). A new node's links are what
`_uga_dl_node_create_with` stores, and a freed node reads as `Blank`, so that a
pointer left dangling changes what is read. `out` is what the last call returned,
`call` its name and index. `ListSpec` has both, so the refinement compares, for
each call and index, the result and the contents afterwards. The error
record is one flag here: `uga_dl_list_at` prints its own error, and the log line
clears it; `uga_dl_list_peek_front` and `uga_dl_list_destroy` may leave an older
one. `IsList` asks for the right error after every call but these three.

### Vector

Cells hold the elements a client pushed. An element pushed into a vector that was
created with a destructor is in `alive` until the destructor is called on it;
`overrun` notes a call that reads or writes outside the `capacity` cells of its
`block`, and no call follows it. `Copy` and `Move` yield a vector without destructor,
as the code does: a copy shares the elements with a vector that still owns them, but
a moved vector has its elements for itself and leaks them. `owned` and `moved` are
history: what the client created with a destructor, and what came from another
vector. `LostByMoveOnly` says that no other call parts an element from its
destructor, and `VectorMoveLeaks` that moving does. `EraseStable` moves
`size - index + 1` elements from the one after the erased, two more than
there are, and leaves the block of a vector with fewer than two cells to spare:
a real fault, which `OnlyStableEraseOverruns` names; it says that no other call does, and
this one in no other case. A push on an emptied vector grows it although it has
room (`uga_vec_empty` is asked first); harmless, and modelled.

### Async

Sockets are model values; `ready` is what the network has brought. A callback
reads its socket and may add, remove or close handlers before it returns true
or false. `fds`, computed before the loop, and `fdr`, the result of `select`,
are separate. `AddHandler` drops a handler silently when the array is full, as
the code does. `late` notes the handlers added since the last `select`: one that
a callback removes and puts back is called on the old result, perhaps twice and
without data, and the action properties except it. A handler that a callback
adds is not in `fds` and never waited for; `ReadyServed` speaks of the others.

### Errors

A call is: clear (if the function does), the work, a log line on the way (if it
logs), the two stores of type and category, `UGA_RETURN_ON_ERR` (if it has
it), then what the client does: nothing, `uga_had_errs`, or one of the print and
abort handlers. `Function` records describe representative functions that differ in
these traits. `Reported` names its exceptions:
a function that does not clear may show an older error, one with
`UGA_RETURN_ON_ERR` prints its own away, and `_uga_check_thrd_err` stores the type
`UGA_ERR_NONE`. `disturbed[t]` is history: another thread has stored to the record
since `t` last cleared it, and then nothing is promised to `t`. `Exit` reads the
status after the print has cleared the error, which is why a process that printed
and aborted reports success (`ExitTellsError` says exactly when).

### Files

A file is a sequence of bytes; descriptors are an offset, a path and flags.
Reads and writes may be short, as read(2) and write(2) allow, and another
process may append or truncate between the steps of a whole-file call. Every
system call may fail at any time, and so may the allocation in `uga_fs_read_file`. Only
calls that are steps of their own (`open`, `fstat`, `read`) are separate
actions. `WholeFileExact` says of a file written that it begins with the data, not
that it is the data: `uga_fs_open_write` does not truncate. The whole-file calls keep
their descriptor, and the table runs out of them; `DescriptorsKept` says that no other
call does.
`FileFailureTold` asks for an error after every call that moved less than it was asked to
or in which a system call failed, and names the two that go another way: a whole-file
call that could not open its file, and a `uga_fs_read_file` without size or string, whose
`UGA_RETURN_ON_ERR` prints the error away and returns nothing. What a read has to move is
what there is, up to the capacity; the code compares with the capacity alone, so a
string that is larger than its file is a partial read (`FilesWhole`).
External definitions (`open(2)` and so on) are marked so in the map.

### Strings, views, command line

`Str` has a heap of blocks, each a sequence of cells; `mem` holds the allocated
ones, so a pointer to a freed block points nowhere. Calls are built from one
another as in the code: an operator takes the state of a call and gives the set of
states it may end in, because every allocation may fail, and a reallocation may
move. `fault` notes access to memory that is not the string's. Four kinds of calls
do that and are named by `StaysInMemory`: `uga_str_push_back` and `uga_str_new_copy`
and `_move`, which do not look whether they got the memory, an append of a
string (or a view of it) to itself that has to move the block, and `uga_str_at` of a
negative index, which is compared with the size only. `ImplementsText` is the refinement
of `StrSpec`; its exceptions are `uga_str_create_cstr`, whose last allocation may clear
the error of its first, and `uga_str_push_back`.

In `StrView` a pointer is an offset into `text`. `Becomes` is a call that moves the
ends; `last` keeps the view before and the piece cut off, `split` the pieces
since a client began to split. A negative count or index leaves the text, as no
function looks for one; such a call is modelled and is the last one (`astray`), and `CutsText`
speaks of clients that make none. Putting back what was chopped restores the view
only if no delimiter was thrown away and something was left (`UnchopUndoes`), which the
parsing loop of the library's README does not look for (`UnchopLate`). Comparing, searching and parsing are
operators (recursive functions, no RECURSIVE), and `ReadsAsText` compares them with
their meaning on sequences of characters for every view over every text of the bound.
`ParseInt` wraps at `Width` bits like the code's `i64_t` on the machines it runs on.

`Cli` reads one item of the command line per step. `value` is the array of an
option, in which a shorter value leaves the tail of a longer one.
Values are shorter than `UGA_CLI_ARG_LEN`.

### Sockets and transfers

`Sock` is one program and its kernel: descriptors with the state of their socket,
connections that wait for accept, a wire for each direction of each connection. A call
is put together from system calls (`socket`, `bind`, ...) that may each fail, and goes on
where it is not `Stopped` by the `if( uga_had_errs() ) return sock` between them; what fails half way leaves
its descriptor in the socket the client gets. `errno` is never reset, and three
functions ask it without knowing that their call failed (`CheckErrno`). The peers are any
programs: they connect, send, read and close as they like.

`Talk` adds `uga_send`, `uga_recv` and their string variants: the kernel moves any number
of bytes, `RecvStr` shrinks the string it got, and the allocation clears the error
or leaves one. Without memory for the string nothing is received and nothing is said:
`uga_recv` clears the error of the allocation. `sent` and `received` are what the
callers were told, and with `ByteStream` they are what the refinement is about.

`Datagrams` has several programs and one socket each, whose address a receive
overwrites; datagrams may be lost, duplicated and come in any order, as `mail` is a
set nothing is removed from and nothing has to be read. Answers go to the sender of what was received last.

### Timed calls

Times are a `tv_sec` and a `tv_nsec`, and `Add` adds to one of them without a carry, as the
code does. `Valid` is what the C library accepts. `Second` ticks make a second. An invalid time
is only noticed where there is something to wait for: a free mutex is acquired anyway.

## 3. Runs and bounds

| Run | Instance | Shows |
|---|---|---|
| `Semaphore` | 2 acquirers, 2 posters, one thread is both, batches of 0 and 2, 2 calls each, 1 spurious wake-up, fair | `Conservation`, `NoStrandedPost`; it implements `SemAtomic`; calls end or sleep (`CallsSettle`) |
| `SemaphoreLone` | 1 acquirer, 2 posters, batches of 1 and 2, 3 calls each, initial value 1 | it implements `CountingSemaphore` (`IdealSpec`) |
| `Pool` | 3 workers, any of which may not be created, one of which submits, 3 tasks, 1 spurious wake-up, fair | `FifoDispatch`, `PermitPerTask`, `OverAdmissionBounded`, `NoUseAfterFree`; without overtaking every task runs and destroy returns |
| `Containers` | 2 vectors, 3 elements, capacity up to 4; lists of 5 nodes, 2 data values | `DestructedOnce`, `LostByMoveOnly`, `OnlyStableEraseOverruns`; `WellLinked`; the lists implement `ListSpec` and tell of their failures (`IsList`) |
| `Strings` | 2 strings, 3 blocks, texts of 1 and 2 characters, capacity 2; views over texts of up to 4 characters from four alphabets of 2 or 3, 4-bit numbers; 3 options, 3 items | `EachBlockOwned`, `StaysInMemory`, `ViewsSurvive`, it implements `StrSpec` (`ImplementsText`); `CutsText`, `ReadsAsText`, `UnchopUndoes`; `ParsesArgs` |
| `System` | sockets: 2 descriptors, 1 connection, backlog 1, 3 bytes sent, buffer 2; 3 parties, 3 datagrams, of 1 and 3 bytes; files: 1 path, 2 byte values, 2 descriptors, length 2, failing system calls, short transfers, another process; errors: 2 threads, 6 functions, logging on or off | `ClientHasSockets`, `FailureTold`; it implements `ByteStream` (`IsStream`); `AnswersOneSender`; `FileFailureTold`, `WholeFileExact`, `AppendsOnly`, `DescriptorsKept`; `Reported`, `ExitTellsError` |
| `Waits` | 3 sockets, array of 2, callbacks do everything, signals; 2 threads, seconds of 3 ticks, clock up to 5; fair | types (the array is not overrun), `CalledOnceOnData`, `ReadyServed`; `Exclusion`, `WaitsAsAsked`, `TimedReturns` |
| `PoolDestroyHangs` | 2 workers, 1 task, fair | violates `DestroyReturns` |
| `AsyncReturns` | 2 sockets, callbacks remove and close | violates `OnlyReturnsOnFalse` |
| `VectorMoveLeaks` | as `Containers` | violates `NoneLost` |
| `UnchopLate` | as `Strings` | violates `UnchopRestores` |
| `FilesWhole` | the files of `System`, without short transfers and other processes | violates `AllReadIsNoError` |

Why the bounds are enough. Overtaking needs one sleeper, one late acquirer and
one post; two acquirers with two calls each meet in every order. A pool of three workers and
three tasks contains a task lost by overtaking, one taken in order, and one
added by a running task, and with three the bound on the counter is reached and
differs from that for two. Five list nodes have a first, a last and inner ones
whose neighbours are inner ones, so every branch of insert and remove is taken
with and without the ends next to it. Capacity 4 passes through 1, 2, 4, the
doublings of `uga_vec_push_back`. An array of two handlers overflows with three
sockets. Two descriptors run out after two whole-file calls, and a file of two
bytes can be transferred in part. Three blocks are two strings and one that is moved to,
and capacity 2 has a string that is full, has room, and is grown. Four characters hold
a number with blanks and a sign, or two delimiters with something between and around them; 4 bits
overflow with two digits. Two descriptors are a listening socket and an
accepted one, or a client that was refused one. Three bytes are a message of two sent
in part, then sent again or answered. A datagram of 3 bytes is longer than
the buffer and one of 1 byte shorter. A clock over two seconds has waits that end in their second, in the next, and
at its edge. The six functions of `System` differ in whether
they clear, log and print, and one has a type of error that is that of none.
`MaxCalls`, `MaxTasks`, `MaxSpurious`, `MaxFailed`, `MaxCap`, `MaxLen`, `MaxItems`, `MaxFds`, `MaxTable`,
`MaxConns`, `MaxSent`, `MaxMail`, `MaxTime` are the bounds; each is a constant and stands in a
guard. Symmetry is used for nodes, elements, blocks and strings, in runs without
liveness. `Strings` has a VIEW: states that differ only in the history of the last call (`call`,
`failures`) are one, as no step reads it and only action properties, checked at every step, are
about it. `Containers` has one, too: what is in the cells of a vector that are not in use
makes no difference to any call. `CHECK_DEADLOCK FALSE` stands where the system
may stop or a bound stops it: calls used up, the pool freed, no vector with room,
the loop returned, the process exited, no descriptor left, a call left its
memory, the clock at its end.

### Findings

Each is a run that expects a violation, of a property that states what an
example or the library's README says; `PROJECT.json` quotes the lines.

* `PoolDestroyHangs`: the counter is at -1 after an overtaking; `uga_pool_destroy`
  posts one permit per worker, one too few, and joins a worker that sleeps for ever.
* `AsyncReturns`: a callback removes and closes its socket, which stays in `fds`; the
  next `select` fails and `uga_async_run` returns though no callback returned false.
* `VectorMoveLeaks`: a moved vector has lost its destructor, and its elements are never
  destructed (`uga_vector.c:59`).
* `UnchopLate`: a line put back by its size leaves the view one character late, or empty.
* `FilesWhole`: a file read whole into a string with room to spare is a `PARTIAL_READ`, on
  which `examples/files.c` aborts.

For these, and for other places where the code does not do what its documents say, a
property of a passing run says that the rest is right, and names the calls as its exceptions:

* `IdealSpec`, `OverAdmissionBounded`: a woken thread does not look at the counter
  again, so with a second acquirer, or a batch that wakes more than it has permits for, more
  threads pass than permits were posted (`uga_thread.c:268`, `:294`).
* `OnlyStableEraseOverruns`: a stable erase from a vector with fewer than two cells to spare
  moves cells beyond its block (`uga_vector.c:177`).
* `LostByMoveOnly`: a moved vector loses its elements (`uga_vector.c:59`).
* `IsList`: after `uga_dl_list_peek_front` or `uga_dl_list_destroy` an error of an earlier call may be
  found; after `uga_dl_list_at` of a bad index none is.
* `StaysInMemory`: `uga_str_at` of a negative index reads before the block without an error; three
  other kinds of calls touch memory they do not have.
* `ImplementsText`: `uga_str_create_cstr` that runs out of memory for the text but not for its NUL
  leaves a wrong text and no error; `uga_str_push_back` may both fail and write.
* `UnchopUndoes`: after a discarded delimiter or an emptied view, putting back does not restore.
* `FailureTold`: a receive whose string could not be allocated leaves no error, among others.
* `FileFailureTold`: a whole-file call that could not open its file prints its error away.
* `Reported`, `ExitTellsError`: other threads, functions that do not clear, errors that are printed.
* `WaitsAsAsked`: timeouts whose ticks carry into the next second fail at once.

What may surprise but no document says otherwise is in section 2, or a hazard with a note
in `PROJECT.json`.

## 4. Fairness

`Semaphore!FairSpec` and `ThreadPool!FairSpec` have weak fairness of each
thread's steps inside a call: the operating system runs a thread that can run,
and a mutex that stays free is given to a waiter. Starting a call, adding a
task, destroying the pool and a spurious wake-up are not fair: nobody has to do
them. Strong fairness for the mutex is not assumed, and not needed because each thread makes a
bounded number of calls. `ThreadPool` assumes that a task returns, without which
no pool could run the next one. `WaitsSpec` has weak fairness of the loop: `select` returns
when a socket of its set is ready, and callbacks return. A callback is assumed to read
its socket, as `select` would otherwise report it for ever. `WaitsSpec` also has weak fairness of
the clock and of each thread's step inside a timed call: time passes, and a thread whose time is up
or whose mutex stays free is run. Signals, spurious wake-ups, releasing the mutex and waking others are not fair.

## 5. Proofs

`SemaphoreProofs` proves, for any finite sets of acquiring and posting threads,
any batches, initial value and bounds (assumption `SemaphoreConstants` only):

* `TypeCorrect`, `NoLostUpdate`: `Spec => []TypeOK`, `Spec => []Conservation`.
  `Conservation` is not inductive: a store writes back a value that was loaded
  a step earlier. The invariant `IInv` adds `MutexInv` (exactly the threads
  at a label of the critical section own the mutex) and `LoadedInv` (a thread about to
  store has the current `val` in its register), which together say that nobody
  else can have written between the load and the store.
* `LoneAcquirerAdmissions`, `LoneAcquirerIdeal`: with at most one acquiring
  thread, a non-negative initial value, no empty batch and no spurious wake-up
  (`Lone`), the semaphore is the textbook one. `LoneInv` says that whenever the
  acquirer is past its wait there is a permit: it was woken by a release after
  the increase, and nobody else takes.
* `ImplementsAtomic`: every statement of `Semaphore` is a step of `SemAtomic` or
  a stutter. The counter is mapped to its value before the increase until the
  signal is given, because a release wakes a thread and posts at once in `SemAtomic`.
  `GreenInv` gives the fast path its permit between the test and the store.
* `NoStranded`: however acquires overtake woken threads, no permit is left
  beside a sleeper when no release is in progress. Proved on the mapped state,
  where each permit beyond the woken threads means nobody sleeps.

`PoolProofs`, for any number of workers, submitters, tasks, spurious wake-ups and threads
that could not be created (`PoolConstants`):

* `PoolFifo`, `PoolPermits`, `PoolOverAdmission`, `PoolFreedLast`: the four invariants of
  run `Pool`. None is inductive by itself. `MutexInv` (only the holder of `task_mtx` stands between its
  lock and its unlock) keeps two threads from pushing and popping at once; `SleepInv` (only
  a sleeping worker waits or is woken) makes the woken workers countable; `WokenBound` says
  of the counter with the woken workers still to be served what `OverAdmissionBounded` says
  of the counter alone: a release that wakes a worker and that worker's return leave it as it
  is, and a worker that overtakes found a permit; `ActiveInv`
  (before `uga_pool_destroy` clears the flag nobody can read FALSE) keeps workers from
  leaving early; `JoinedInv` is what the joins have waited for.

`SharedProofs`, about what threads share besides the pool:

* `TimedExclusion`, from the types alone, and `TimedWaits`, from `AskedInv`: the
  timespec of a call is the time asked for, added to the moment of the call. It needs the
  arithmetic of quotient and rest (`SplitTime`). For any threads, durations and length of a
  second (`TimedConstants`).
* `ErrorsReported`, `ErrorsExit`, for any number of threads and any functions that satisfy
  `ErrorsConstants`, of `ErrorsSpec`. `Known` says for each stage of a call what a thread that
  nobody disturbed knows of the record; a store of another thread disturbs it, so only its own
  steps have to be looked at.

`NetProofs`, for any messages, buffer, descriptors, connections, parties (`NetConstants`):

* `NetSockets`, `NetFailures`, `NetAnswers`, and `NetStreams`, the refinement of
  `ByteStream`. `OnTheWay` says that what was received followed by what is on the wire
  is what was sent; `AddrIsHeard` that a socket has the address of
  whom it heard last. Every system call may fail in the proofs as in the run.

`AsyncProofs`, for any sockets and any size of the array (`AsyncConstants`):

* `AsyncTypes` (the array is not overrun) and `AsyncCalls` (an action property). That no
  handler is called twice in a round rests on `AheadInv`: the handlers the loop has yet to come
  to were not called, as the one that takes the place of a removed one comes from the
  back. `FreshInv` keeps what `select` found true until the callback.

`FilesProofs`, for any paths, data, descriptors and lengths (`FilesConstants`):

* `FilesExact`, `FilesTold`, `FilesAppend`, `FilesDescriptors`, with any system call failing. What a call returns is right
  when it returns; `OpenInv` (files behind open descriptors exist) and `PendingInv` (where a
  whole-file read is between its system calls) are what is carried from step to step.

`ContainersProofs`, for any vectors, elements, capacities and numbers of nodes
(`VectorConstants`, `ContainersConstants`):

* `ContainersVectors`: the invariant `VectorInv`, that each block is as long as its
  capacity says and that its used cells hold elements. From it `ContainersInBlock`: no call but a
  stable erase with fewer than two cells to spare leaves its block. `DestructedOnce` counts, so `OwnInv` says where
  each element is: alive if in a used cell of an owning vector, of one cell and one vector, and a vector that
  owns elements has its destructor unless it was moved. From that `ContainersDestructed` and
  `ContainersLost`, for clients that move and copy as they like.
* `ContainersChains`, `ContainersLinked`, `ContainersLists`: the nodes of a list are a
  chain. `SlHas(c)` and `DlHas(c)` say that the sequence `c` of distinct nodes begins at `head`, that
  `next` of each is the one after it and of the last is null, that `prev` goes back, and that
  `c` has all nodes that are not freed. `WellLinked` is not inductive, because it speaks
  of the path from `head` and says nothing that a change of one node can be compared with;
  with `c` each call is one insertion (`LinkedIn`, `BackedIn`) or one removal (`LinkedOut`,
  `BackedOut`) at a place of `c`. The path the code's loops follow is a recursive function:
  that it meets `c` (`PathIs`) is proved by induction on the places, stated of a set of
  numbers (`NatSet`) because a rule about an operator cannot be cited here. With `WellLinked` comes the refinement of `ListSpec`: the
  data along `c` is the sequence, and inserting into `c` is inserting into it.

`StringsProofs`, for any strings, blocks, texts, capacities, alphabets, width of numbers and
options (`StrConstants`, `StringsConstants`):

* `StringsOwn`, `StringsInMemory`, `StringsViewed`, `StringsImplement`: all four properties of
  strings, with any allocation failing and any block moving. `EachBlockOwned` lacks that the
  view of a client lies in a block that is there and long enough; `StrInv` adds it. It speaks of the moments between calls; within one it is `Fine` (the string
  worked on and the blocks of the others), and `Does` is what a part of a call leaves for the next:
  blocks of others as they were, no block shorter, and a text. Each operator of `Str` has a lemma that says what
  it `Does` in each of its outcomes (`Reserved`, `Appended`, `Pushed`, `CreatedFrom`, ...), and
  `Served` is what the four properties need of a call, shown of each call of a client.
* `StringsParses`: what `ParsesArgs` says of an option follows from the values it was given,
  but a value is copied over the one before it without its NUL. `CliInv` says of any
  sequence of values that the cells are the last one followed by the tail of a longer one.
* `StringsUnchop` and `StringsCut`: `ViewInv` says how the view was got from the one before
  the last call, from which putting back restores it where `UnchopUndoes` says so; `SplitInv` that there are as many pieces as
  delimiters consumed, and that joined they are what was consumed, which is what
  `SplitJoins` says of the end.
* `StringsRead`: the comparisons are lemmas about sequences element by element (`PrefixIs`,
  `SuffixIs`, `EqualIs`), once for the characters and once for their lower case (`Folded`). For
  `uga_sv_parse_int`, the number parsed and the number denoted are functions of how many
  digits were read; both exist (`BuiltExists`, step by step), and at each digit they are `Like` one
  another, which is to differ by a multiple of 2^Width; `Wrap`, and the sign at the end, keep that.

Model-checked only:

* liveness (`CallsSettle`, `TasksRunUnlessOvertaken`, `DestroyReturnsUnlessOvertaken`,
  `ReadyServed`, `TimedReturns`), and the violations: `ENABLED` and fairness are beyond this prover, and a violation needs none.

## 6. What is not modelled, and why

* Running out of memory under the containers, and the recursion of the log line
  out of memory (`uga_alloc.c:21`): no bound but the stack. Strings and receives run out of
  memory in `Str`, `Talk` and `Datagrams`. `malloc(0)` returns a pointer, as in glibc.
* Detaching, yielding and thread ids: they keep no state in the library.
* The content of addresses, address formatting (`uga_addrinfo_from_sockaddr` copies
  only the first bytes of an IPv6 address, `uga_lookup` copies the text without its NUL), byte
  order, the stored socket configuration.
* Signals and the end of a process that sends to a closed connection (SIGPIPE). Shutting
  down is modelled in both directions at once.
* `uga_async_read`: starts an `aio_read` on a control block on its own stack, and
  nothing in the library completes it.
* What a callback reads through its `uga_callback` pointer after it removed its
  own handler: the slot then holds another handler or none.
* What calls with a negative count or index do after they left a text, and calls on a vector
  after one left its block: the model ends there.
* `uga_fs_file_access` leaks the C string of the name (its last line is
  unreachable): a leak of bytes, not of state.
* A whole-file read without error may be a prefix of a file that grew between
  `fstat` and `read`: `WholeFileExact` asks for a prefix only.
* The text of log lines, colours, the examples and tests (clients of the library).

## 7. Plan

1. *(done)* Semaphore, pool with failing threads, lists, vector, handlers, errors, files;
   proofs about the semaphore.
2. *(done)* Strings, views, command line; sockets, transfers, datagrams; timed calls.
3. *(done)* Proofs about the pool, errors, timed calls, sockets and transfers, handlers,
   files, vectors and lists.
4. *(done)* Proofs about strings with the refinement of `StrSpec`, views and the command line.
5. Failing allocation under the lists and the vector.
